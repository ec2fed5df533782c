---------------------------- MODULE LifecycleProofs ----------------------------
(***************************************************************************)
(* One loop of a kind, and no more jobs on threads than there are threads, *)
(* proved for any kinds of loops, any number of tasks and threads, and     *)
(* either flag.                                                            *)
(***************************************************************************)
EXTENDS Lifecycle, SumProofs

Going(t) == Live(t) /\ ~ task[t].cancelled

\* A task that was not told to end belongs to a bot that is started, and
\* state.tasks holds it under its own kind: so the next stop reaches it, and
\* there is no other of its kind.
Held(t) ==
  Going(t) => /\ running
              /\ task[t].kind \in DOMAIN tasks
              /\ tasks[task[t].kind] = t

Tasks ==
  /\ task \in [Task -> [kind : Kind \cup {None}, job : Nat, cancelled : BOOLEAN,
                        at : {"new", "job", "returned", "failed", "sleep", "ended"}]]
  /\ \A t \in Task : task[t].at = "ended" => task[t].kind = None
  /\ \A t \in Task : Live(t) => task[t].kind \in Kind

LoopsInv == Tasks /\ \A t \in Task : Held(t)

LEMMA InvHolds == LoopsInv => OneLoopPerKind
<1> SUFFICES ASSUME LoopsInv, NEW t \in Task, Going(t)
             PROVE  /\ t \in Named
                    /\ \A u \in Task :
                         (task[u].kind = task[t].kind /\ ~ task[u].cancelled) => u = t
  BY DEF OneLoopPerKind, Going
<1>1. /\ task[t].kind \in DOMAIN tasks
      /\ tasks[task[t].kind] = t
      /\ task[t].kind \in Kind
  BY DEF LoopsInv, Tasks, Held, Going
<1>2. t \in Named
  BY <1>1 DEF Named
<1>3. ASSUME NEW u \in Task, task[u].kind = task[t].kind, ~ task[u].cancelled
      PROVE  u = t
  <2>1. Going(u)
    BY <1>1, <1>3, LifecycleAssumption DEF LoopsInv, Tasks, Going, Live
  <2> QED
    BY <1>1, <1>3, <2>1 DEF LoopsInv, Held
<1> QED
  BY <1>2, <1>3

LEMMA InitInv == Init => LoopsInv
  BY DEF Init, LoopsInv, Tasks, Held, Going, Live, Ended

\* Telling the tasks that state.tasks holds to end leaves none going.
LEMMA CancelLeavesNone ==
  ASSUME LoopsInv, CancelAll(Named)
  PROVE  Tasks' /\ \A t \in Task : ~ Going(t)'
<1>1. \A t \in Task : task'[t] = IF t \in Named THEN Cancelled(t) ELSE task[t]
  BY DEF CancelAll
<1>2. ASSUME NEW t \in Task PROVE ~ Going(t)'
  <2>1. CASE Going(t)
    <3>1. t \in Named
      BY <2>1 DEF LoopsInv, Tasks, Held, Going, Named
    <3> QED
      BY <1>1, <2>1, <3>1 DEF Cancelled, Going, Live, LoopsInv, Tasks
  <2>2. CASE ~ Going(t)
    BY <1>1, <2>2 DEF Cancelled, Going, Live, LoopsInv, Tasks
  <2> QED
    BY <2>1, <2>2
<1>3. Tasks'
  <2>1. task' \in [Task -> [kind : Kind \cup {None}, job : Nat, cancelled : BOOLEAN,
                            at : {"new", "job", "returned", "failed", "sleep", "ended"}]]
    BY DEF CancelAll, Cancelled, LoopsInv, Tasks
  <2>2. ASSUME NEW t \in Task
        PROVE  task'[t].at = task[t].at /\ task'[t].kind = task[t].kind
    BY <1>1 DEF Cancelled, LoopsInv, Tasks
  <2> QED
    BY <2>1, <2>2 DEF LoopsInv, Tasks, Live
<1> QED
  BY <1>2, <1>3

\* A turn, or the end of a job, gives a task a state of the same kind or ends
\* it, and cancels nothing that was going but to end it.
LEMMA TurnKeeps ==
  ASSUME LoopsInv, NEW t \in Task,
         NEW w \in [kind : Kind \cup {None}, job : Nat, cancelled : BOOLEAN,
                    at : {"new", "job", "returned", "failed", "sleep", "ended"}],
         Becomes(t, w), UNCHANGED <<running, tasks>>,
         w = Ended \/ (Live(t) /\ w.at # "ended" /\ w.kind = task[t].kind
                               /\ w.cancelled = task[t].cancelled)
  PROVE  LoopsInv'
<1>1. task' = [task EXCEPT ![t] = w]
  BY DEF Becomes
<1>2. Tasks'
  BY <1>1 DEF LoopsInv, Tasks, Live, Ended
<1>3. ASSUME NEW u \in Task PROVE Held(u)'
  <2>1. CASE u = t
    BY <1>1, <2>1 DEF LoopsInv, Tasks, Held, Going, Live, Ended
  <2>2. CASE u # t
    BY <1>1, <2>2 DEF LoopsInv, Tasks, Held, Going, Live
  <2> QED
    BY <2>1, <2>2
<1> QED
  BY <1>2, <1>3 DEF LoopsInv

LEMMA StepInv == LoopsInv /\ [Next]_vars => LoopsInv'
<1> SUFFICES ASSUME LoopsInv, [Next]_vars PROVE LoopsInv'
  OBVIOUS
<1> DEFINE States == [kind : Kind \cup {None}, job : Nat, cancelled : BOOLEAN,
                      at : {"new", "job", "returned", "failed", "sleep", "ended"}]
<1>0. \A t \in Task : task[t] \in States
  BY DEF LoopsInv, Tasks
<1>1. CASE Start
  <2>1. PICK pick \in [Kind -> {t \in Task : ~ Live(t)}] :
          /\ \A j, k \in Kind : pick[j] = pick[k] => j = k
          /\ tasks' = pick
          /\ task' = [t \in Task |-> IF \E k \in Kind : pick[k] = t
                                      THEN Fresh(CHOOSE k \in Kind : pick[k] = t)
                                      ELSE task[t]]
    BY <1>1 DEF Start
  <2>2. running' = TRUE /\ ~ running
    BY <1>1 DEF Start
  <2>3. \A t \in Task : ~ Going(t)
    BY <2>2 DEF LoopsInv, Held
  <2>4. ASSUME NEW t \in Task, NEW k \in Kind, pick[k] = t
        PROVE  task'[t] = Fresh(k)
    <3>1. (CHOOSE j \in Kind : pick[j] = t) = k
      BY <2>1, <2>4
    <3> QED
      BY <2>1, <2>4, <3>1
  <2>5. ASSUME NEW t \in Task, \A k \in Kind : pick[k] # t
        PROVE  task'[t] = task[t]
    BY <2>1, <2>5
  <2>6. ASSUME NEW k \in Kind
        PROVE  /\ Fresh(k) \in States
               /\ Fresh(k).kind = k /\ Fresh(k).at = "new" /\ ~ Fresh(k).cancelled
    BY DEF Fresh, Ended
  <2>7. ASSUME NEW t \in Task PROVE task'[t] \in States
    <3>1. CASE \E k \in Kind : pick[k] = t
      BY <2>4, <2>6, <3>1
    <3>2. CASE \A k \in Kind : pick[k] # t
      BY <1>0, <2>5, <3>2
    <3> QED
      BY <3>1, <3>2
  <2>8. Tasks'
    <3>1. task' \in [Task -> States]
      BY <2>1, <2>7
    <3> QED
      BY <2>4, <2>5, <2>6, <3>1 DEF LoopsInv, Tasks, Live
  <2>9. ASSUME NEW t \in Task PROVE Held(t)'
    <3>1. CASE \E k \in Kind : pick[k] = t
      BY <2>1, <2>2, <2>4, <2>6, <3>1 DEF Held, Going, Live
    <3>2. CASE \A k \in Kind : pick[k] # t
      BY <2>3, <2>5, <3>2 DEF Held, Going, Live
    <3> QED
      BY <3>1, <3>2
  <2> QED
    BY <2>8, <2>9 DEF LoopsInv
<1>2. CASE Stop
  BY <1>2, CancelLeavesNone DEF Stop, LoopsInv, Held
<1>3. CASE Close
  BY <1>3, CancelLeavesNone DEF Close, LoopsInv, Held
<1>4. CASE Exit
  <2>1. \A t \in Task : ~ Going(t)
    BY <1>4 DEF Exit, LoopsInv, Tasks, Held, Going, Named
  <2> QED
    BY <1>4, <2>1 DEF Exit, LoopsInv, Tasks, Held, Going, Live
<1>5. CASE RunJob
  BY <1>5 DEF RunJob, LoopsInv, Tasks, Held, Going, Live
<1>6. CASE EndOrphan
  BY <1>6 DEF EndOrphan, LoopsInv, Tasks, Held, Going, Live
<1>7. ASSUME NEW t \in Task, Turn(t) PROVE LoopsInv'
  <2>1. CASE Finish(t) /\ Live(t)
    <3>1. Ended \in States
      BY DEF Ended
    <3> QED
      BY <2>1, <3>1, TurnKeeps DEF Finish
  <2>2. ASSUME NEW n \in Nat, HandIn(t, n), Live(t) PROVE LoopsInv'
    <3> DEFINE w == [task[t] EXCEPT !.at = "job", !.job = n]
    <3>1. w \in States /\ w.at = "job" /\ w.kind = task[t].kind
          /\ w.cancelled = task[t].cancelled
      BY <1>0
    <3>2. Becomes(t, w) /\ UNCHANGED <<running, tasks>>
      BY <2>2 DEF HandIn
    <3> HIDE DEF w
    <3> QED
      BY <2>2, <3>1, <3>2, TurnKeeps
  <2>3. ASSUME Pause(t), Live(t) PROVE LoopsInv'
    <3> DEFINE w == [task[t] EXCEPT !.at = "sleep", !.job = 0]
    <3>1. w \in States /\ w.at = "sleep" /\ w.kind = task[t].kind
          /\ w.cancelled = task[t].cancelled
      BY <1>0
    <3>2. Becomes(t, w) /\ UNCHANGED <<running, tasks>>
      BY <2>3 DEF Pause
    <3> HIDE DEF w
    <3> QED
      BY <2>3, <3>1, <3>2, TurnKeeps
  <2>4. CASE GiveUp(t)
    BY <2>1, <2>4 DEF GiveUp
  <2>5. CASE Round(t)
    BY <2>1, <2>2, <2>5 DEF Round, Live
  <2>6. CASE NextJob(t)
    <3>1. task[t].job + 1 \in Nat
      BY <1>0
    <3> QED
      BY <2>2, <2>3, <2>6, <3>1 DEF NextJob, Live
  <2>7. CASE Fail(t)
    BY <2>3, <2>7 DEF Fail, Live
  <2> QED
    BY <1>7, <2>4, <2>5, <2>6, <2>7 DEF Turn
<1>8. ASSUME NEW t \in Task, EndJob(t) PROVE LoopsInv'
  <2>1. PICK how \in {"returned", "failed"} : Becomes(t, [task[t] EXCEPT !.at = how])
    BY <1>8 DEF EndJob
  <2> DEFINE w == [task[t] EXCEPT !.at = how]
  <2>2. w \in States /\ w.at # "ended" /\ w.kind = task[t].kind
        /\ w.cancelled = task[t].cancelled
    BY <1>0
  <2>3. Becomes(t, w) /\ UNCHANGED <<running, tasks>>
    BY <1>8, <2>1 DEF EndJob
  <2> HIDE DEF w
  <2> QED
    BY <1>8, <2>2, <2>3, TurnKeeps DEF Live, EndJob
<1>9. CASE UNCHANGED vars
  BY <1>9 DEF vars, LoopsInv, Tasks, Held, Going, Live
<1> QED
  BY <1>1, <1>2, <1>3, <1>4, <1>5, <1>6, <1>7, <1>8, <1>9 DEF Next

\* However start, stop, shutdown and the turns of the loops follow each other,
\* no two loops of a kind go on.
THEOREM OneLoop == Spec => []OneLoopPerKind
  BY InitInv, StepInv, InvHolds, PTL DEF Spec
-----------------------------------------------------------------------------
(* The executor: a task awaits one job at most, which is in the queue or on *)
(* a thread, and a task that was told to end awaits none.                   *)

Awaits(t) == task[t].at = "job" /\ ~ task[t].cancelled

QueueInv ==
  /\ waiting \in Seq(Task)
  /\ \A i \in DOMAIN waiting : Awaits(waiting[i]) /\ waiting[i] \notin busy
  /\ \A i, j \in DOMAIN waiting : waiting[i] = waiting[j] => i = j

ThreadInv ==
  /\ busy \subseteq Task
  /\ \A t \in busy : Awaits(t)
  /\ orphans \in Nat
  /\ Threads <= Workers

Rest ==
  /\ running \in BOOLEAN
  /\ \A k \in DOMAIN tasks : k \in Kind /\ tasks[k] \in Task
  /\ server \in {"up", "closing", "down"}

LifeInv == LoopsInv /\ QueueInv /\ ThreadInv /\ Rest

LEMMA LifeTypes == LifeInv => TypeOK
  BY DEF LifeInv, LoopsInv, Tasks, QueueInv, ThreadInv, Rest, Awaits, TypeOK

LEMMA BusyCount == ASSUME NEW S \in SUBSET Task PROVE IsFiniteSet(S) /\ Cardinality(S) \in Nat
  BY LifecycleAssumption, FS_Subset, FS_CardinalityType

LEMMA InitLife == Init => LifeInv
<1> SUFFICES ASSUME Init PROVE LifeInv
  OBVIOUS
<1>1. LoopsInv
  BY InitInv
<1>2. waiting = <<>> /\ busy = {} /\ orphans = 0
  BY DEF Init
<1>3. QueueInv
  BY <1>2 DEF QueueInv
<1>4. ThreadInv
  BY <1>2, FS_EmptySet, LifecycleAssumption DEF ThreadInv, Threads
<1>5. Rest
  <2>1. tasks = <<>> /\ DOMAIN tasks = {}
    BY DEF Init
  <2> QED
    BY <2>1 DEF Init, Rest
<1> QED
  BY <1>1, <1>3, <1>4, <1>5 DEF LifeInv

\* Steps that leave alone the executor and the tasks that await a job.
LEMMA ExecutorRests ==
  ASSUME QueueInv, ThreadInv, UNCHANGED <<waiting, busy, orphans>>,
         \A t \in Task : Awaits(t) => Awaits(t)'
  PROVE  QueueInv' /\ ThreadInv'
<1>1. \A i \in DOMAIN waiting : waiting[i] \in Task
  BY DEF QueueInv
<1>2. QueueInv'
  BY <1>1 DEF QueueInv
<1>3. ThreadInv'
  BY DEF ThreadInv, Threads
<1> QED
  BY <1>2, <1>3

\* What is left of the queue is a part of it in the same order.
LEMMA WithdrawnPart ==
  ASSUME QueueInv, NEW S, NEW w, w = Withdrawn(S)
  PROVE  /\ w \in Seq(Task)
         /\ \A n \in DOMAIN w : \E i \in DOMAIN waiting : w[n] = waiting[i] /\ w[n] \notin S
         /\ \A m, n \in DOMAIN w : w[m] = w[n] => m = n
<1> DEFINE left == {i \in DOMAIN waiting : waiting[i] \notin S}
           key == [i \in left |-> i]
           At(n) == CHOOSE i \in left : Cardinality({j \in left : j <= i}) = n
<1>1. /\ w = [n \in 1 .. Cardinality(left) |-> waiting[At(n)]]
      /\ waiting \in Seq(Task)
  BY DEF Withdrawn, QueueInv
<1>2. IsFiniteSet(left) /\ Cardinality(left) \in Nat
  <2>1. DOMAIN waiting = 1 .. Len(waiting) /\ Len(waiting) \in Nat
    BY <1>1
  <2>2. left \in SUBSET (1 .. Len(waiting))
    BY <2>1
  <2>3. IsFiniteSet(1 .. Len(waiting))
    BY <2>1, FS_Interval
  <2> HIDE DEF left
  <2> QED
    BY <2>2, <2>3, FS_Subset, FS_CardinalityType
<1>3. \A i \in left : key[i] \in Int
  BY <1>1
<1>4. ASSUME NEW i \in left PROVE Rank(left, key, i) = Cardinality({j \in left : j <= i})
  <2>1. {j \in left : key[j] <= key[i]} = {j \in left : j <= i}
    OBVIOUS
  <2> QED
    BY <2>1 DEF Rank
<1>5. ASSUME NEW n \in 1 .. Cardinality(left)
      PROVE  At(n) \in left /\ Cardinality({j \in left : j <= At(n)}) = n
  <2>1. \A i, j \in left : key[i] = key[j] => i = j
    OBVIOUS
  <2> HIDE DEF key
  <2>2. \E i \in left : Rank(left, key, i) = n
    <3> HIDE DEF left
    <3> QED
      BY <1>2, <1>3, <2>1, RankTaken
  <2>3. \E i \in left : Cardinality({j \in left : j <= i}) = n
    BY <1>4, <2>2
  <2> HIDE DEF left
  <2> QED
    BY <2>3, Zenon
<1>6. \A i \in left : i \in DOMAIN waiting /\ waiting[i] \notin S /\ waiting[i] \in Task
  BY <1>1
<1>7. \A i, j \in left : waiting[i] = waiting[j] => i = j
  BY DEF QueueInv
<1> HIDE DEF left, At
<1>8. DOMAIN w = 1 .. Cardinality(left) /\ \A n \in DOMAIN w : w[n] = waiting[At(n)]
  BY <1>1
<1>9. w \in Seq(Task)
  <2>1. w \in [1 .. Cardinality(left) -> Task]
    BY <1>1, <1>5, <1>6
  <2> QED
    BY <1>2, <2>1
<1>10. \A n \in DOMAIN w : \E i \in DOMAIN waiting : w[n] = waiting[i] /\ w[n] \notin S
  BY <1>5, <1>6, <1>8
<1>11. ASSUME NEW m \in DOMAIN w, NEW n \in DOMAIN w, w[m] = w[n] PROVE m = n
  <2>1. At(m) \in left /\ At(n) \in left /\ waiting[At(m)] = waiting[At(n)]
    BY <1>5, <1>8, <1>11
  <2>2. At(m) = At(n)
    BY <1>7, <2>1
  <2>3. /\ Cardinality({j \in left : j <= At(m)}) = m
        /\ Cardinality({j \in left : j <= At(n)}) = n
    BY <1>5, <1>8
  <2> QED
    BY <2>2, <2>3, Zenon
<1> QED
  BY <1>9, <1>10, <1>11

\* Cancelling withdraws the jobs that wait, and leaves those on threads to
\* nobody: no thread is freed by it, and none is taken.
LEMMA CancelKeepsExecutor ==
  ASSUME LoopsInv, QueueInv, ThreadInv, NEW S \in SUBSET Task, CancelAll(S)
  PROVE  QueueInv' /\ ThreadInv'
<1>1. /\ \A t \in Task : task'[t] = IF t \in S THEN Cancelled(t) ELSE task[t]
      /\ waiting' = Withdrawn(S)
      /\ busy' = busy \ S
      /\ orphans' = orphans + Cardinality(busy \cap S)
  BY DEF CancelAll
<1>2. \A t \in Task : Awaits(t) /\ t \notin S => Awaits(t)'
  BY <1>1 DEF Awaits
<1>3. QueueInv'
  <2>1. ASSUME NEW n \in DOMAIN waiting' PROVE Awaits(waiting[n])' /\ waiting'[n] \notin busy'
    <3>1. PICK i \in DOMAIN waiting : waiting'[n] = waiting[i] /\ waiting'[n] \notin S
      BY <1>1, <2>1, WithdrawnPart
    <3>2. waiting[i] \in Task /\ Awaits(waiting[i]) /\ waiting[i] \notin busy
      BY DEF QueueInv
    <3>3. Awaits(waiting[i]) => task'[waiting[i]].at = "job" /\ ~ task'[waiting[i]].cancelled
      BY <1>1, <3>1, <3>2 DEF Awaits
    <3> QED
      BY <1>1, <3>1, <3>2, <3>3 DEF Awaits
  <2>2. waiting' \in Seq(Task) /\ \A m, n \in DOMAIN waiting' : waiting'[m] = waiting'[n] => m = n
    BY <1>1, WithdrawnPart
  <2> QED
    BY <2>1, <2>2 DEF QueueInv
<1>4. ThreadInv'
  <2>1. IsFiniteSet(busy) /\ Cardinality(busy) \in Nat /\ Cardinality(busy \cap S) \in Nat
    BY BusyCount DEF ThreadInv
  <2>2. Cardinality(busy \ S) = Cardinality(busy) - Cardinality(busy \cap S)
    BY <2>1, FS_Difference
  <2>3. Threads' = Threads
    BY <1>1, <2>1, <2>2 DEF Threads, ThreadInv
  <2>4. busy' \subseteq Task /\ \A t \in busy' : Awaits(t)'
    BY <1>1, <1>2 DEF ThreadInv
  <2>5. orphans' \in Nat
    BY <1>1, <2>1 DEF ThreadInv
  <2> QED
    BY <2>3, <2>4, <2>5 DEF ThreadInv
<1> QED
  BY <1>3, <1>4

\* A task that awaits nothing hands in a job.
LEMMA HandInKeepsExecutor ==
  ASSUME LoopsInv, QueueInv, ThreadInv, NEW t \in Task, NEW n \in Nat, HandIn(t, n),
         task[t].at # "job", ~ task[t].cancelled
  PROVE  QueueInv' /\ ThreadInv'
<1> DEFINE w == [task[t] EXCEPT !.at = "job", !.job = n]
<1>1. /\ task' = [task EXCEPT ![t] = w] /\ waiting' = Append(waiting, t)
      /\ busy' = busy /\ orphans' = orphans
  BY DEF HandIn, Becomes
<1>2. w.at = "job" /\ w.cancelled = task[t].cancelled
  BY DEF LoopsInv, Tasks
<1>3. task \in [Task -> [kind : Kind \cup {None}, job : Nat, cancelled : BOOLEAN,
                         at : {"new", "job", "returned", "failed", "sleep", "ended"}]]
  BY DEF LoopsInv, Tasks
<1> HIDE DEF w
<1>4. task'[t] = w /\ \A u \in Task : u # t => task'[u] = task[u]
  BY <1>1, <1>3
<1>5. \A u \in Task : Awaits(u) => task'[u].at = "job" /\ ~ task'[u].cancelled
  BY <1>4 DEF Awaits
<1>6. t \notin busy /\ \A i \in DOMAIN waiting : waiting[i] # t
  BY DEF ThreadInv, QueueInv, Awaits
<1>7. waiting \in Seq(Task)
  BY DEF QueueInv
<1>8. /\ waiting' \in Seq(Task)
      /\ \A i \in DOMAIN waiting' : (i \in DOMAIN waiting /\ waiting'[i] = waiting[i])
                                    \/ (i = Len(waiting) + 1 /\ waiting'[i] = t)
  BY <1>1, <1>7
<1>9. ASSUME NEW i \in DOMAIN waiting' PROVE Awaits(waiting[i])' /\ waiting'[i] \notin busy'
  <2>1. CASE i \in DOMAIN waiting /\ waiting'[i] = waiting[i]
    <3>1. waiting[i] \in Task /\ Awaits(waiting[i]) /\ waiting[i] \notin busy
      BY <2>1 DEF QueueInv
    <3>2. task'[waiting'[i]].at = "job" /\ ~ task'[waiting'[i]].cancelled
      BY <1>5, <2>1, <3>1
    <3> QED
      BY <1>1, <2>1, <3>1, <3>2 DEF Awaits
  <2>2. CASE waiting'[i] = t
    BY <1>1, <1>2, <1>4, <1>6, <2>2 DEF Awaits
  <2> QED
    BY <1>8, <2>1, <2>2
<1>10. \A i, j \in DOMAIN waiting' : waiting'[i] = waiting'[j] => i = j
  BY <1>6, <1>8 DEF QueueInv
<1>11. ThreadInv'
  BY <1>1, <1>5 DEF ThreadInv, Threads, Awaits
<1> QED
  BY <1>8, <1>9, <1>10, <1>11 DEF QueueInv

LEMMA RunJobKeepsExecutor ==
  ASSUME QueueInv, ThreadInv, RunJob
  PROVE  QueueInv' /\ ThreadInv'
<1>1. /\ waiting \in Seq(Task) /\ waiting # <<>> /\ Threads < Workers
      /\ busy' = busy \cup {Head(waiting)} /\ waiting' = Tail(waiting)
      /\ UNCHANGED <<task, orphans>>
  BY DEF RunJob, QueueInv
<1>2. /\ 1 \in DOMAIN waiting /\ Head(waiting) = waiting[1]
      /\ waiting' \in Seq(Task)
      /\ \A i \in DOMAIN waiting' :
           i + 1 \in DOMAIN waiting /\ i + 1 # 1 /\ waiting'[i] = waiting[i + 1]
  BY <1>1
<1>3. \A t : Awaits(t)' <=> Awaits(t)
  BY <1>1 DEF Awaits
<1>4. QueueInv'
  <2>1. ASSUME NEW i \in DOMAIN waiting' PROVE Awaits(waiting[i])' /\ waiting'[i] \notin busy'
    <3>1. waiting'[i] # waiting[1] /\ waiting'[i] \notin busy /\ Awaits(waiting'[i])
      BY <1>2 DEF QueueInv
    <3>2. waiting'[i] \notin busy'
      BY <1>1, <1>2, <3>1
    <3> QED
      BY <1>1, <3>1, <3>2 DEF Awaits
  <2>2. ASSUME NEW i \in DOMAIN waiting', NEW j \in DOMAIN waiting', waiting'[i] = waiting'[j]
        PROVE  i = j
    <3>1. i + 1 = j + 1
      BY <1>2, <2>2 DEF QueueInv
    <3>2. i \in Int /\ j \in Int
      BY <1>2
    <3> QED
      BY <3>1, <3>2
  <2> QED
    BY <1>2, <2>1, <2>2 DEF QueueInv
<1>5. ThreadInv'
  <2>1. IsFiniteSet(busy) /\ Cardinality(busy) \in Nat
    BY BusyCount DEF ThreadInv
  <2>2. Head(waiting) \in Task /\ Head(waiting) \notin busy /\ Awaits(Head(waiting))
    BY <1>1, <1>2 DEF QueueInv
  <2>3. Cardinality(busy') = Cardinality(busy) + 1
    BY <1>1, <2>1, <2>2, FS_AddElement
  <2>4. Threads' <= Workers
    BY <1>1, <2>1, <2>3, LifecycleAssumption DEF Threads, ThreadInv
  <2>5. busy' \subseteq Task /\ \A t \in busy' : Awaits(t)'
    BY <1>1, <1>3, <2>2 DEF ThreadInv
  <2> QED
    BY <1>1, <2>4, <2>5 DEF ThreadInv
<1> QED
  BY <1>4, <1>5

LEMMA EndJobKeepsExecutor ==
  ASSUME LoopsInv, QueueInv, ThreadInv, NEW t \in Task, EndJob(t)
  PROVE  QueueInv' /\ ThreadInv'
<1>1. t \in busy /\ busy' = busy \ {t} /\ UNCHANGED <<waiting, orphans>>
  BY DEF EndJob
<1>2. \A u \in Task : u # t => task'[u] = task[u]
  BY DEF EndJob, Becomes, LoopsInv, Tasks
<1>3. ASSUME NEW i \in DOMAIN waiting PROVE waiting[i] \in Task /\ waiting[i] # t
  BY <1>1 DEF QueueInv
<1>4. QueueInv'
  BY <1>1, <1>2, <1>3 DEF QueueInv, Awaits
<1>5. ThreadInv'
  <2>1. IsFiniteSet(busy) /\ Cardinality(busy) \in Nat
    BY BusyCount DEF ThreadInv
  <2>2. Cardinality(busy') = Cardinality(busy) - 1
    BY <1>1, <2>1, FS_RemoveElement
  <2>3. Threads' <= Workers
    BY <1>1, <2>1, <2>2, LifecycleAssumption DEF Threads, ThreadInv
  <2> QED
    BY <1>1, <1>2, <2>3 DEF ThreadInv, Awaits
<1> QED
  BY <1>4, <1>5

LEMMA LifeStep == LifeInv /\ [Next]_vars => LifeInv'
<1> SUFFICES ASSUME LifeInv, [Next]_vars PROVE LifeInv'
  OBVIOUS
<1>0. LoopsInv' /\ LoopsInv /\ QueueInv /\ ThreadInv /\ Rest
  BY StepInv DEF LifeInv
<1>1. CASE Start
  <2>1. PICK pick \in [Kind -> {t \in Task : ~ Live(t)}] :
          /\ tasks' = pick
          /\ task' = [t \in Task |-> IF \E k \in Kind : pick[k] = t
                                      THEN Fresh(CHOOSE k \in Kind : pick[k] = t)
                                      ELSE task[t]]
    BY <1>1 DEF Start
  <2>2. running' = TRUE /\ UNCHANGED <<waiting, busy, orphans, server>>
    BY <1>1 DEF Start
  <2>3. ASSUME NEW t \in Task, Awaits(t) PROVE Awaits(t)'
    <3>1. \A k \in Kind : pick[k] # t
      BY <2>1, <2>3 DEF Awaits, Live
    <3> QED
      BY <2>1, <2>3, <3>1 DEF Awaits
  <2>4. Rest'
    BY <1>0, <2>1, <2>2 DEF Rest
  <2> QED
    BY <1>0, <2>2, <2>3, <2>4, ExecutorRests DEF LifeInv
<1>2. CASE Stop \/ Close
  <2>1. CancelAll(Named) /\ Named \in SUBSET Task
    BY <1>2 DEF Stop, Close, Named
  <2>2. Rest'
    <3>1. CASE Stop
      <4>1. tasks' = <<>> /\ DOMAIN tasks' = {} /\ running' = FALSE /\ server' = server
        BY <3>1 DEF Stop
      <4> QED
        BY <1>0, <4>1 DEF Rest
    <3>2. CASE Close
      BY <1>0, <3>2 DEF Rest, Close
    <3> QED
      BY <1>2, <3>1, <3>2
  <2> QED
    BY <1>0, <2>1, <2>2, CancelKeepsExecutor DEF LifeInv
<1>3. CASE Exit
  <2>1. /\ tasks' = <<>> /\ DOMAIN tasks' = {} /\ server' = "down"
        /\ UNCHANGED <<running, task, waiting, busy, orphans>>
    BY <1>3 DEF Exit
  <2>2. \A t \in Task : Awaits(t) => Awaits(t)'
    BY <2>1 DEF Awaits
  <2>3. QueueInv' /\ ThreadInv'
    BY <1>0, <2>1, <2>2, ExecutorRests
  <2> QED
    BY <1>0, <2>1, <2>3 DEF LifeInv, Rest
<1>4. CASE RunJob
  <2>1. Rest'
    BY <1>0, <1>4 DEF Rest, RunJob
  <2> QED
    BY <1>0, <1>4, <2>1, RunJobKeepsExecutor DEF LifeInv
<1>5. CASE EndOrphan
  <2>1. /\ orphans' = orphans - 1 /\ orphans > 0
        /\ UNCHANGED <<running, tasks, task, waiting, busy, server>>
    BY <1>5 DEF EndOrphan
  <2>2. QueueInv'
    BY <1>0, <2>1 DEF QueueInv, Awaits
  <2>3. Cardinality(busy) \in Nat
    BY <1>0, BusyCount DEF ThreadInv
  <2>4. ThreadInv'
    BY <1>0, <2>1, <2>3, LifecycleAssumption DEF ThreadInv, Threads, Awaits
  <2> QED
    BY <1>0, <2>1, <2>2, <2>4 DEF LifeInv, Rest
<1>6. ASSUME NEW t \in Task, Turn(t) PROVE LifeInv'
  <2>1. ASSUME NEW w, Becomes(t, w), UNCHANGED <<running, tasks, waiting, busy, orphans, server>>,
               ~ Awaits(t)
        PROVE  LifeInv'
    <3>1. \A u \in Task : Awaits(u) => Awaits(u)'
      BY <1>0, <2>1 DEF Becomes, Awaits, LoopsInv, Tasks
    <3>2. QueueInv' /\ ThreadInv'
      BY <1>0, <2>1, <3>1, ExecutorRests
    <3> QED
      BY <1>0, <2>1, <3>2 DEF LifeInv, Rest
  <2>2. ASSUME NEW n \in Nat, HandIn(t, n), task[t].at # "job", ~ task[t].cancelled
        PROVE  LifeInv'
    <3>1. Rest'
      BY <1>0, <2>2 DEF Rest, HandIn
    <3> QED
      BY <1>0, <2>2, <3>1, HandInKeepsExecutor DEF LifeInv
  <2>3. CASE GiveUp(t)
    BY <2>1, <2>3 DEF GiveUp, Finish, Awaits
  <2>4. CASE Round(t)
    BY <2>1, <2>2, <2>4 DEF Round, Finish, Awaits
  <2>5. CASE NextJob(t)
    <3>1. task[t].job + 1 \in Nat
      BY <1>0 DEF LoopsInv, Tasks
    <3> QED
      BY <2>1, <2>2, <2>5, <3>1 DEF NextJob, Pause, Awaits
  <2>6. CASE Fail(t)
    BY <2>1, <2>6 DEF Fail, Pause, Awaits
  <2> QED
    BY <1>6, <2>3, <2>4, <2>5, <2>6 DEF Turn
<1>7. ASSUME NEW t \in Task, EndJob(t) PROVE LifeInv'
  <2>1. Rest'
    BY <1>0, <1>7 DEF Rest, EndJob
  <2> QED
    BY <1>0, <1>7, <2>1, EndJobKeepsExecutor DEF LifeInv
<1>8. CASE UNCHANGED vars
  <2>1. UNCHANGED <<running, tasks, task, waiting, busy, orphans, server>>
    BY <1>8 DEF vars
  <2>2. \A t \in Task : Awaits(t) => Awaits(t)'
    BY <2>1 DEF Awaits
  <2>3. QueueInv' /\ ThreadInv'
    BY <1>0, <2>1, <2>2, ExecutorRests
  <2> QED
    BY <1>0, <2>1, <2>3 DEF LifeInv, Rest
<1> QED
  BY <1>1, <1>2, <1>3, <1>4, <1>5, <1>6, <1>7, <1>8 DEF Next

\* However loops are started, stopped and started again while their jobs go
\* on, there are never more jobs on threads than the executor has, and every
\* job on a thread that belongs to a task is the one that task awaits.
THEOREM ThreadsSuffice == Spec => []TypeOK
  BY InitLife, LifeStep, LifeTypes, PTL DEF Spec
=============================================================================

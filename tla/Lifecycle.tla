------------------------------- MODULE Lifecycle -------------------------------
(***************************************************************************)
(* The servers' life: start, stop, shutdown, the two background loops as   *)
(* asyncio tasks, and the threads their jobs run on.  Tasks take turns on  *)
(* the event loop and are interrupted at an await only; a job runs on a    *)
(* thread of the default executor, which nobody can interrupt.             *)
(*                                                                         *)
(* main.py and asi_main.py have the same life but for one thing: the loops *)
(* of both are main.py's and look at main.py's state.is_running, while     *)
(* asi_main.py sets a flag of its own.  What the jobs do is left to Ledger *)
(* and Scan.                                                               *)
(***************************************************************************)
EXTENDS Integers, FiniteSets, Sequences

CONSTANTS
  Kind,     \* the loops: scan_and_bet and settlement
  Jobs,     \* Jobs[k]: the jobs of a round of loop k
  Task,     \* names of tasks; a name is used again when its task has ended
  Workers,  \* threads of the executor
  OwnFlag,  \* whether the loops look at the flag that start and stop set
  None

ASSUME LifecycleAssumption ==
  /\ Jobs \in [Kind -> Nat \ {0}]
  /\ Workers \in Nat \ {0}
  /\ OwnFlag \in BOOLEAN
  /\ IsFiniteSet(Task) /\ IsFiniteSet(Kind)
  /\ None \notin Task \cup Kind

VARIABLES
  running, \* state.is_running
  tasks,   \* state.tasks
  task,    \* task[t]: the coroutine t runs, what it awaits, whether it is cancelled
  waiting, \* jobs handed to the executor, in order
  busy,    \* jobs on a thread; None for one whose task is gone
  orphans, \* how many jobs on threads belong to no task any more
  server   \* "up", "closing" in lifespan's last part, "down"

vars == <<running, tasks, task, waiting, busy, orphans, server>>

\* What a task waits for: its first turn, the executor, the executor's answer
\* having come, the pause.
Ended == [kind |-> None, at |-> "ended", job |-> 0, cancelled |-> FALSE]
Fresh(k) == [Ended EXCEPT !.kind = k, !.at = "new"]
Live(t) == task[t].at # "ended"
Flag == running /\ OwnFlag
Threads == Cardinality(busy) + orphans
-----------------------------------------------------------------------------
(* Requests.                                                                *)

\* start_bot: under a lock, with no await in it.
Start ==
  /\ server = "up"
  /\ ~ running
  /\ running' = TRUE
  /\ \E pick \in [Kind -> {t \in Task : ~ Live(t)}] :
       /\ \A j, k \in Kind : pick[j] = pick[k] => j = k
       /\ tasks' = pick
       /\ task' = [t \in Task |-> IF \E k \in Kind : pick[k] = t
                                   THEN Fresh(CHOOSE k \in Kind : pick[k] = t)
                                   ELSE task[t]]
  /\ UNCHANGED <<waiting, busy, orphans, server>>

Named == {t \in Task : \E k \in DOMAIN tasks : tasks[k] = t} \* the tasks state.tasks holds

\* Task.cancel: a task learns of it at its next turn.
Cancelled(t) == IF Live(t) THEN [task[t] EXCEPT !.cancelled = TRUE] ELSE task[t]

\* A mistake: jobs that were handed in and not begun stay in the queue.
CancelRunning(S) ==
  /\ task' = [t \in Task |-> IF t \in S THEN Cancelled(t) ELSE task[t]]
  /\ busy' = busy \ S
  /\ orphans' = orphans + Cardinality(busy \cap S)
  /\ UNCHANGED waiting

\* The jobs that still wait for a thread, in their order, without those of S.
Withdrawn(S) ==
  LET left == {i \in DOMAIN waiting : waiting[i] \notin S}
  IN  [n \in 1 .. Cardinality(left) |->
         waiting[CHOOSE i \in left : Cardinality({j \in left : j <= i}) = n]]

\* A job that still waits for a thread is withdrawn, one on a thread goes on
\* alone.
CancelAll(S) ==
  /\ task' = [t \in Task |-> IF t \in S THEN Cancelled(t) ELSE task[t]]
  /\ waiting' = Withdrawn(S)
  /\ busy' = busy \ S
  /\ orphans' = orphans + Cardinality(busy \cap S)

\* A mistake: stop only lowers the flag and forgets the tasks.
StopByFlag ==
  /\ server = "up"
  /\ running' = FALSE
  /\ tasks' = <<>>
  /\ UNCHANGED <<task, waiting, busy, orphans, server>>

\* stop_bot, and the first thing reset_bot does.
Stop ==
  /\ server = "up"
  /\ running' = FALSE
  /\ CancelAll(Named)
  /\ tasks' = <<>>
  /\ UNCHANGED server

\* The end of lifespan: the tasks are cancelled and gathered; the flag stays.
Close ==
  /\ server = "up"
  /\ server' = "closing"
  /\ CancelAll(Named)
  /\ UNCHANGED <<running, tasks>>

\* The event loop is closed when the tasks have ended and the executor has
\* come to rest.
Exit ==
  /\ server = "closing"
  /\ \A t \in Named : ~ Live(t)
  /\ Threads = 0
  /\ server' = "down"
  /\ tasks' = <<>>
  /\ UNCHANGED <<running, task, waiting, busy, orphans>>
-----------------------------------------------------------------------------
(* A turn of a task: scan_and_bet_loop, settlement_loop.                    *)

Becomes(t, state) == task' = [task EXCEPT ![t] = state]
HandIn(t, n) ==
  /\ Becomes(t, [task[t] EXCEPT !.at = "job", !.job = n])
  /\ waiting' = Append(waiting, t)
  /\ UNCHANGED <<running, tasks, busy, orphans, server>>
Pause(t) ==
  /\ Becomes(t, [task[t] EXCEPT !.at = "sleep", !.job = 0])
  /\ UNCHANGED <<running, tasks, waiting, busy, orphans, server>>
Finish(t) ==
  /\ Becomes(t, Ended)
  /\ UNCHANGED <<running, tasks, waiting, busy, orphans, server>>

\* A mistake: the handler in the loop takes a cancellation for an error like
\* any other and the loop goes on.
SwallowCancel(t) ==
  /\ task[t].cancelled
  /\ Becomes(t, [task[t] EXCEPT !.at = "sleep", !.job = 0, !.cancelled = FALSE])
  /\ UNCHANGED <<running, tasks, waiting, busy, orphans, server>>

\* CancelledError is no Exception: it passes the handler and ends the loop.
GiveUp(t) ==
  /\ Live(t) /\ task[t].cancelled
  /\ Finish(t)

\* while state.is_running: at the first turn, and after each pause.
Round(t) ==
  /\ task[t].at \in {"new", "sleep"} /\ ~ task[t].cancelled
  /\ IF Flag THEN HandIn(t, 1) ELSE Finish(t)

\* The job has returned: the next one, or the pause.
NextJob(t) ==
  /\ task[t].at = "returned" /\ ~ task[t].cancelled
  /\ IF task[t].job < Jobs[task[t].kind] THEN HandIn(t, task[t].job + 1) ELSE Pause(t)

\* A mistake: there is no handler, and an exception ends the loop.
FailForGood(t) ==
  /\ task[t].at = "failed" /\ ~ task[t].cancelled
  /\ Finish(t)

\* The job has raised: the rest of the round is left out.
Fail(t) ==
  /\ task[t].at = "failed" /\ ~ task[t].cancelled
  /\ Pause(t)

Turn(t) == GiveUp(t) \/ Round(t) \/ NextJob(t) \/ Fail(t)
-----------------------------------------------------------------------------
(* The executor.                                                            *)

RunJob ==
  /\ waiting # <<>> /\ Threads < Workers
  /\ busy' = busy \cup {Head(waiting)}
  /\ waiting' = Tail(waiting)
  /\ UNCHANGED <<running, tasks, task, orphans, server>>

\* The answer wakes the task that awaits it.
EndJob(t) ==
  /\ t \in busy /\ task[t].at = "job"
  /\ busy' = busy \ {t}
  /\ \E how \in {"returned", "failed"} : Becomes(t, [task[t] EXCEPT !.at = how])
  /\ UNCHANGED <<running, tasks, waiting, orphans, server>>

EndOrphan ==
  /\ orphans > 0
  /\ orphans' = orphans - 1
  /\ UNCHANGED <<running, tasks, task, waiting, busy, server>>
-----------------------------------------------------------------------------
Init ==
  /\ running = FALSE
  /\ tasks = <<>>
  /\ task = [t \in Task |-> Ended]
  /\ waiting = <<>>
  /\ busy = {}
  /\ orphans = 0
  /\ server = "up"

Next ==
  \/ Start \/ Stop \/ Close \/ Exit
  \/ RunJob \/ EndOrphan
  \/ \E t \in Task : Turn(t) \/ EndJob(t)

Spec == Init /\ [][Next]_vars

\* The event loop gives every task its turn, the executor runs what it is
\* handed, every job ends (requests and database locks have timeouts), and a
\* shutdown goes on.  Nobody need start or stop anything.
Fairness ==
  /\ WF_vars(RunJob) /\ WF_vars(EndOrphan) /\ WF_vars(Exit)
  /\ \A t \in Task : WF_vars(Turn(t)) /\ WF_vars(EndJob(t))

FairSpec == Spec /\ Fairness
-----------------------------------------------------------------------------
(* Properties.                                                              *)

TypeOK ==
  /\ running \in BOOLEAN
  /\ \A k \in DOMAIN tasks : k \in Kind /\ tasks[k] \in Task
  /\ task \in [Task -> [kind : Kind \cup {None}, job : Nat, cancelled : BOOLEAN,
                        at : {"new", "job", "returned", "failed", "sleep", "ended"}]]
  /\ \A i \in DOMAIN waiting : waiting[i] \in Task
  /\ busy \subseteq Task
  /\ \A t \in busy : task[t].at = "job"
  /\ Threads <= Workers
  /\ server \in {"up", "closing", "down"}

\* However fast stops and starts follow each other, no two loops of a kind
\* will go on: of those not told to end there is at most one, and it is the
\* one a stop would reach.
OneLoopPerKind ==
  \A t \in Task : (Live(t) /\ ~ task[t].cancelled) =>
    t \in Named /\ \A u \in Task : (task[u].kind = task[t].kind /\ ~ task[u].cancelled) => u = t

\* While the bot stays started, each of its loops runs its jobs again and
\* again, whatever jobs fail and however many threads are still held by jobs
\* of loops that were stopped.
LoopsGoOn ==
  \A k \in Kind :
    <>[](running /\ server = "up") => []<>(\E t \in busy : task[t].kind = k)

\* A shutdown comes to its end although nobody lowers the flag.
ShutdownEnds == (server = "closing") ~> (server = "down")
=============================================================================

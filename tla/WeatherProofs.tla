----------------------------- MODULE WeatherProofs -----------------------------
(***************************************************************************)
(* What the weather fetcher keeps, for any number of threads, groups and   *)
(* metrics and any times: the types of its state, the bound on requests    *)
(* the cache should have spared, and, for one thread, that a job leaves no *)
(* market without a forecast while a backup source answers.                *)
(***************************************************************************)
EXTENDS Weather, FiniteSetTheorems, TLAPS

\* A job on its way has a group, a metric and a source.
JobOK(j) ==
  /\ j \in Job
  /\ j.at # "pick" => /\ j.group \in Group /\ j.metric \in Metric /\ j.source \in Source
                      /\ j.attempt \in 1 .. MaxAttempts

Sleeping == {Nobody, Resting}

Types ==
  /\ up \subseteq Source /\ faulty \subseteq Source /\ up \cup faulty = Source
  /\ cache \in [Group \X Source -> Entry \cup {Absent}]
  /\ gap \in [Source -> 0 .. MinInterval]
  /\ job = [t \in Thread |-> job[t]]
  /\ \A t \in Thread : job[t] \in Sleeping \/ JobOK(job[t])
  /\ late \in [Group \X Source -> Nat]
-----------------------------------------------------------------------------
(* What the steps make of a job.                                            *)

\* The fields that a step leaves alone.
SamePair(i, j) == i.group = j.group /\ i.metric = j.metric
SameWork(i, j) == i.todo = j.todo /\ i.stored = j.stored

LEMMA AskJob ==
  ASSUME NEW j \in Job, j.group \in Group, j.metric \in Metric, NEW s \in Source
  PROVE  /\ JobOK(Ask(j, s)) /\ SamePair(Ask(j, s), j) /\ SameWork(Ask(j, s), j)
         /\ Ask(j, s).at = "look" /\ Ask(j, s).source = s
<1>1. Ask(j, s) = [j EXCEPT !.at = "look", !.source = s, !.attempt = 1]
  BY DEF Ask
<1>2. Ask(j, s).at = "look" /\ Ask(j, s).source = s
      /\ SamePair(Ask(j, s), j) /\ SameWork(Ask(j, s), j)
  BY <1>1 DEF Job, SamePair, SameWork
<1>3. 1 \in 0 .. MaxAttempts /\ 1 \in 1 .. MaxAttempts
  BY DEF MaxAttempts
<1>4. Ask(j, s) \in Job /\ Ask(j, s).attempt = 1
  BY <1>1, <1>3 DEF Job
<1> QED
  BY <1>2, <1>3, <1>4 DEF JobOK, SamePair

LEMMA StoreJob ==
  ASSUME NEW j \in Job, j.group \in Group, j.metric \in Metric
  PROVE  /\ Store(j) \in Job /\ SamePair(Store(j), j)
         /\ Store(j).at = j.at /\ Store(j).source = j.source /\ Store(j).todo = j.todo
         /\ Store(j).stored = j.stored \cup {<<j.group, j.metric>>}
  BY DEF Store, Job, SamePair

LEMMA SleepJob ==
  ASSUME NEW j, JobOK(j), NEW n \in Nat
  PROVE  /\ JobOK(Sleep(j, n)) /\ SamePair(Sleep(j, n), j) /\ SameWork(Sleep(j, n), j)
         /\ Sleep(j, n).at = j.at /\ Sleep(j, n).source = j.source
  BY DEF Sleep, Job, JobOK, SamePair, SameWork

LEMMA GotoJob ==
  ASSUME NEW j, JobOK(j), j.at # "pick", NEW step \in {"look", "member", "throttle", "asked"}
  PROVE  /\ JobOK(Goto(j, step)) /\ SamePair(Goto(j, step), j) /\ SameWork(Goto(j, step), j)
         /\ Goto(j, step).at = step /\ Goto(j, step).source = j.source
  BY DEF Goto, Job, JobOK, SamePair, SameWork

LEMMA NextPairJob ==
  ASSUME NEW j \in Job
  PROVE  /\ JobOK(NextPair(j)) /\ NextPair(j).at = "pick"
         /\ NextPair(j).todo = j.todo \ {<<j.group, j.metric>>}
         /\ NextPair(j).stored = j.stored
<1>1. NextPair(j) =
        [j EXCEPT !.at = "pick", !.todo = @ \ {<<j.group, j.metric>>}, !.group = Absent,
                  !.metric = Absent, !.source = Absent, !.attempt = 0]
  BY DEF NextPair
<1>2. NextPair(j).at = "pick" /\ NextPair(j).todo = j.todo \ {<<j.group, j.metric>>}
      /\ NextPair(j).stored = j.stored
  BY <1>1 DEF Job
<1>3. 0 \in 0 .. MaxAttempts
  BY DEF MaxAttempts
<1>4. NextPair(j) \in Job
  BY <1>1, <1>3 DEF Job
<1> QED
  BY <1>2, <1>4 DEF JobOK

\* After a source: the next source, or the next pair.
Passed(i, j) ==
  \/ /\ i.at = "look" /\ j.source = "openmeteo" /\ HasKey /\ i.source = "weatherapi"
     /\ SamePair(i, j) /\ SameWork(i, j)
  \/ /\ i.at = "pick" /\ (j.source = "weatherapi" \/ ~HasKey)
     /\ i.todo = j.todo \ {<<j.group, j.metric>>} /\ i.stored = j.stored

LEMMA AfterSourceJob ==
  ASSUME NEW j \in Job, j.group \in Group, j.metric \in Metric, j.source \in Source
  PROVE  JobOK(AfterSource(j)) /\ Passed(AfterSource(j), j)
<1>1. CASE j.source = "openmeteo" /\ HasKey
  <2>1. AfterSource(j) = Ask(j, "weatherapi") /\ "weatherapi" \in Source
    BY <1>1 DEF AfterSource, Source
  <2> QED
    BY <1>1, <2>1, AskJob DEF Passed
<1>2. CASE ~(j.source = "openmeteo" /\ HasKey)
  <2>1. AfterSource(j) = NextPair(j)
    BY <1>2 DEF AfterSource
  <2>2. j.source = "weatherapi" \/ ~HasKey
    BY <1>2 DEF Source
  <2> QED
    BY <2>1, <2>2, NextPairJob DEF Passed
<1> QED
  BY <1>1, <1>2

\* A retry asks the same source again, or gives it up.
LEMMA RetryJob ==
  ASSUME NEW j, JobOK(j), j.at # "pick"
  PROVE  /\ JobOK(Retry(j))
         /\ \/ /\ Retry(j).at = "look" /\ Retry(j).source = j.source
               /\ SamePair(Retry(j), j) /\ SameWork(Retry(j), j)
            \/ Passed(Retry(j), j)
<1>1. CASE j.attempt < MaxAttempts
  <2> DEFINE n == RetryDelay * 2 ^ (j.attempt - 1)
             i == Goto(Sleep(j, n), "look")
  <2>1. j.attempt \in 1 .. 3
    BY DEF JobOK, Job, MaxAttempts
  <2>2. Retry(j) = [i EXCEPT !.attempt = @ + 1]
    BY <1>1 DEF Retry
  <2> HIDE DEF n
  <2>3. i.attempt + 1 \in 1 .. 3 /\ i.at = "look" /\ i.source = j.source
        /\ SamePair(i, j) /\ SameWork(i, j)
    BY <1>1, <2>1 DEF Goto, Sleep, JobOK, Job, SamePair, SameWork, MaxAttempts
  <2>4. n \in Nat
    <3>1. RetryDelay \in Nat /\ j.attempt \in {1, 2}
      BY <1>1, <2>1, TimeAssumption DEF MaxAttempts
    <3>2. 2 ^ (1 - 1) = 1 /\ 2 ^ (2 - 1) = 2
      OBVIOUS
    <3>3. 2 ^ (j.attempt - 1) \in {1, 2}
      BY <3>1, <3>2
    <3>4. PICK x \in {1, 2} : x = 2 ^ (j.attempt - 1)
      BY <3>3
    <3>5. RetryDelay * x \in Nat
      BY <3>1
    <3> QED
      BY <3>4, <3>5 DEF n
  <2>5. i \in Job
    BY <2>4 DEF Goto, Sleep, JobOK, Job
  <2>6. Retry(j) \in Job /\ Retry(j).attempt \in 1 .. 3
    BY <2>2, <2>3, <2>5 DEF Job, MaxAttempts
  <2>7. /\ Retry(j).at = "look" /\ Retry(j).source = j.source
        /\ SamePair(Retry(j), j) /\ SameWork(Retry(j), j)
    BY <2>2, <2>3, <2>5 DEF Job, SamePair, SameWork
  <2> QED
    BY <2>6, <2>7 DEF JobOK, SamePair, MaxAttempts
<1>2. CASE ~(j.attempt < MaxAttempts)
  BY <1>2, AfterSourceJob DEF Retry, JobOK
<1> QED
  BY <1>1, <1>2
-----------------------------------------------------------------------------
(* What the actions make of a job.                                          *)

LEMMA RunningJob ==
  ASSUME Types, NEW t \in Running
  PROVE  t \in Thread /\ JobOK(job[t])
  BY DEF Types, Running, Sleeping

LEMMA UpdateKeeps ==
  ASSUME Types, NEW t \in Thread, NEW j, Update(t, j), j \in Sleeping \/ JobOK(j)
  PROVE  /\ job'[t] = j /\ \A u \in Thread : u # t => job'[u] = job[u]
         /\ job' = [u \in Thread |-> job'[u]]
         /\ \A u \in Thread : job'[u] \in Sleeping \/ JobOK(job'[u])
  BY DEF Types, Update

LEMMA StartedJob == JobOK(Started) /\ Started.at = "pick" /\ Started.todo = Group \X Metric
<1>1. 0 \in 0 .. MaxAttempts
  BY DEF MaxAttempts
<1> QED
  BY <1>1 DEF Started, JobOK, Job

\* The ensemble serves the pair, or the first backup source is asked.
Asked(i, j, p) ==
  \/ i.at = "pick" /\ i.todo = j.todo \ {p} /\ i.stored = j.stored \cup {p}
  \/ i.at = "look" /\ i.source = "openmeteo" /\ i.todo = j.todo /\ j.stored \subseteq i.stored

LEMMA AskEnsembleJob ==
  ASSUME Types, NEW t \in Thread, AskEnsemble(t)
  PROVE  \E i : Update(t, i) /\ JobOK(i) /\ \E p \in job[t].todo : Asked(i, job[t], p)
<1> DEFINE b == job[t]
<1>1. b.at = "pick" /\ JobOK(b)
  BY RunningJob DEF AskEnsemble, At
<1>2. PICK p \in b.todo :
       \E says \in IF b.own[p[1]] THEN Verdict ELSE Says("ensemble") :
         LET more == \E q \in b.todo \ {p} : q[1] = p[1]
             j == [b EXCEPT !.group = p[1], !.metric = p[2],
                     !.own[p[1]] = says \in Verdict /\ more]
         IN  Update(t, CASE says = "data"    -> NextPair(Store(j))
                         [] says = "few"     -> Ask(Store(j), "openmeteo")
                         [] says = "limited" -> Sleep(Ask(j, "openmeteo"), Backoff)
                         [] OTHER            -> Ask(j, "openmeteo"))
  BY DEF AskEnsemble
<1>3. PICK says \in IF b.own[p[1]] THEN Verdict ELSE Says("ensemble") :
         LET more == \E q \in b.todo \ {p} : q[1] = p[1]
             j == [b EXCEPT !.group = p[1], !.metric = p[2],
                     !.own[p[1]] = says \in Verdict /\ more]
         IN  Update(t, CASE says = "data"    -> NextPair(Store(j))
                         [] says = "few"     -> Ask(Store(j), "openmeteo")
                         [] says = "limited" -> Sleep(Ask(j, "openmeteo"), Backoff)
                         [] OTHER            -> Ask(j, "openmeteo"))
  BY <1>2
<1>4. p[1] \in Group /\ p[2] \in Metric /\ p = <<p[1], p[2]>>
  BY <1>1 DEF JobOK, Job
<1> DEFINE kept == says \in Verdict /\ \E q \in b.todo \ {p} : q[1] = p[1]
           j == [b EXCEPT !.group = p[1], !.metric = p[2], !.own[p[1]] = kept]
           i == CASE says = "data"    -> NextPair(Store(j))
                  [] says = "few"     -> Ask(Store(j), "openmeteo")
                  [] says = "limited" -> Sleep(Ask(j, "openmeteo"), Backoff)
                  [] OTHER            -> Ask(j, "openmeteo")
<1>6. Update(t, i)
  BY <1>3
<1>7. kept \in BOOLEAN
  OBVIOUS
<1> HIDE DEF kept
<1>8. j \in Job /\ j.group = p[1] /\ j.metric = p[2] /\ j.at = "pick"
      /\ j.todo = b.todo /\ j.stored = b.stored
  BY <1>1, <1>4, <1>7 DEF JobOK, Job
<1> HIDE DEF j
<1>9. "openmeteo" \in Source
  BY DEF Source
<1>10. CASE says = "data"
  <2>1. i = NextPair(Store(j))
    BY <1>10
  <2>2. Store(j) \in Job /\ Store(j).group = p[1] /\ Store(j).metric = p[2]
        /\ Store(j).todo = b.todo /\ Store(j).stored = b.stored \cup {p}
    BY <1>4, <1>8, StoreJob DEF SamePair
  <2>3. JobOK(i) /\ i.at = "pick" /\ i.todo = b.todo \ {p} /\ i.stored = b.stored \cup {p}
    BY <1>4, <2>1, <2>2, NextPairJob
  <2> QED
    BY <1>6, <2>3 DEF Asked
<1>11. CASE says = "few"
  <2>1. i = Ask(Store(j), "openmeteo")
    BY <1>11
  <2>2. Store(j) \in Job /\ Store(j).group = p[1] /\ Store(j).metric = p[2]
        /\ Store(j).todo = b.todo /\ Store(j).stored = b.stored \cup {p}
    BY <1>4, <1>8, StoreJob DEF SamePair
  <2>3. JobOK(i) /\ i.at = "look" /\ i.source = "openmeteo"
        /\ i.todo = b.todo /\ i.stored = b.stored \cup {p}
    BY <1>4, <1>9, <2>1, <2>2, AskJob DEF SameWork
  <2> QED
    BY <1>6, <2>3 DEF Asked
<1>12. CASE says \notin {"data", "few"}
  <2>1. JobOK(Ask(j, "openmeteo")) /\ Ask(j, "openmeteo").at = "look"
        /\ Ask(j, "openmeteo").source = "openmeteo"
        /\ Ask(j, "openmeteo").todo = b.todo /\ Ask(j, "openmeteo").stored = b.stored
    BY <1>4, <1>8, <1>9, AskJob DEF SameWork
  <2>2. Backoff \in Nat
    BY TimeAssumption
  <2>3. JobOK(i) /\ i.at = "look" /\ i.source = "openmeteo"
        /\ i.todo = b.todo /\ i.stored = b.stored
    <3>1. i = Sleep(Ask(j, "openmeteo"), Backoff) \/ i = Ask(j, "openmeteo")
      BY <1>12
    <3> HIDE DEF i
    <3> QED
      BY <2>1, <2>2, <3>1, SleepJob DEF SameWork
  <2> QED
    BY <1>6, <2>3 DEF Asked
<1> QED
  BY <1>10, <1>11, <1>12

\* A hit serves the pair; anything else goes on to the second look.
LEMMA LookUpJob ==
  ASSUME Types, NEW t \in Thread, LookUp(t)
  PROVE  \E i : /\ Update(t, i) /\ JobOK(i)
                /\ LET e == cache[Key(t)]
                       gone == e # Absent /\ Expired(e)
                       hit == e # Absent /\ ~gone /\ e.good
                   IN  \/ hit /\ Passed(i, Store(job[t]))
                       \/ /\ ~hit /\ i.at = "member" /\ i.source = job[t].source
                          /\ SamePair(i, job[t]) /\ SameWork(i, job[t])
<1> DEFINE b == job[t]
           e == cache[Key(t)]
           gone == e # Absent /\ Expired(e)
           hit == e # Absent /\ ~gone /\ e.good
           i == IF hit THEN AfterSource(Store(b)) ELSE Goto(b, "member")
<1>1. b.at = "look" /\ JobOK(b)
  BY RunningJob DEF LookUp, At
<1>2. Update(t, i)
  BY DEF LookUp
<1> HIDE DEF hit
<1>3. CASE hit
  <2>1. /\ Store(b) \in Job /\ Store(b).group \in Group /\ Store(b).metric \in Metric
        /\ Store(b).source \in Source
    BY <1>1, StoreJob DEF JobOK, SamePair
  <2>2. JobOK(AfterSource(Store(b))) /\ Passed(AfterSource(Store(b)), Store(b))
    BY <2>1, AfterSourceJob
  <2> QED
    BY <1>2, <1>3, <2>2 DEF hit
<1>4. CASE ~hit
  BY <1>1, <1>2, <1>4, GotoJob DEF hit
<1> QED
  BY <1>3, <1>4

LEMMA MemberJob ==
  ASSUME Types, NEW t \in Thread, Member(t)
  PROVE  \E i : /\ Update(t, i) /\ JobOK(i)
                /\ \/ cache[Key(t)] # Absent /\ Passed(i, job[t])
                   \/ /\ cache[Key(t)] = Absent /\ i.at = "throttle" /\ i.source = job[t].source
                      /\ SamePair(i, job[t]) /\ SameWork(i, job[t])
<1> DEFINE b == job[t]
<1>1. b.at = "member" /\ JobOK(b)
  BY RunningJob DEF Member, At
<1>2. CASE cache[Key(t)] # Absent
  <2>1. JobOK(AfterSource(b)) /\ Passed(AfterSource(b), b)
    BY <1>1, AfterSourceJob DEF JobOK
  <2> QED
    BY <1>2, <2>1 DEF Member
<1>3. CASE cache[Key(t)] = Absent
  BY <1>1, <1>3, GotoJob DEF Member
<1> QED
  BY <1>2, <1>3

LEMMA ThrottleJob ==
  ASSUME Types, NEW t \in Thread, Throttle(t)
  PROVE  \E i : /\ Update(t, i) /\ JobOK(i)
                /\ i.at = "asked" /\ i.source = job[t].source
                /\ SamePair(i, job[t]) /\ SameWork(i, job[t])
<1>1. job[t].at = "throttle" /\ JobOK(job[t])
  BY RunningJob DEF Throttle, At
<1> QED
  BY <1>1, GotoJob DEF Throttle

\* Data serves the pair; otherwise the source is given up, or asked again.
LEMMA AnswerJob ==
  ASSUME Types, NEW t \in Thread, Answer(t)
  PROVE  \E says \in Answers(job[t].source) : \E i :
           /\ Update(t, i) /\ JobOK(i)
           /\ cache' = IF Remembered(job[t].source, says)
                         THEN [cache EXCEPT ![Key(t)] = Fresh(says = "data")] ELSE cache
           /\ \/ says = "data" /\ Passed(i, Store(job[t]))
              \/ /\ says # "data"
                 /\ \/ /\ i.at = "look" /\ i.source = job[t].source
                       /\ SamePair(i, job[t]) /\ SameWork(i, job[t])
                    \/ Passed(i, job[t])
<1> DEFINE b == job[t]
           s == job[t].source
<1>1. b.at = "asked" /\ JobOK(b) /\ b.source \in Source
  BY RunningJob DEF Answer, At, JobOK
<1>2. PICK says \in Answers(s) :
        /\ cache' = IF Remembered(s, says)
                      THEN [cache EXCEPT ![Key(t)] = Fresh(says = "data")] ELSE cache
        /\ Update(t, CASE says = "data"    -> AfterSource(Store(b))
                       [] Raised(s, says)  -> Retry(b)
                       [] says = "limited" /\ s = "openmeteo" -> Sleep(AfterSource(b), Backoff)
                       [] says = "empty"   -> AfterSource(b))
  BY DEF Answer
<1>3. says \in {"data", "empty", "limited", "error", "broken"}
  BY <1>1, <1>2 DEF Answers, Says, Source
<1> DEFINE i == CASE says = "data"    -> AfterSource(Store(b))
                  [] Raised(s, says)  -> Retry(b)
                  [] says = "limited" /\ s = "openmeteo" -> Sleep(AfterSource(b), Backoff)
                  [] says = "empty"   -> AfterSource(b)
<1>4. JobOK(AfterSource(b)) /\ Passed(AfterSource(b), b)
  BY <1>1, AfterSourceJob DEF JobOK
<1>5. CASE says = "data"
  <2>1. i = AfterSource(Store(b))
    BY <1>5 DEF Raised
  <2>2. /\ Store(b) \in Job /\ Store(b).group \in Group /\ Store(b).metric \in Metric
        /\ Store(b).source \in Source
    BY <1>1, StoreJob DEF JobOK, SamePair
  <2>3. JobOK(i) /\ Passed(i, Store(b))
    BY <2>1, <2>2, AfterSourceJob
  <2> QED
    BY <1>2, <1>5, <2>3
<1>6. CASE Raised(s, says)
  <2>1. i = Retry(b) /\ says # "data"
    BY <1>6 DEF Raised
  <2>2. /\ JobOK(i)
        /\ \/ i.at = "look" /\ i.source = s /\ SamePair(i, b) /\ SameWork(i, b)
           \/ Passed(i, b)
    BY <1>1, <2>1, RetryJob
  <2> QED
    BY <1>2, <2>1, <2>2
<1>7. CASE says = "limited" /\ s = "openmeteo"
  <2>1. i = Sleep(AfterSource(b), Backoff)
    BY <1>7 DEF Raised
  <2>2. Backoff \in Nat
    BY TimeAssumption
  <2>3. JobOK(i) /\ i.at = AfterSource(b).at /\ i.source = AfterSource(b).source
        /\ SamePair(i, AfterSource(b)) /\ SameWork(i, AfterSource(b))
    BY <1>4, <2>1, <2>2, SleepJob
  <2>4. Passed(i, b)
    BY <1>4, <2>3 DEF Passed, SamePair, SameWork
  <2> QED
    BY <1>2, <1>7, <2>3, <2>4
<1>8. CASE says = "empty"
  <2>1. i = AfterSource(b)
    BY <1>8 DEF Raised
  <2> QED
    BY <1>2, <1>4, <1>8, <2>1
<1>9. says = "data" \/ Raised(s, says) \/ (says = "limited" /\ s = "openmeteo") \/ says = "empty"
  BY <1>1, <1>3 DEF Raised, Source
<1> QED
  BY <1>5, <1>6, <1>7, <1>8, <1>9
-----------------------------------------------------------------------------
(* Types.                                                                   *)

LEMMA TypesGive == Types => TypeOK
<1> SUFFICES ASSUME Types PROVE TypeOK
  OBVIOUS
<1>1. job \in [Thread -> Job \cup {Nobody, Resting}]
  <2>1. \A t \in Thread : job[t] \in Job \cup {Nobody, Resting}
    BY DEF Types, Sleeping, JobOK
  <2> QED
    BY <2>1 DEF Types
<1> QED
  BY <1>1 DEF Types, TypeOK

LEMMA TypesInit == Init => Types
<1> SUFFICES ASSUME Init PROVE Types
  OBVIOUS
<1>1. gap \in [Source -> 0 .. MinInterval]
  BY TimeAssumption DEF Init
<1>2. cache \in [Group \X Source -> Entry \cup {Absent}] /\ late \in [Group \X Source -> Nat]
  BY DEF Init
<1>3. job = [t \in Thread |-> job[t]] /\ \A t \in Thread : job[t] \in Sleeping
  BY DEF Init, Sleeping
<1> QED
  BY <1>1, <1>2, <1>3 DEF Init, Types

\* What a step of thread t that makes j of its job leaves to show.
LEMMA TypesOfStep ==
  ASSUME Types, NEW t \in Thread, NEW j, Update(t, j), j \in Sleeping \/ JobOK(j),
         UNCHANGED <<up, faulty>>,
         cache' \in [Group \X Source -> Entry \cup {Absent}],
         gap' \in [Source -> 0 .. MinInterval],
         late' \in [Group \X Source -> Nat]
  PROVE  Types'
<1>1. /\ job' = [u \in Thread |-> job'[u]]
      /\ \A u \in Thread : job'[u] \in Sleeping \/ JobOK(job'[u])
  BY UpdateKeeps
<1> QED
  BY <1>1 DEF Types

\* The key of a job that has a source.
LEMMA KeyType ==
  ASSUME Types, NEW t \in Running, job[t].at # "pick"
  PROVE  Key(t) \in Group \X Source
  BY RunningJob DEF JobOK, Key

LEMMA OlderEntry ==
  ASSUME NEW e \in Entry \cup {Absent}
  PROVE  Older(e) \in Entry \cup {Absent} /\ (Older(e) = Absent <=> e = Absent)
         /\ (e # Absent => Older(e).good = e.good)
<1>1. CASE e = Absent \/ e.age > SuccessTTL
  BY <1>1 DEF Older
<1>2. CASE ~(e = Absent \/ e.age > SuccessTTL)
  <2>1. Older(e) = [e EXCEPT !.age = @ + 1] /\ e \in Entry
    BY <1>2 DEF Older
  <2>2. Older(e) \in Entry /\ Older(e).good = e.good
    BY <2>1 DEF Entry
  <2> QED
    BY <1>2, <2>2, WeatherSetAssumption
<1> QED
  BY <1>1, <1>2

\* Waiting makes less of the waits.
LEMMA TickJobs ==
  ASSUME Types, Tick
  PROVE  \A t \in Thread :
           \/ job'[t] = Nobody
           \/ /\ t \in Running /\ JobOK(job'[t])
              /\ job'[t].at = job[t].at /\ job'[t].source = job[t].source
              /\ SamePair(job'[t], job[t]) /\ SameWork(job'[t], job[t])
<1> SUFFICES ASSUME NEW t \in Thread
             PROVE  \/ job'[t] = Nobody
                    \/ /\ t \in Running /\ JobOK(job'[t])
                       /\ job'[t].at = job[t].at /\ job'[t].source = job[t].source
                       /\ SamePair(job'[t], job[t]) /\ SameWork(job'[t], job[t])
  OBVIOUS
<1>1. job'[t] = IF t \notin Running THEN Nobody
                ELSE IF job[t].wait > 0 THEN [job[t] EXCEPT !.wait = @ - 1] ELSE job[t]
  BY DEF Tick
<1>2. CASE t \notin Running
  BY <1>1, <1>2
<1>3. CASE t \in Running
  <2>1. JobOK(job[t])
    BY <1>3, RunningJob
  <2>2. CASE job[t].wait > 0
    <3> DEFINE b == job[t]
               i == [b EXCEPT !.wait = @ - 1]
    <3>1. job'[t] = i
      BY <1>1, <1>3, <2>2
    <3>2. b \in Job /\ b.wait \in Nat /\ b.wait > 0
      BY <2>1, <2>2 DEF JobOK, Job
    <3>3. b.wait - 1 \in Nat
      BY <3>2
    <3> HIDE DEF b
    <3>4. i \in Job /\ i.at = b.at /\ i.source = b.source /\ i.attempt = b.attempt
          /\ SamePair(i, b) /\ SameWork(i, b)
      BY <3>2, <3>3 DEF Job, SamePair, SameWork
    <3>5. JobOK(i)
      BY <2>1, <3>4 DEF JobOK, SamePair, b
    <3> QED
      BY <1>3, <3>1, <3>4, <3>5 DEF b
  <2>3. CASE ~(job[t].wait > 0)
    BY <1>1, <1>3, <2>1, <2>3 DEF SamePair, SameWork
  <2> QED
    BY <2>2, <2>3
<1> QED
  BY <1>2, <1>3

LEMMA TypesStep == Types /\ [Next]_vars => Types'
<1> SUFFICES ASSUME Types, [Next]_vars PROVE Types'
  OBVIOUS
<1>0. /\ cache \in [Group \X Source -> Entry \cup {Absent}]
      /\ gap \in [Source -> 0 .. MinInterval]
      /\ late \in [Group \X Source -> Nat]
  BY DEF Types
<1>1. ASSUME NEW t \in Thread, Start(t) PROVE Types'
  <2>1. Update(t, Started) /\ UNCHANGED <<up, faulty, cache, gap, late>>
    BY <1>1 DEF Start
  <2> QED
    BY <1>0, <2>1, StartedJob, TypesOfStep
<1>2. ASSUME NEW t \in Thread, AskEnsemble(t) PROVE Types'
  <2>1. PICK j : Update(t, j) /\ JobOK(j)
    BY <1>2, AskEnsembleJob
  <2>2. UNCHANGED <<up, faulty, cache, gap, late>>
    BY <1>2 DEF AskEnsemble
  <2> QED
    BY <1>0, <2>1, <2>2, TypesOfStep
<1>3. ASSUME NEW t \in Thread, LookUp(t) PROVE Types'
  <2>1. PICK j : Update(t, j) /\ JobOK(j)
    BY <1>3, LookUpJob
  <2>2. UNCHANGED <<up, faulty, gap>>
    BY <1>3 DEF LookUp
  <2>3. cache' \in [Group \X Source -> Entry \cup {Absent}] /\ late' \in [Group \X Source -> Nat]
    BY <1>0, <1>3 DEF LookUp
  <2> QED
    BY <1>0, <2>1, <2>2, <2>3, TypesOfStep
<1>4. ASSUME NEW t \in Thread, Member(t) PROVE Types'
  <2>1. PICK j : Update(t, j) /\ JobOK(j)
    BY <1>4, MemberJob
  <2>2. UNCHANGED <<up, faulty, cache, gap, late>>
    BY <1>4 DEF Member
  <2> QED
    BY <1>0, <2>1, <2>2, TypesOfStep
<1>5. ASSUME NEW t \in Thread, Throttle(t) PROVE Types'
  <2>1. PICK j : Update(t, j) /\ JobOK(j)
    BY <1>5, ThrottleJob
  <2>2. UNCHANGED <<up, faulty, cache>>
    BY <1>5 DEF Throttle
  <2>3. gap' \in [Source -> 0 .. MinInterval]
    <3>1. MinInterval \in 0 .. MinInterval
      BY TimeAssumption
    <3> QED
      BY <1>0, <1>5, <3>1 DEF Throttle
  <2>4. late' \in [Group \X Source -> Nat]
    <3> DEFINE one == cache[Key(t)] # Absent
    <3>1. late' = [late EXCEPT ![Key(t)] =
                     IF cache[Key(t)] # Absent /\ @ < Cardinality(Thread) THEN @ + 1 ELSE @]
      BY <1>5 DEF Throttle
    <3>2. \A k \in Group \X Source : late[k] \in Nat /\ late[k] + 1 \in Nat
      BY <1>0
    <3> QED
      BY <1>0, <3>1, <3>2
  <2> QED
    BY <1>0, <2>1, <2>2, <2>3, <2>4, TypesOfStep
<1>6. ASSUME NEW t \in Thread, Answer(t) PROVE Types'
  <2>1. PICK says, j : Update(t, j) /\ JobOK(j)
                       /\ cache' = IF Remembered(job[t].source, says)
                                     THEN [cache EXCEPT ![Key(t)] = Fresh(says = "data")]
                                     ELSE cache
    BY <1>6, AnswerJob
  <2>2. UNCHANGED <<up, faulty, gap, late>>
    BY <1>6 DEF Answer
  <2>3. Fresh(says = "data") \in Entry
    BY DEF Fresh, Entry
  <2>4. cache' \in [Group \X Source -> Entry \cup {Absent}]
    BY <1>0, <2>1, <2>3
  <2> QED
    BY <1>0, <2>1, <2>2, <2>4, TypesOfStep
<1>7. ASSUME NEW t \in Thread, Finish(t) PROVE Types'
  <2>1. Update(t, Resting) /\ UNCHANGED <<up, faulty, cache, gap, late>>
    BY <1>7 DEF Finish, Update
  <2>2. Resting \in Sleeping
    BY DEF Sleeping
  <2> QED
    BY <1>0, <2>1, <2>2, TypesOfStep
<1>8. ASSUME NEW s \in Source, GoDown(s) \/ ComeUp(s) PROVE Types'
  BY <1>8 DEF GoDown, ComeUp, Types
<1>9. ASSUME Tick PROVE Types'
  <2>1. gap' \in [Source -> 0 .. MinInterval]
    <3>1. \A s \in Source : (IF gap[s] > 0 THEN gap[s] - 1 ELSE 0) \in 0 .. MinInterval
      BY <1>0, TimeAssumption
    <3> QED
      BY <1>9, <3>1 DEF Tick
  <2>2. cache' \in [Group \X Source -> Entry \cup {Absent}]
    <3>1. \A k \in Group \X Source : Older(cache[k]) \in Entry \cup {Absent}
      BY <1>0, OlderEntry
    <3> QED
      BY <1>9, <3>1 DEF Tick
  <2>3. \A t \in Thread : job'[t] \in Sleeping \/ JobOK(job'[t])
    BY <1>9, TickJobs DEF Sleeping
  <2>4. job' = [t \in Thread |-> job'[t]] /\ UNCHANGED <<up, faulty, late>>
    BY <1>9 DEF Tick
  <2> QED
    BY <2>1, <2>2, <2>3, <2>4 DEF Types
<1>10. CASE UNCHANGED vars
  BY <1>10 DEF vars, Types
<1> QED
  BY <1>1, <1>2, <1>3, <1>4, <1>5, <1>6, <1>7, <1>8, <1>9, <1>10 DEF Next, Step

\* Whatever the services answer and however the threads interleave, jobs,
\* caches and throttles are what the code takes them for.
THEOREM WeatherTypesHold == Spec => []TypeOK
  BY TypesInit, TypesStep, TypesGive, PTL DEF Spec
-----------------------------------------------------------------------------
(* Requests the cache should have spared.                                   *)

\* The threads that have found nothing in the cache under k and are about to
\* send a request.
Bound(jobs, k) ==
  {t \in Thread : /\ jobs[t] \notin Sleeping /\ jobs[t].at = "throttle"
                  /\ <<jobs[t].group, jobs[t].source>> = k}

\* The requests sent since the entry was made and those that will yet be sent
\* are fewer than the threads: the thread that made the entry sends none.
Spared(k) ==
  IF cache[k] = Absent THEN late[k] = 0
                       ELSE late[k] + Cardinality(Bound(job, k)) < Cardinality(Thread)
StormInv == \A k \in Group \X Source : Spared(k)

LEMMA BoundCount ==
  ASSUME NEW jobs, NEW k
  PROVE  /\ IsFiniteSet(Bound(jobs, k)) /\ Cardinality(Bound(jobs, k)) \in Nat
         /\ Cardinality(Thread) \in Nat
  BY WeatherSetAssumption, FS_Subset, FS_CardinalityType DEF Bound

\* With nobody more about to send a request, and nothing changed under k in
\* the cache but perhaps the age, k is as well off as before.
LEMMA SparedStays ==
  ASSUME Types, NEW k \in Group \X Source, Spared(k), Bound(job', k) \subseteq Bound(job, k),
         late'[k] = late[k], cache'[k] = Absent <=> cache[k] = Absent
  PROVE  Spared(k)'
<1> DEFINE a == Cardinality(Bound(job, k))
           b == Cardinality(Bound(job', k))
           n == Cardinality(Thread)
<1>1. a \in Nat /\ b \in Nat /\ n \in Nat
  BY BoundCount
<1>2. b <= a
  BY BoundCount, FS_Subset
<1>3. late[k] \in Nat
  BY DEF Types
<1>4. CASE cache[k] = Absent
  BY <1>4 DEF Spared
<1>5. CASE cache[k] # Absent
  <2>1. late[k] + a < n
    BY <1>5 DEF Spared
  <2> HIDE DEF a, b, n
  <2>2. late'[k] + b < n
    BY <1>1, <1>2, <1>3, <2>1
  <2> QED
    BY <1>5, <2>2 DEF Spared, b, n
<1> QED
  BY <1>4, <1>5

\* A thread whose job is at another place now is not about to send.
LEMMA BoundWithout ==
  ASSUME Types, NEW t \in Thread, NEW j, Update(t, j), j \in Sleeping \/ j.at # "throttle", NEW k
  PROVE  Bound(job', k) \subseteq Bound(job, k) /\ t \notin Bound(job', k)
<1>1. job'[t] = j /\ \A u \in Thread : u # t => job'[u] = job[u]
  BY DEF Types, Update
<1> QED
  BY <1>1 DEF Bound

LEMMA StormInit == Init => StormInv
  BY DEF Init, StormInv, Spared

LEMMA StormStep == Types /\ StormInv /\ [Next]_vars => StormInv'
<1> SUFFICES ASSUME Types, StormInv, [Next]_vars, NEW k \in Group \X Source PROVE Spared(k)'
  BY DEF StormInv
<1>0. Spared(k) /\ cache \in [Group \X Source -> Entry \cup {Absent}]
      /\ late \in [Group \X Source -> Nat]
  BY DEF StormInv, Types
\* A step that moves a job, but not to the throttle, and leaves the cache alone.
<1>m. ASSUME NEW t \in Thread, NEW j, Update(t, j), j \in Sleeping \/ j.at # "throttle",
             UNCHANGED <<cache, late>>
      PROVE  Spared(k)'
  BY <1>0, <1>m, BoundWithout, SparedStays
<1>1. ASSUME NEW t \in Thread, Start(t) PROVE Spared(k)'
  BY <1>1, <1>m, StartedJob DEF Start
<1>2. ASSUME NEW t \in Thread, AskEnsemble(t) PROVE Spared(k)'
  <2>1. PICK j : Update(t, j) /\ j.at # "throttle"
    BY <1>2, AskEnsembleJob DEF Asked
  <2> QED
    BY <1>2, <1>m, <2>1 DEF AskEnsemble
<1>3. ASSUME NEW t \in Thread, LookUp(t) PROVE Spared(k)'
  <2>1. PICK j : Update(t, j) /\ j.at # "throttle"
    BY <1>3, LookUpJob DEF Passed
  <2> DEFINE gone == cache[Key(t)] # Absent /\ Expired(cache[Key(t)])
  <2>2. /\ cache' = [cache EXCEPT ![Key(t)] = IF gone THEN Absent ELSE cache[Key(t)]]
        /\ late' = [late EXCEPT ![Key(t)] = IF gone THEN 0 ELSE @]
    BY <1>3 DEF LookUp
  <2> HIDE DEF gone
  <2>3. CASE k = Key(t) /\ gone
    BY <1>0, <2>2, <2>3 DEF Spared
  <2>4. CASE ~(k = Key(t) /\ gone)
    <3>1. late'[k] = late[k] /\ cache'[k] = cache[k]
      BY <1>0, <2>2, <2>4
    <3> QED
      BY <1>0, <2>1, <3>1, BoundWithout, SparedStays
  <2> QED
    BY <2>3, <2>4
<1>4. ASSUME NEW t \in Thread, Member(t) PROVE Spared(k)'
  <2>1. PICK j : /\ Update(t, j)
                 /\ \/ cache[Key(t)] # Absent /\ Passed(j, job[t])
                    \/ /\ cache[Key(t)] = Absent /\ j.at = "throttle"
                       /\ j.source = job[t].source /\ SamePair(j, job[t])
    BY <1>4, MemberJob
  <2>2. UNCHANGED <<cache, late>>
    BY <1>4 DEF Member
  <2>3. CASE j.at # "throttle"
    BY <1>m, <2>1, <2>2, <2>3
  <2>4. CASE j.at = "throttle"
    <3>1. cache[Key(t)] = Absent /\ <<j.group, j.source>> = Key(t)
      BY <2>1, <2>4 DEF Passed, SamePair, Key
    <3>2. CASE k = Key(t)
      BY <1>0, <2>2, <3>1, <3>2 DEF Spared
    <3>3. CASE k # Key(t)
      <4>1. job'[t] = j /\ \A u \in Thread : u # t => job'[u] = job[u]
        BY <2>1 DEF Types, Update
      <4>2. Bound(job', k) \subseteq Bound(job, k)
        BY <3>1, <3>3, <4>1 DEF Bound
      <4> QED
        BY <1>0, <2>2, <4>2, SparedStays
    <3> QED
      BY <3>2, <3>3
  <2> QED
    BY <2>3, <2>4
<1>5. ASSUME NEW t \in Thread, Throttle(t) PROVE Spared(k)'
  <2>1. PICK j : Update(t, j) /\ j.at = "asked"
    BY <1>5, ThrottleJob
  <2>2. cache' = cache
        /\ late' = [late EXCEPT ![Key(t)] =
                      IF cache[Key(t)] # Absent /\ @ < Cardinality(Thread) THEN @ + 1 ELSE @]
    BY <1>5 DEF Throttle
  <2>3. Bound(job', k) \subseteq Bound(job, k) /\ t \notin Bound(job', k)
    BY <2>1, BoundWithout
  <2>4. CASE k # Key(t) \/ cache[k] = Absent
    <3>1. late'[k] = late[k]
      BY <1>0, <2>2, <2>4
    <3> QED
      BY <1>0, <2>2, <2>3, <3>1, SparedStays
  <2>5. CASE k = Key(t) /\ cache[k] # Absent
    <3> DEFINE a == Cardinality(Bound(job, k))
               b == Cardinality(Bound(job', k))
               n == Cardinality(Thread)
    <3>1. t \in Bound(job, k)
      BY <1>5, <2>5 DEF Throttle, At, Running, Bound, Key, Sleeping
    <3>2. Bound(job', k) \subseteq Bound(job, k) \ {t}
      BY <2>3
    <3>3. b <= a - 1
      <4>1. IsFiniteSet(Bound(job, k) \ {t}) /\ Cardinality(Bound(job, k) \ {t}) = a - 1
        BY <3>1, BoundCount, FS_RemoveElement
      <4> QED
        BY <3>2, <4>1, FS_Subset
    <3>4. a \in Nat /\ b \in Nat /\ n \in Nat
      BY BoundCount
    <3>5. late[k] \in Nat /\ late'[k] \in {late[k], late[k] + 1}
      BY <1>0, <2>2, <2>5
    <3>6. late[k] + a < n
      BY <1>0, <2>5 DEF Spared
    <3> HIDE DEF a, b, n
    <3>7. late'[k] + b < n
      BY <3>3, <3>4, <3>5, <3>6
    <3> QED
      BY <2>2, <2>5, <3>7 DEF Spared, b, n
  <2> QED
    BY <2>4, <2>5
<1>6. ASSUME NEW t \in Thread, Answer(t) PROVE Spared(k)'
  <2>1. PICK says, j :
           /\ Update(t, j) /\ j.at # "throttle"
           /\ cache' = IF Remembered(job[t].source, says)
                         THEN [cache EXCEPT ![Key(t)] = Fresh(says = "data")] ELSE cache
    BY <1>6, AnswerJob DEF Passed
  <2>2. late' = late
    BY <1>6 DEF Answer
  <2>3. Fresh(says = "data") # Absent
    <3>1. Fresh(says = "data") \in Entry
      BY DEF Fresh, Entry
    <3> QED
      BY <3>1, WeatherSetAssumption
  <2>4. Bound(job', k) \subseteq Bound(job, k) /\ t \notin Bound(job', k)
    BY <2>1, BoundWithout
  <2>5. CASE cache'[k] = cache[k] \/ cache[k] # Absent
    <3>1. cache'[k] = Absent <=> cache[k] = Absent
      BY <1>0, <2>1, <2>3, <2>5
    <3> QED
      BY <1>0, <2>2, <2>4, <3>1, SparedStays
  <2>6. CASE cache'[k] # cache[k] /\ cache[k] = Absent
    <3> DEFINE b == Cardinality(Bound(job', k))
               n == Cardinality(Thread)
    <3>1. late'[k] = 0
      BY <1>0, <2>2, <2>6 DEF Spared
    <3>2. Bound(job', k) \subseteq Thread \ {t}
      BY <2>4 DEF Bound
    <3>3. IsFiniteSet(Thread \ {t}) /\ Cardinality(Thread \ {t}) = n - 1
      BY WeatherSetAssumption, FS_RemoveElement
    <3>4. b <= n - 1
      BY <3>2, <3>3, FS_Subset
    <3>5. b \in Nat /\ n \in Nat
      BY BoundCount
    <3> HIDE DEF b, n
    <3>6. late'[k] + b < n
      BY <3>1, <3>4, <3>5
    <3> QED
      BY <2>6, <3>6 DEF Spared, b, n
  <2> QED
    BY <2>5, <2>6
<1>7. ASSUME NEW t \in Thread, Finish(t) PROVE Spared(k)'
  <2>1. Update(t, Resting) /\ UNCHANGED <<cache, late>> /\ Resting \in Sleeping
    BY <1>7 DEF Finish, Update, Sleeping
  <2> QED
    BY <1>m, <2>1
<1>8. ASSUME UNCHANGED <<cache, job, late>> PROVE Spared(k)'
  BY <1>0, <1>8 DEF Spared, Bound
<1>9. ASSUME Tick PROVE Spared(k)'
  <2>1. Bound(job', k) \subseteq Bound(job, k)
    BY <1>9, TickJobs DEF Bound, Running, Sleeping, SamePair
  <2>2. late' = late /\ cache' = [q \in Group \X Source |-> Older(cache[q])]
    BY <1>9 DEF Tick
  <2>3. cache'[k] = Absent <=> cache[k] = Absent
    <3>1. cache'[k] = Older(cache[k]) /\ cache[k] \in Entry \cup {Absent}
      BY <1>0, <2>2
    <3> QED
      BY <3>1, OlderEntry
  <2> QED
    BY <1>0, <2>1, <2>2, <2>3, SparedStays
<1>10. CASE UNCHANGED vars
  BY <1>8, <1>10 DEF vars
<1>11. ASSUME NEW s \in Source, GoDown(s) \/ ComeUp(s) PROVE Spared(k)'
  BY <1>8, <1>11 DEF GoDown, ComeUp
<1> QED
  BY <1>1, <1>2, <1>3, <1>4, <1>5, <1>6, <1>7, <1>9, <1>10, <1>11 DEF Next, Step

\* However many threads fetch at once, what the cache remembers, success or
\* failure, is asked for again at most once by each of the other threads.
THEOREM NoStormEver == Spec => []NoStorm
<1>1. Types /\ StormInv => NoStorm
  <2> SUFFICES ASSUME Types, StormInv, NEW k \in Group \X Source
               PROVE  late[k] < Cardinality(Thread)
    BY DEF NoStorm
  <2> DEFINE n == Cardinality(Thread)
             a == Cardinality(Bound(job, k))
  <2>1. n \in Nat /\ n # 0 /\ a \in Nat
    BY WeatherSetAssumption, BoundCount, FS_EmptySet
  <2>2. late[k] \in Nat
    BY DEF Types
  <2>3. late[k] = 0 \/ late[k] + a < n
    BY DEF StormInv, Spared
  <2> HIDE DEF n, a
  <2>4. late[k] < n
    BY <2>1, <2>2, <2>3
  <2> QED
    BY <2>4 DEF n
<1>2. Types /\ StormInv /\ [Next]_vars => (Types /\ StormInv)'
  BY TypesStep, StormStep
<1> QED
  BY TypesInit, StormInit, <1>1, <1>2, PTL DEF Spec
-----------------------------------------------------------------------------
(* Markets left without a forecast: one thread.                             *)

\* A source that would be asked and has always been up.
Trusty(s) == s \in Source \ faulty /\ (s = "weatherapi" => HasKey)

\* What a job need no longer do is done, unless no source could be trusted.
Covers(j) == (\E s \in Source : Trusty(s)) => Group \X Metric \subseteq j.todo \cup j.stored

\* By the time the second source is asked, the first has served the pair, if
\* it could be trusted to.
Tried(j) ==
  (j.at # "pick" /\ j.source = "weatherapi" /\ Trusty("openmeteo")) =>
    <<j.group, j.metric>> \in j.stored

\* Of a source that could be trusted the cache remembers no failure, and
\* between its two looks at the cache nothing comes into it.
Honest ==
  \A k \in Group \X Source : Trusty(k[2]) => cache[k] = Absent \/ cache[k].good
Unexpected(t) ==
  (job[t].at = "member" /\ Trusty(job[t].source)) => cache[Key(t)] = Absent

ServedInv ==
  /\ Honest
  /\ \A t \in Running : Covers(job[t]) /\ Tried(job[t]) /\ Unexpected(t)

\* When a source is given up after it has served the pair, or could not be
\* trusted to, nothing is left out.
LEMMA PassedCovers ==
  ASSUME NEW i, NEW j, NEW b, JobOK(b), b.at # "pick", Covers(b), Tried(b),
         Passed(i, j), SamePair(j, b), j.source = b.source, j.todo = b.todo,
         b.stored \subseteq j.stored,
         Trusty(b.source) => <<b.group, b.metric>> \in j.stored
  PROVE  Covers(i) /\ Tried(i)
<1>1. b.source \in {"openmeteo", "weatherapi"}
  BY DEF JobOK, Source
<1>2. CASE i.at = "look"
  <2>1. /\ j.source = "openmeteo" /\ i.source = "weatherapi"
        /\ i.group = b.group /\ i.metric = b.metric /\ i.todo = b.todo /\ i.stored = j.stored
    BY <1>2 DEF Passed, SamePair, SameWork
  <2>2. Covers(i)
    BY <2>1 DEF Covers
  <2>3. Tried(i)
    BY <2>1 DEF Tried
  <2> QED
    BY <2>2, <2>3
<1>3. CASE i.at = "pick"
  <2>1. /\ j.source = "weatherapi" \/ ~HasKey
        /\ i.todo = b.todo \ {<<b.group, b.metric>>} /\ i.stored = j.stored
    BY <1>3 DEF Passed, SamePair
  <2>2. ASSUME NEW s \in Source, Trusty(s) PROVE <<b.group, b.metric>> \in j.stored
    <3>1. CASE s = b.source
      BY <2>2, <3>1
    <3>2. CASE s # b.source /\ b.source = "weatherapi"
      <4>1. s = "openmeteo"
        BY <3>2 DEF Source
      <4> QED
        BY <1>3, <2>2, <3>2, <4>1 DEF Tried
    <3>3. CASE s # b.source /\ b.source = "openmeteo"
      <4>1. s = "weatherapi" /\ ~HasKey
        BY <2>1, <3>3 DEF Source
      <4> QED
        BY <2>2, <4>1 DEF Trusty
    <3> QED
      BY <1>1, <3>1, <3>2, <3>3
  <2>3. Covers(i)
    BY <2>1, <2>2 DEF Covers
  <2> QED
    BY <1>3, <2>3 DEF Tried
<1> QED
  BY <1>2, <1>3 DEF Passed

LEMMA ServedInit == Init => ServedInv
  BY DEF Init, ServedInv, Honest, Running

\* A job's state that differs in the place only is as well served.
LEMMA SameServed ==
  ASSUME NEW i, NEW j, Covers(j), Tried(j), j.at # "pick", i.source = j.source,
         SamePair(i, j), SameWork(i, j)
  PROVE  Covers(i) /\ Tried(i)
  BY DEF Covers, Tried, SamePair, SameWork

\* A step of the only thread, which leaves the services alone.
LEMMA ServedStays ==
  ASSUME \A t, u \in Thread : t = u, Types, NEW t \in Thread, NEW j, Update(t, j),
         UNCHANGED faulty, Honest',
         j \notin Sleeping => /\ Covers(j) /\ Tried(j)
                              /\ (j.at = "member" /\ Trusty(j.source)) =>
                                   cache'[<<j.group, j.source>>] = Absent
  PROVE  ServedInv'
<1>1. job'[t] = j /\ \A u \in Thread : u = t
  BY DEF Types, Update
<1>2. ASSUME NEW u \in Running' PROVE Covers(job[u])' /\ Tried(job[u])' /\ Unexpected(u)'
  <2>1. u = t /\ j \notin Sleeping
    BY <1>1, <1>2 DEF Running, Sleeping
  <2>2. job'[u] = j
    BY <1>1, <2>1
  <2>3. Covers(job[u])'
    BY <2>1, <2>2 DEF Covers, Trusty
  <2>4. Tried(job[u])'
    BY <2>1, <2>2 DEF Tried, Trusty
  <2>5. Unexpected(u)'
    BY <2>1, <2>2 DEF Unexpected, Trusty, Key
  <2> QED
    BY <2>3, <2>4, <2>5
<1> QED
  BY <1>2 DEF ServedInv

LEMMA ServedStep ==
  ASSUME \A t, u \in Thread : t = u, Types, ServedInv, [Next]_vars
  PROVE  ServedInv'
<1>0. Honest /\ cache \in [Group \X Source -> Entry \cup {Absent}]
  BY DEF ServedInv, Types
<1>h. ASSUME UNCHANGED <<faulty, cache>> PROVE Honest'
  BY <1>0, <1>h DEF Honest, Trusty
<1>r. ASSUME NEW t \in Running
      PROVE  JobOK(job[t]) /\ Covers(job[t]) /\ Tried(job[t]) /\ Unexpected(t)
  BY <1>r, RunningJob DEF ServedInv
<1>1. ASSUME NEW t \in Thread, Start(t) PROVE ServedInv'
  <2>1. Update(t, Started) /\ UNCHANGED <<faulty, cache>>
    BY <1>1 DEF Start
  <2>2. Covers(Started) /\ Tried(Started) /\ Started.at = "pick"
    BY StartedJob DEF Covers, Tried
  <2> QED
    BY <1>h, <2>1, <2>2, ServedStays
<1>2. ASSUME NEW t \in Thread, AskEnsemble(t) PROVE ServedInv'
  <2>1. t \in Running /\ job[t].at = "pick"
    BY <1>2 DEF AskEnsemble, At
  <2>2. PICK j, p : Update(t, j) /\ Asked(j, job[t], p)
    BY <1>2, AskEnsembleJob
  <2>3. UNCHANGED <<faulty, cache>>
    BY <1>2 DEF AskEnsemble
  <2>4. Covers(j)
    BY <1>r, <2>1, <2>2 DEF Covers, Asked
  <2>5. Tried(j) /\ j.at # "member"
    BY <2>2 DEF Tried, Asked
  <2> QED
    BY <1>h, <2>2, <2>3, <2>4, <2>5, ServedStays
<1>3. ASSUME NEW t \in Thread, LookUp(t) PROVE ServedInv'
  <2> DEFINE b == job[t]
             e == cache[Key(t)]
             gone == e # Absent /\ Expired(e)
             hit == e # Absent /\ ~gone /\ e.good
  <2>1. t \in Running /\ b.at = "look" /\ JobOK(b)
    BY <1>3, RunningJob DEF LookUp, At
  <2>2. PICK j : /\ Update(t, j)
                 /\ \/ hit /\ Passed(j, Store(b))
                    \/ /\ ~hit /\ j.at = "member" /\ j.source = b.source
                       /\ SamePair(j, b) /\ SameWork(j, b)
    BY <1>3, LookUpJob
  <2>3. UNCHANGED faulty
        /\ cache' = [cache EXCEPT ![Key(t)] = IF gone THEN Absent ELSE e]
    BY <1>3 DEF LookUp
  <2>4. Key(t) \in Group \X Source /\ Key(t) = <<b.group, b.source>> /\ Key(t)[2] = b.source
    BY <2>1, KeyType DEF Key
  <2> HIDE DEF gone, hit
  <2>5. Honest'
    BY <1>0, <2>3, <2>4 DEF Honest, Trusty
  <2>6. CASE hit /\ Passed(j, Store(b))
    <3>1. /\ Store(b).source = b.source /\ Store(b).todo = b.todo /\ SamePair(Store(b), b)
          /\ Store(b).stored = b.stored \cup {<<b.group, b.metric>>}
      BY <2>1, StoreJob DEF JobOK
    <3>2. Covers(j) /\ Tried(j)
      BY <1>r, <2>1, <2>6, <3>1, PassedCovers
    <3>3. j.at # "member"
      BY <2>6 DEF Passed
    <3> QED
      BY <2>2, <2>3, <2>5, <3>2, <3>3, ServedStays
  <2>7. CASE ~hit /\ j.at = "member" /\ j.source = b.source /\ SamePair(j, b) /\ SameWork(j, b)
    <3>1. Covers(j) /\ Tried(j)
      BY <1>r, <2>1, <2>7, SameServed
    <3>2. <<j.group, j.source>> = Key(t)
      BY <2>4, <2>7 DEF SamePair
    <3>3. ASSUME Trusty(j.source) PROVE cache'[Key(t)] = Absent
      <4>1. e = Absent \/ e.good
        BY <1>0, <2>4, <2>7, <3>3 DEF Honest
      <4>2. e = Absent \/ gone
        BY <2>7, <4>1 DEF hit
      <4> QED
        BY <1>0, <2>3, <2>4, <4>2
    <3> QED
      BY <2>2, <2>3, <2>5, <3>1, <3>2, <3>3, ServedStays
  <2> QED
    BY <2>2, <2>6, <2>7
<1>4. ASSUME NEW t \in Thread, Member(t) PROVE ServedInv'
  <2> DEFINE b == job[t]
  <2>1. t \in Running /\ b.at = "member"
    BY <1>4 DEF Member, At
  <2>2. PICK j : /\ Update(t, j)
                 /\ \/ cache[Key(t)] # Absent /\ Passed(j, b)
                    \/ /\ cache[Key(t)] = Absent /\ j.at = "throttle" /\ j.source = b.source
                       /\ SamePair(j, b) /\ SameWork(j, b)
    BY <1>4, MemberJob
  <2>3. UNCHANGED <<faulty, cache>>
    BY <1>4 DEF Member
  <2>4. CASE cache[Key(t)] # Absent /\ Passed(j, b)
    <3>1. ~Trusty(b.source)
      BY <1>r, <2>1, <2>4 DEF Unexpected
    <3>2. Covers(j) /\ Tried(j)
      BY <1>r, <2>1, <2>4, <3>1, PassedCovers DEF SamePair
    <3>3. j.at # "member"
      BY <2>4 DEF Passed
    <3> QED
      BY <1>h, <2>2, <2>3, <3>2, <3>3, ServedStays
  <2>5. CASE j.at = "throttle" /\ j.source = b.source /\ SamePair(j, b) /\ SameWork(j, b)
    <3>1. Covers(j) /\ Tried(j)
      BY <1>r, <2>1, <2>5, SameServed
    <3> QED
      BY <1>h, <2>2, <2>3, <2>5, <3>1, ServedStays
  <2> QED
    BY <2>2, <2>4, <2>5
<1>5. ASSUME NEW t \in Thread, Throttle(t) PROVE ServedInv'
  <2>1. t \in Running /\ job[t].at = "throttle"
    BY <1>5 DEF Throttle, At
  <2>2. PICK j : /\ Update(t, j) /\ j.at = "asked" /\ j.source = job[t].source
                 /\ SamePair(j, job[t]) /\ SameWork(j, job[t])
    BY <1>5, ThrottleJob
  <2>3. UNCHANGED <<faulty, cache>>
    BY <1>5 DEF Throttle
  <2>4. Covers(j) /\ Tried(j)
    BY <1>r, <2>1, <2>2, SameServed
  <2> QED
    BY <1>h, <2>2, <2>3, <2>4, ServedStays
<1>6. ASSUME NEW t \in Thread, Answer(t) PROVE ServedInv'
  <2> DEFINE b == job[t]
  <2>1. t \in Running /\ b.at = "asked" /\ JobOK(b) /\ b.source \in Source
    BY <1>6, RunningJob DEF Answer, At, JobOK
  <2>2. PICK says \in Answers(b.source) : \E j :
           /\ Update(t, j)
           /\ cache' = IF Remembered(b.source, says)
                         THEN [cache EXCEPT ![Key(t)] = Fresh(says = "data")] ELSE cache
           /\ \/ says = "data" /\ Passed(j, Store(b))
              \/ /\ says # "data"
                 /\ \/ j.at = "look" /\ j.source = b.source /\ SamePair(j, b) /\ SameWork(j, b)
                    \/ Passed(j, b)
    BY <1>6, AnswerJob
  <2>3. PICK j :
           /\ Update(t, j)
           /\ \/ says = "data" /\ Passed(j, Store(b))
              \/ /\ says # "data"
                 /\ \/ j.at = "look" /\ j.source = b.source /\ SamePair(j, b) /\ SameWork(j, b)
                    \/ Passed(j, b)
    BY <2>2
  <2>4. UNCHANGED faulty
    BY <1>6 DEF Answer
  <2>5. says # "data" => ~Trusty(b.source)
    BY <2>1, <2>2 DEF Answers, Trusty, Types
  <2>6. Key(t) \in Group \X Source /\ Key(t)[2] = b.source
    BY <2>1, KeyType DEF Key
  <2>7. Honest'
    <3>1. Fresh(says = "data").good = (says = "data")
      BY DEF Fresh
    <3>2. ASSUME NEW k \in Group \X Source, Trusty(k[2])
          PROVE  cache'[k] = Absent \/ cache'[k].good
      <4>1. CASE cache'[k] = cache[k]
        BY <1>0, <3>2, <4>1 DEF Honest
      <4>2. CASE cache'[k] # cache[k]
        <5>1. k = Key(t) /\ cache'[k] = Fresh(says = "data")
          BY <1>0, <2>2, <2>6, <4>2
        <5>2. says = "data"
          BY <2>5, <2>6, <3>2, <5>1
        <5> QED
          BY <3>1, <5>1, <5>2
      <4> QED
        BY <4>1, <4>2
    <3> QED
      BY <2>4, <3>2 DEF Honest, Trusty
  <2>8. CASE says = "data" /\ Passed(j, Store(b))
    <3>1. /\ Store(b).source = b.source /\ Store(b).todo = b.todo /\ SamePair(Store(b), b)
          /\ Store(b).stored = b.stored \cup {<<b.group, b.metric>>}
      BY <2>1, StoreJob DEF JobOK
    <3>2. Covers(j) /\ Tried(j)
      BY <1>r, <2>1, <2>8, <3>1, PassedCovers
    <3>3. j.at # "member"
      BY <2>8 DEF Passed
    <3> QED
      BY <2>3, <2>4, <2>7, <3>2, <3>3, ServedStays
  <2>9. CASE says # "data" /\ Passed(j, b)
    <3>1. Covers(j) /\ Tried(j)
      BY <1>r, <2>1, <2>5, <2>9, PassedCovers DEF SamePair
    <3>2. j.at # "member"
      BY <2>9 DEF Passed
    <3> QED
      BY <2>3, <2>4, <2>7, <3>1, <3>2, ServedStays
  <2>10. CASE j.at = "look" /\ j.source = b.source /\ SamePair(j, b) /\ SameWork(j, b)
    <3>1. Covers(j) /\ Tried(j)
      BY <1>r, <2>1, <2>10, SameServed
    <3> QED
      BY <2>3, <2>4, <2>7, <2>10, <3>1, ServedStays
  <2> QED
    BY <2>3, <2>8, <2>9, <2>10
<1>7. ASSUME NEW t \in Thread, Finish(t) PROVE ServedInv'
  <2>1. Update(t, Resting) /\ UNCHANGED <<faulty, cache>> /\ Resting \in Sleeping
    BY <1>7 DEF Finish, Update, Sleeping
  <2> QED
    BY <1>h, <2>1, ServedStays
<1>8. ASSUME NEW s \in Source, GoDown(s) \/ ComeUp(s) PROVE ServedInv'
  <2>1. UNCHANGED <<cache, job>> /\ faulty \subseteq faulty'
    BY <1>8 DEF GoDown, ComeUp
  <2>2. \A q : Trusty(q)' => Trusty(q)
    BY <2>1 DEF Trusty
  <2>3. Honest'
    BY <1>0, <2>1, <2>2 DEF Honest
  <2>4. ASSUME NEW t \in Running PROVE Covers(job[t])' /\ Tried(job[t])' /\ Unexpected(t)'
    <3>1. job'[t] = job[t]
      BY <2>1
    <3>2. Covers(job[t])'
      BY <1>r, <2>2, <3>1 DEF Covers
    <3>3. Tried(job[t])'
      BY <1>r, <2>2, <3>1 DEF Tried
    <3>4. Unexpected(t)'
      BY <1>r, <2>1, <2>2, <3>1 DEF Unexpected, Key
    <3> QED
      BY <3>2, <3>3, <3>4
  <2>5. Running' = Running
    BY <2>1 DEF Running
  <2> QED
    BY <2>3, <2>4, <2>5 DEF ServedInv
<1>9. ASSUME Tick PROVE ServedInv'
  <2>1. faulty' = faulty /\ cache' = [q \in Group \X Source |-> Older(cache[q])]
    BY <1>9 DEF Tick
  <2>2. ASSUME NEW k \in Group \X Source
        PROVE  /\ cache'[k] = Absent <=> cache[k] = Absent
               /\ cache[k] # Absent => cache'[k].good = cache[k].good
    <3>1. cache'[k] = Older(cache[k]) /\ cache[k] \in Entry \cup {Absent}
      BY <1>0, <2>1
    <3> QED
      BY <3>1, OlderEntry
  <2>3. Honest'
    BY <1>0, <2>1, <2>2 DEF Honest, Trusty
  <2>4. ASSUME NEW t \in Running' PROVE Covers(job[t])' /\ Tried(job[t])' /\ Unexpected(t)'
    <3>1. /\ t \in Running
          /\ job'[t].at = job[t].at /\ job'[t].source = job[t].source
          /\ SamePair(job'[t], job[t]) /\ SameWork(job'[t], job[t])
      BY <1>9, <2>4, TickJobs DEF Running
    <3>2. Covers(job[t])'
      BY <1>r, <2>1, <3>1 DEF Covers, Trusty, SameWork
    <3>3. Tried(job[t])'
      BY <1>r, <2>1, <3>1 DEF Tried, Trusty, SameWork, SamePair
    <3>4. Unexpected(t)'
      <4>1. ASSUME job[t].at = "member" PROVE Key(t) \in Group \X Source
        BY <3>1, <4>1, KeyType
      <4> QED
        BY <1>r, <2>1, <2>2, <3>1, <4>1 DEF Unexpected, Trusty, Key, SamePair
    <3> QED
      BY <3>2, <3>3, <3>4
  <2> QED
    BY <2>3, <2>4 DEF ServedInv
<1>10. ASSUME UNCHANGED vars PROVE ServedInv'
  BY <1>10 DEF vars, ServedInv, Honest, Trusty, Running, Covers, Tried, Unexpected, Key
<1> QED
  BY <1>1, <1>2, <1>3, <1>4, <1>5, <1>6, <1>7, <1>8, <1>9, <1>10 DEF Next, Step

\* When fetch jobs do not overlap, none ends with a market left without a
\* forecast while one backup source was always up: whatever the ensemble and
\* the other source came to, and whatever the cache remembered.
THEOREM NoMarketLeftOut ==
  ASSUME \A t, u \in Thread : t = u
  PROVE  Spec => []NothingLeftOut
<1>1. Types /\ ServedInv => NothingLeftOut
  <2> SUFFICES ASSUME Types, ServedInv, NEW t \in Thread, Ending(t), Served
               PROVE  job[t].stored = Group \X Metric
    BY DEF NothingLeftOut
  <2>1. t \in Running /\ job[t].todo = {} /\ Covers(job[t])
    BY DEF Ending, ServedInv
  <2>2. job[t].stored \subseteq Group \X Metric
    BY <2>1, RunningJob DEF JobOK, Job
  <2> QED
    BY <2>1, <2>2 DEF Covers, Served, Trusty
<1>2. Types /\ ServedInv /\ [Next]_vars => (Types /\ ServedInv)'
  BY TypesStep, ServedStep
<1>3. Init => Types /\ ServedInv
  BY TypesInit, ServedInit
<1> QED
  BY <1>1, <1>2, <1>3, PTL DEF Spec
=============================================================================

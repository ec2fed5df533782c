------------------------------- MODULE Weather -------------------------------
(***************************************************************************)
(* The weather fetcher: fetch_all_markets of scrapers/meteo.py with the    *)
(* ensemble request of WeatherEngine in front of it and the @retry of      *)
(* utils/retry.py around its two backup sources.                           *)
(*                                                                         *)
(* A job goes through groups of markets (a place and a day) and, in each,  *)
(* through the metrics.  The ensemble is asked first; unless it answers    *)
(* with at least three models, the backup sources are asked, through a     *)
(* cache that all threads of the process share and that remembers answers  *)
(* and failures for a while.  A job that a stop has left behind runs on    *)
(* beside the next one, hence several threads.                             *)
(*                                                                         *)
(* Time is counted in ticks; TTLs, throttle and waits are constants.       *)
(***************************************************************************)
EXTENDS Integers, FiniteSets

CONSTANTS
  Thread,      \* the threads a fetch job may run on
  Group,       \* the groups of markets: a place and a day
  Metric,      \* temperature_max and temperature_min
  HasKey,      \* whether a key for WeatherAPI is configured
  SuccessTTL,  \* _SUCCESS_TTL_S
  FailureTTL,  \* _FAILURE_TTL_S
  MinInterval, \* _MIN_INTERVAL_S, between requests to one host
  RetryDelay,  \* the first wait of @retry; it doubles
  Backoff,     \* the wait after HTTP 429
  Absent,      \* no entry in a cache
  Nobody,      \* no job in progress
  Resting      \* no job, and none before the loop's pause is over

Source  == {"openmeteo", "weatherapi"}
MaxAttempts == 3

\* What a request to a service that is not up comes to.  limited: HTTP 429;
\* error: another status or an unreadable body; broken: no answer at all.
\* What a body of the ensemble holds for a metric: data, few (fewer than three
\* models) or empty (none, or not the day).
Verdict == {"data", "few", "empty"}
Says(s) == IF s = "ensemble" THEN Verdict \cup {"limited", "error"}
                             ELSE {"data", "empty", "limited", "error", "broken"}

Entry == [good : BOOLEAN, age : Nat]

ASSUME TimeAssumption ==
  /\ HasKey \in BOOLEAN
  /\ {SuccessTTL, FailureTTL, MinInterval, RetryDelay, Backoff} \subseteq Nat
  /\ FailureTTL <= SuccessTTL
ASSUME WeatherSetAssumption ==
  /\ IsFiniteSet(Thread) /\ Thread # {}
  /\ Absent \notin Entry

VARIABLES
  up,       \* the backup sources that answer every request with data at present
  faulty,   \* those that have not always been up
  cache,    \* cache[g, s]: _FETCH_CACHE, shared by the threads
  gap,      \* gap[s]: how long the throttle still holds back the host of s
  job,      \* job[t]: the fetch job on thread t
  late      \* late[g, s]: requests sent although the cache had an entry

vars == <<up, faulty, cache, gap, job, late>>

Started ==
  [at |-> "pick", todo |-> Group \X Metric, stored |-> {},
   own |-> [g \in Group |-> FALSE],   \* whether the ensemble's body is kept
   group |-> Absent, metric |-> Absent, source |-> Absent, attempt |-> 0, wait |-> 0]

Answers(s) == IF s \in up THEN {"data"} ELSE Says(s)
Running == {t \in Thread : job[t] \notin {Nobody, Resting}}
At(t, step) == t \in Running /\ job[t].at = step /\ job[t].wait = 0
Key(t)  == <<job[t].group, job[t].source>>
-----------------------------------------------------------------------------
(* The cache.                                                               *)

TTL(e) == IF e.good THEN SuccessTTL ELSE FailureTTL

\* A mistake: an entry is kept for as long as the process lives.
NeverExpired(e) == FALSE

Expired(e) == e.age > TTL(e)

Fresh(good) == [good |-> good, age |-> 0]
\* Ages are told apart up to the longest time to live.
Older(e) == IF e = Absent \/ e.age > SuccessTTL THEN e ELSE [e EXCEPT !.age = @ + 1]
-----------------------------------------------------------------------------
(* The state of a job after a step.                                         *)

Goto(j, step) == [j EXCEPT !.at = step]
Store(j) == [j EXCEPT !.stored = @ \cup {<<j.group, j.metric>>}]
Sleep(j, n) == [j EXCEPT !.wait = n]
Update(t, j) == job' = [job EXCEPT ![t] = j]

\* The pair of group and metric is done: the next one, if any.
NextPair(j) ==
  [j EXCEPT !.at = "pick", !.todo = @ \ {<<j.group, j.metric>>}, !.group = Absent,
            !.metric = Absent, !.source = Absent, !.attempt = 0]

Ask(j, s) == [j EXCEPT !.at = "look", !.source = s, !.attempt = 1]

\* A mistake: the second source is only there for when there is no first.
FirstSourceOnly(j) == NextPair(j)

\* fetch_for_markets asks both sources, whatever the first came to.
AfterSource(j) ==
  IF j.source = "openmeteo" /\ HasKey THEN Ask(j, "weatherapi") ELSE NextPair(j)

\* Mistakes: the attempts are not counted, or one too many is made.
RetryForEver(j) == Goto(Sleep(j, RetryDelay), "look")
RetryOnceMore(j) ==
  IF j.attempt <= MaxAttempts
    THEN [Goto(Sleep(j, RetryDelay * 2 ^ (j.attempt - 1)), "look") EXCEPT !.attempt = @ + 1]
    ELSE AfterSource(j)

\* What @retry makes of an exception.
Retry(j) ==
  IF j.attempt < MaxAttempts
    THEN [Goto(Sleep(j, RetryDelay * 2 ^ (j.attempt - 1)), "look") EXCEPT !.attempt = @ + 1]
    ELSE AfterSource(j)
-----------------------------------------------------------------------------
(* A job: fetch_all_markets.                                                *)

Start(t) ==
  /\ job[t] = Nobody
  /\ Update(t, Started)
  /\ UNCHANGED <<up, faulty, cache, gap, late>>

\* get_multi_model_forecast: a body is kept for the other metric, a failure
\* is not, and each metric counts its own models in it; what the models have
\* is stored however few they are.  (A body no other metric will ask for is
\* forgotten at once.)
AskEnsemble(t) ==
  /\ At(t, "pick")
  /\ \E p \in job[t].todo :
     \E says \in IF job[t].own[p[1]] THEN Verdict ELSE Says("ensemble") :
       LET more == \E q \in job[t].todo \ {p} : q[1] = p[1]
           j == [job[t] EXCEPT !.group = p[1], !.metric = p[2],
                   !.own[p[1]] = says \in Verdict /\ more]
       IN  Update(t, CASE says = "data"    -> NextPair(Store(j))
                       [] says = "few"     -> Ask(Store(j), "openmeteo")
                       [] says = "limited" -> Sleep(Ask(j, "openmeteo"), Backoff)
                       [] OTHER            -> Ask(j, "openmeteo"))
  /\ UNCHANGED <<up, faulty, cache, gap, late>>

\* _cache_get: an entry past its time is removed.
LookUp(t) ==
  /\ At(t, "look")
  /\ LET e == cache[Key(t)]
         gone == e # Absent /\ Expired(e)
         hit  == e # Absent /\ ~gone /\ e.good
     IN  /\ Update(t, IF hit THEN AfterSource(Store(job[t])) ELSE Goto(job[t], "member"))
         /\ cache' = [cache EXCEPT ![Key(t)] = IF gone THEN Absent ELSE e]
         /\ late' = [late EXCEPT ![Key(t)] = IF gone THEN 0 ELSE @]
  /\ UNCHANGED <<up, faulty, gap>>

\* `cache_key in _FETCH_CACHE`, a second look at the cache without the lock:
\* an entry is now taken for a failure.
Member(t) ==
  /\ At(t, "member")
  /\ Update(t, IF cache[Key(t)] # Absent THEN AfterSource(job[t])
                                         ELSE Goto(job[t], "throttle"))
  /\ UNCHANGED <<up, faulty, cache, gap, late>>

Throttle(t) ==
  /\ At(t, "throttle")
  /\ gap[job[t].source] = 0
  /\ gap' = [gap EXCEPT ![job[t].source] = MinInterval]
  /\ late' = [late EXCEPT ![Key(t)] =
                IF cache[Key(t)] # Absent /\ @ < Cardinality(Thread) THEN @ + 1 ELSE @]
  /\ Update(t, Goto(job[t], "asked"))
  /\ UNCHANGED <<up, faulty, cache>>

\* The answer, or none.  Open-Meteo's 429 is waited out and not remembered;
\* WeatherAPI's statuses are raised outside the try that remembers.
Remembered(s, says) ==
  says \in {"data", "empty", "broken"} \/ (s = "openmeteo" /\ says = "error")
Raised(s, says) ==
  says \in {"error", "broken"} \/ (s = "weatherapi" /\ says = "limited")

Answer(t) ==
  /\ At(t, "asked")
  /\ \E says \in Answers(job[t].source) :
     LET s == job[t].source
         j == job[t]
     IN  /\ cache' = IF Remembered(s, says)
                       THEN [cache EXCEPT ![Key(t)] = Fresh(says = "data")] ELSE cache
         /\ Update(t, CASE says = "data"    -> AfterSource(Store(j))
                        [] Raised(s, says)  -> Retry(j)
                        [] says = "limited" /\ s = "openmeteo" -> Sleep(AfterSource(j), Backoff)
                        [] says = "empty"   -> AfterSource(j))
  /\ UNCHANGED <<up, faulty, gap, late>>

Finish(t) ==
  /\ At(t, "pick")
  /\ job[t].todo = {}
  /\ job' = [job EXCEPT ![t] = Resting]
  /\ UNCHANGED <<up, faulty, cache, gap, late>>
-----------------------------------------------------------------------------
(* The world.                                                               *)

GoDown(s) ==
  /\ s \in up
  /\ up' = up \ {s}
  /\ faulty' = faulty \cup {s}
  /\ UNCHANGED <<cache, gap, job, late>>

ComeUp(s) ==
  /\ up' = up \cup {s}
  /\ UNCHANGED <<faulty, cache, gap, job, late>>

\* A tick is long against statements in a row: time passes while threads
\* sleep or wait for an answer or for the throttle.
Waits(t) ==
  \/ job[t].wait > 0
  \/ job[t].at \in {"pick", "asked"}
  \/ job[t].at = "throttle" /\ gap[job[t].source] > 0

Tick ==
  /\ \A t \in Running : Waits(t)
  /\ gap' = [s \in Source |-> IF gap[s] > 0 THEN gap[s] - 1 ELSE 0]
  /\ cache' = [k \in Group \X Source |-> Older(cache[k])]
  /\ job' = [t \in Thread |->
               IF t \notin Running THEN Nobody
               ELSE IF job[t].wait > 0 THEN [job[t] EXCEPT !.wait = @ - 1] ELSE job[t]]
  /\ UNCHANGED <<up, faulty, late>>
-----------------------------------------------------------------------------
Init ==
  /\ up = Source
  /\ faulty = {}
  /\ cache = [k \in Group \X Source |-> Absent]
  /\ gap = [s \in Source |-> 0]
  /\ job = [t \in Thread |-> Nobody]
  /\ late = [k \in Group \X Source |-> 0]

Step(t) ==
  \/ AskEnsemble(t) \/ LookUp(t) \/ Member(t) \/ Throttle(t) \/ Answer(t) \/ Finish(t)

Next ==
  \/ \E t \in Thread : Start(t) \/ Step(t)
  \/ \E s \in Source : GoDown(s) \/ ComeUp(s)
  \/ Tick

Spec == Init /\ [][Next]_vars

\* Time passes, a thread goes on with its job, requests end (all have a
\* timeout), and the scan loop fetches again and again.  The services may
\* change, or stay as they are, as they like.
Fairness ==
  /\ WF_vars(Tick)
  /\ \A t \in Thread : WF_vars(Step(t)) /\ WF_vars(Start(t))

FairSpec == Spec /\ Fairness
-----------------------------------------------------------------------------
(* Properties.                                                              *)

Job ==
  [at : {"pick", "look", "member", "throttle", "asked"}, todo : SUBSET (Group \X Metric),
   stored : SUBSET (Group \X Metric),
   own : [Group -> BOOLEAN],
   group : Group \cup {Absent}, metric : Metric \cup {Absent}, source : Source \cup {Absent},
   attempt : 0 .. MaxAttempts, wait : Nat]

TypeOK ==
  /\ up \subseteq Source
  /\ faulty \subseteq Source
  /\ cache \in [Group \X Source -> Entry \cup {Absent}]
  /\ gap \in [Source -> 0 .. MinInterval]
  /\ job \in [Thread -> Job \cup {Nobody, Resting}]
  /\ late \in [Group \X Source -> Nat]

\* A job that ends has stored a forecast for every group and metric, if one
\* backup source has always been up: whatever the ensemble and the other
\* source came to, and whatever the cache remembers.
Ending(t) == t \in Running /\ job[t].at = "pick" /\ job[t].todo = {}
Served == \E s \in Source \ faulty : s = "weatherapi" => HasKey
NothingLeftOut ==
  \A t \in Thread : (Ending(t) /\ Served) => job[t].stored = Group \X Metric

\* While the cache remembers something, success or failure, no more requests
\* are sent for it than were on their way when it was made, one by each of the
\* other threads.
NoStorm == \A k \in Group \X Source : late[k] < Cardinality(Thread)

\* Whatever a request to Open-Meteo has come to is remembered, so that the next
\* market of the place does not ask again for what has just failed.
AnswerRemembered ==
  [][\A t \in Thread :
       At(t, "asked") /\ job[t].source = "openmeteo" /\ job'[t] # job[t]
         => cache'[Key(t)] # Absent]_vars

\* Every job comes to an end, whatever the services say.
JobsEnd == \A t \in Thread : (t \in Running) ~> (t \notin Running)

\* A source that is up again is heard again: if it stays up from some time
\* on then every market gets a forecast again and again, whatever failures
\* the cache has kept and whatever becomes of the other services.
Recovers ==
  \A s \in Source :
    (s = "weatherapi" => HasKey) =>
      (<>[](s \in up) =>
         \A p \in Group \X Metric :
           []<>(\E t \in Thread : t \in Running /\ p \in job[t].stored))
=============================================================================

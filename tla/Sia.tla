--------------------------------- MODULE Sia ---------------------------------
(***************************************************************************)
(* The self-improving loop: SIALoop of engine/strategy.py with the files   *)
(* of utils/weights_store.py.  A cycle re-weights the forecast models by   *)
(* their Brier scores, saves the weights, puts them into use, tunes two    *)
(* betting parameters and saves those.  The process may die between any    *)
(* two steps; it then starts again from what the files hold.               *)
(*                                                                         *)
(* Units: weights and Brier scores in ten-thousandths (the code rounds     *)
(* both to four decimals), the parameters in thousandths.                  *)
(***************************************************************************)
EXTENDS Integers, FiniteSets, Functions

CONSTANTS
  Runner,     \* the threads that run cycles: one per settlement loop
  Model,      \* the forecast models
  Default,    \* Default[m]: Config.MODEL_WEIGHTS, an attribute of the class
  Briers,     \* the Brier scores a model may have
  Summaries,  \* the win rates and returns, in percent, the bets may show
  DefaultParams,  \* bot_config.strategy as the program starts with it
  MaxCycles,  \* bound on the cycles
  None        \* a file that is missing, an attribute that is not set

Unit == 10000
MinChange == 10
Params == [edge : Nat, kelly : Nat]
Torn == [edge |-> -1, kelly |-> -1]

ASSUME ModelAssumption ==
  /\ IsFiniteSet(Model)
  /\ Default \in [Model -> Nat]
  /\ Briers \subseteq 0 .. Unit
ASSUME ParamsAssumption ==
  /\ Summaries \subseteq [win : 0 .. 100, roi : Int]
  /\ DefaultParams \in [edge : 10 .. 150, kelly : 50 .. 250]
ASSUME SiaBoundAssumption ==
  /\ MaxCycles \in Nat
  /\ None \notin [Model -> Int] \cup Params \cup {Torn}

VARIABLES
  up,        \* whether the process runs
  learned,   \* SIALoop.model_weights
  attribute, \* MODEL_WEIGHTS as set on the config object
  weights,   \* data/model_weights.json
  params,    \* bot_config.strategy: min_edge and kelly_fraction
  saved,     \* data/strategy_params.json
  cycle,     \* cycle[r]: where runner r is, and what it will write
  cycles,    \* the number of cycles begun
  tunings    \* the tunings of the current day

memory == <<learned, attribute, params>>
files  == <<weights, saved>>
vars   == <<up, memory, files, cycle, cycles, tunings>>

Doing(s, w, p) == [step |-> s, weights |-> w, params |-> p]
Idle == Doing("idle", None, None)
At(r, s) == up /\ cycle[r].step = s
Goto(r, s) == cycle' = [cycle EXCEPT ![r].step = s]
-----------------------------------------------------------------------------
(* Weights.                                                                 *)

Nearest(n, d) == (2 * n + d) \div (2 * d)
Total(w, models) == SumFunctionOnSet(w, models)

\* The weights the program ships with are shares of the whole.
ASSUME DefaultAssumption == Total(Default, Model) = Unit

\* A mistake: the whole of 1.0 is shared out, frozen weights or not.
BudgetOfAll(w, frozen) == Unit

\* optimize_weights: what the frozen models leave is shared out among the
\* others in proportion to the complements of their Brier scores.
Complement(score) == IF Unit - score > 100 THEN Unit - score ELSE 100
Budget(w, frozen) == Unit - Total(w, frozen)

Optimized(w, frozen, score) ==
  LET sum == SumFunction([m \in Model \ frozen |-> Complement(score[m])])
  IN  [m \in Model |-> IF m \in frozen
                         THEN w[m]
                         ELSE Nearest(Complement(score[m]) * Budget(w, frozen), sum)]

Far(w, v) == \E m \in Model : w[m] - v[m] >= MinChange \/ v[m] - w[m] >= MinChange

\* What config.get_normalized_weights returns: a class method, it reads the
\* attribute of the class, which a write to the config object leaves alone.
EngineWeights == Default
-----------------------------------------------------------------------------
(* A cycle: run_optimization_cycle.                                         *)

\* analyze_model_performance and the new weights.  A model with fewer than
\* ten predictions in the last 30 days is frozen.
Optimize(r) ==
  /\ At(r, "idle")
  /\ cycles < MaxCycles
  /\ cycles' = cycles + 1
  /\ \E frozen \in SUBSET Model :
       \E score \in [Model \ frozen -> Briers] :
         cycle' = [cycle EXCEPT ![r] = Doing("save", Optimized(learned, frozen, score), None)]
  /\ UNCHANGED <<up, memory, files, tunings>>

\* The performance query raised: the cycle goes on without new weights.
SkipWeights(r) ==
  /\ At(r, "idle")
  /\ cycles < MaxCycles
  /\ cycles' = cycles + 1
  /\ Goto(r, "tune")
  /\ UNCHANGED <<up, memory, files, tunings>>

\* A mistake: the new weights are compared with the ones in memory.
SaveAgainstMemory(r) ==
  /\ At(r, "save")
  /\ Goto(r, "use")
  /\ weights' = IF weights = None \/ Far(cycle[r].weights, learned)
                  THEN cycle[r].weights ELSE weights
  /\ UNCHANGED <<up, memory, saved, cycles, tunings>>

\* save_weights: a change too small to matter is not written; the file is
\* replaced in one step.
Save(r) ==
  /\ At(r, "save")
  /\ Goto(r, "use")
  /\ weights' = IF weights = None \/ Far(cycle[r].weights, weights)
                  THEN cycle[r].weights ELSE weights
  /\ UNCHANGED <<up, memory, saved, cycles, tunings>>

\* The new weights replace SIALoop's and the config object's.
Use(r) ==
  /\ At(r, "use")
  /\ learned' = cycle[r].weights
  /\ attribute' = cycle[r].weights
  /\ cycle' = [cycle EXCEPT ![r] = Doing("tune", None, None)]
  /\ UNCHANGED <<up, params, files, cycles, tunings>>

Lower(a, b)  == IF a <= b THEN a ELSE b
Higher(a, b) == IF a >= b THEN a ELSE b

\* A mistake: min_edge grows without limit.
TunedEdgeFreely(edge, s) ==
  CASE s.win < 45 -> edge + 10
    [] s.win > 60 /\ s.roi > 5 -> Higher(10, edge - 5)
    [] OTHER -> edge

\* optimize_strategy_params.
TunedEdge(edge, s) ==
  CASE s.win < 45 -> Lower(150, edge + 10)
    [] s.win > 60 /\ s.roi > 5 -> Higher(10, edge - 5)
    [] OTHER -> edge
TunedKelly(kelly, s) ==
  CASE s.roi < -10 -> Higher(50, kelly - 50)
    [] s.roi > 10 /\ s.win > 55 -> Lower(250, kelly + 20)
    [] OTHER -> kelly

Tune(r) ==
  /\ At(r, "tune")
  /\ \E s \in Summaries :
       params' = [edge  |-> TunedEdge(params.edge, s),
                  kelly |-> TunedKelly(params.kelly, s)]
  /\ cycle' = [cycle EXCEPT ![r] = Doing("open", None, params')]
  /\ tunings' = tunings + 1
  /\ UNCHANGED <<up, learned, attribute, files, cycles>>

\* A query of the results raises: the cycle is over, with the weights in use
\* and the parameters as they were.
SkipTuning(r) ==
  /\ At(r, "tune")
  /\ cycle' = [cycle EXCEPT ![r] = Idle]
  /\ UNCHANGED <<up, memory, files, cycles, tunings>>

\* save_strategy_params opens the file, which empties it, and then writes.
Open(r) ==
  /\ At(r, "open")
  /\ \A q \in Runner : cycle[q].step # "write"
  /\ saved' = Torn
  /\ Goto(r, "write")
  /\ UNCHANGED <<up, memory, weights, cycles, tunings>>

Write(r) ==
  /\ At(r, "write")
  /\ saved' = cycle[r].params
  /\ cycle' = [cycle EXCEPT ![r] = Idle]
  /\ UNCHANGED <<up, memory, weights, cycles, tunings>>
-----------------------------------------------------------------------------
(* The process.                                                             *)

Crash ==
  /\ up
  /\ up' = FALSE
  /\ cycle' = [r \in Runner |-> Idle]
  /\ UNCHANGED <<memory, files, cycles, tunings>>

\* A mistake: whatever the parameters file holds is taken as it is.
StartUnchecked ==
  /\ ~up
  /\ up' = TRUE
  /\ learned' = IF weights = None THEN Default ELSE weights
  /\ attribute' = None
  /\ params' = IF saved = None THEN DefaultParams ELSE saved
  /\ UNCHANGED <<files, cycle, cycles, tunings>>

\* SIALoop.__init__: the files over the defaults.  A file that cannot be
\* parsed counts as missing.
Start ==
  /\ ~up
  /\ up' = TRUE
  /\ learned' = IF weights = None THEN Default ELSE weights
  /\ attribute' = None
  /\ params' = IF saved \in {None, Torn} THEN DefaultParams ELSE saved
  /\ UNCHANGED <<files, cycle, cycles, tunings>>

NextDay ==
  /\ tunings > 0
  /\ tunings' = 0
  /\ UNCHANGED <<up, memory, files, cycle, cycles>>
-----------------------------------------------------------------------------
Init ==
  /\ up = FALSE
  /\ learned = Default
  /\ attribute = None
  /\ weights \in {None, Default}
  /\ params = DefaultParams
  /\ saved = None
  /\ cycle = [r \in Runner |-> Idle]
  /\ cycles = 0
  /\ tunings = 0

Cycle(r) ==
  \/ Optimize(r) \/ SkipWeights(r) \/ Save(r) \/ Use(r)
  \/ Tune(r) \/ SkipTuning(r) \/ Open(r) \/ Write(r)

Next == (\E r \in Runner : Cycle(r)) \/ Crash \/ Start \/ NextDay

Spec == Init /\ [][Next]_vars
-----------------------------------------------------------------------------
(* Properties.                                                              *)

TypeOK ==
  /\ up \in BOOLEAN
  /\ learned \in [Model -> Int]
  /\ attribute \in [Model -> Int] \cup {None}
  /\ weights \in [Model -> Int] \cup {None}
  /\ params \in Params
  /\ saved \in Params \cup {None, Torn}
  /\ cycle \in [Runner -> [step : {"idle", "save", "use", "tune", "open", "write"},
                           weights : [Model -> Int] \cup {None},
                           params : Params \cup {None}]]
  /\ cycles \in Nat
  /\ tunings \in Nat

\* The weights add up to one but for the rounding of a single cycle: neither
\* freezing and thawing models nor a restart lets the error pile up.
WeightsSumToOne ==
  LET error == Total(learned, Model) - Unit
  IN  2 * Higher(error, -error) <= Cardinality(Model)

\* What a restart would load is, to less than MinChange, what is in use:
\* the updates that were too small to be written do not pile up.
LearnedIsDurable ==
  (up /\ \A r \in Runner : cycle[r].step \notin {"save", "use"}) =>
    \/ weights = None /\ learned = Default
    \/ weights # None /\ ~Far(learned, weights)

\* The parameters stay within their limits, through every restart.
ParamsInRange == params.edge \in 10 .. 150 /\ params.kelly \in 50 .. 250

\* Once a cycle has put weights into use, the consensus is computed with them.
LearnedInUse == attribute # None => EngineWeights = learned

\* The parameters are tuned at most once a day.
TunedOnceADay == tunings <= 1
=============================================================================

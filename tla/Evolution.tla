------------------------------- MODULE Evolution -------------------------------
(***************************************************************************)
(* The ASI engine beside the bot: asi_main.py's process evolves strategies *)
(* (orchestrator, researcher, simulator, analyzer, cognition base of       *)
(* asi_engine/) and deploys the best one into the two files from which the *)
(* bot's SIALoop starts.  The two processes share nothing but those files  *)
(* and hold no lock against each other; either may die between any two     *)
(* steps.  Sia is the other process.  Requests to evolve may overlap.      *)
(*                                                                         *)
(* Units are Sia's; returns are in tenths of a percent.                    *)
(***************************************************************************)
EXTENDS Sia

CONSTANTS
  Request,   \* requests to evolve: each runs on a thread of its own
  Rounds,    \* the rounds of one run of the pipeline
  Amounts,   \* the shifts of weight the researcher may draw
  Rois,      \* the returns a backtest may show
  PriorWeights, \* the weights of the better of the two human priors
  MaxRuns    \* bound on the runs

PriorRoi == 125
Node == [weights : [Model -> Nat], params : Params, roi : Int]

ASSUME EvolutionAssumption ==
  /\ Rounds \in Nat \ {0}
  /\ MaxRuns \in Nat
  /\ Amounts \subseteq 200 .. 500
  /\ Rois \subseteq Int
  /\ PriorWeights \in [Model -> Nat]
  /\ Total(PriorWeights, Model) = Unit

VARIABLES
  asi,       \* whether the ASI process runs
  known,     \* CognitionBase.nodes: how many, and the best of them
  cognition, \* data/asi_cognition.json
  evolve,    \* evolve[q]: where the run for q is, its round and the node in hand
  runs,      \* runs begun
  crossed    \* both processes have opened the parameters file at once

sia  == vars
mine == <<asi, known, cognition, evolve, runs, crossed>>
all  == <<sia, mine>>

Memory(n, best) == [count |-> n, best |-> best]
Priors  == Memory(2, [weights |-> PriorWeights, params |-> [edge |-> 50, kelly |-> 150],
                      roi |-> PriorRoi])
Nothing == Memory(0, None)

Working(s, n, node) == [step |-> s, round |-> n, node |-> node]
Resting == Working("idle", 0, None)
In(q, s) == asi /\ evolve[q].step = s
Turn(q, w) == evolve' = [evolve EXCEPT ![q] = w]
Then(q, s) == Turn(q, Working(s, evolve[q].round, evolve[q].node))
SiaWrites == \E r \in Runner : cycle[r].step = "write"
AsiWrites == \E q \in Request : evolve[q].step = "write"
-----------------------------------------------------------------------------
(* A round: the researcher's proposal and what the backtest makes of it.    *)

Clamp(x, low, high) == Lower(high, Higher(low, x))

\* A mistake: the weights are left as they are after the shift.
Shifted(w, boost, trim, amount) ==
  [w EXCEPT ![boost] = Clamp(@ + amount, 100, 5000), ![trim] = Clamp(@ - amount, 100, 5000)]

\* Weight goes from one model to another, and the whole is brought back to one.
Proposed(w, boost, trim, amount) ==
  LET shifted == [w EXCEPT ![boost] = Clamp(@ + amount, 100, 5000),
                           ![trim]  = Clamp(@ - amount, 100, 5000)]
  IN  [m \in Model |-> Nearest(shifted[m] * Unit, Total(shifted, Model))]

Stepped(p, e, k) == [edge  |-> Clamp(p.edge + 10 * e, 20, 150),
                     kelly |-> Clamp(p.kelly + 20 * k, 50, 250)]

\* run_evolution_pipeline starts.  With no node there is no best one, and it
\* raises.
Begin(q) ==
  /\ In(q, "idle") /\ runs < MaxRuns
  /\ known.count > 0
  /\ runs' = runs + 1
  /\ Turn(q, Working("propose", 1, None))
  /\ UNCHANGED <<sia, asi, known, cognition, crossed>>

\* propose_hypothesis, run_backtest and analyze_results; the latter keeps
\* every result, good or bad.
Propose(q) ==
  /\ In(q, "propose")
  /\ \E boost \in Model : \E trim \in Model \ {boost} : \E amount \in Amounts :
     \E e, k \in {-1, 0, 1} : \E roi \in Rois :
       Turn(q, Working("learn", evolve[q].round,
                 [weights |-> Proposed(known.best.weights, boost, trim, amount),
                  params |-> Stepped(known.best.params, e, k), roi |-> roi]))
  /\ UNCHANGED <<sia, asi, known, cognition, runs, crossed>>

\* The researcher or the backtest raises: the run is over, and what its rounds
\* have learned stays.
Abort(q) ==
  /\ In(q, "propose")
  /\ Turn(q, Resting)
  /\ UNCHANGED <<sia, asi, known, cognition, runs, crossed>>

\* A mistake: the newest node counts as the best.
NewestOf(best, node) == node

\* The first of the nodes with the highest return.
BestOf(best, node) == IF node.roi > best.roi THEN node ELSE best

\* add_node, under the lock of the cognition base: the list in memory grows,
\* then the file is emptied and written.
Learn(q) ==
  /\ In(q, "learn")
  /\ \A p \in Request : evolve[p].step # "persist"
  /\ known' = Memory(known.count + 1, BestOf(known.best, evolve[q].node))
  /\ cognition' = Torn
  /\ Then(q, "persist")
  /\ UNCHANGED <<sia, asi, runs, crossed>>

\* A mistake: one round too many.
AfterRoundLate(n) == IF n <= Rounds THEN Working("propose", n + 1, None)
                                    ELSE Working("deploy", n, None)

AfterRound(n) == IF n < Rounds THEN Working("propose", n + 1, None)
                               ELSE Working("deploy", n, None)

Persist(q) ==
  /\ In(q, "persist")
  /\ cognition' = known
  /\ Turn(q, AfterRound(evolve[q].round))
  /\ UNCHANGED <<sia, asi, known, runs, crossed>>
-----------------------------------------------------------------------------
(* Deployment: get_best_parameters, save_weights and save_strategy_params.  *)

Deploy(q) ==
  /\ In(q, "deploy")
  /\ weights' = IF weights = None \/ Far(known.best.weights, weights)
                  THEN known.best.weights ELSE weights
  /\ Turn(q, Working("open", evolve[q].round, known.best))
  /\ UNCHANGED <<up, memory, saved, cycle, cycles, tunings>>
  /\ UNCHANGED <<asi, known, cognition, runs, crossed>>

\* The lock of weights_store is this process's own.
DeployOpen(q) ==
  /\ In(q, "open")
  /\ ~ AsiWrites
  /\ saved' = Torn
  /\ crossed' = (crossed \/ SiaWrites)
  /\ Then(q, "write")
  /\ UNCHANGED <<up, memory, weights, cycle, cycles, tunings>>
  /\ UNCHANGED <<asi, known, cognition, runs>>

DeployWrite(q) ==
  /\ In(q, "write")
  /\ saved' = evolve[q].node.params
  /\ Turn(q, Resting)
  /\ UNCHANGED <<up, memory, weights, cycle, cycles, tunings>>
  /\ UNCHANGED <<asi, known, cognition, runs, crossed>>

\* Both had the file open: the shorter text leaves the end of the longer one.
Garble ==
  /\ crossed /\ ~ SiaWrites /\ ~ AsiWrites
  /\ saved' = Torn
  /\ crossed' = FALSE
  /\ UNCHANGED <<up, memory, weights, cycle, cycles, tunings>>
  /\ UNCHANGED <<asi, known, cognition, evolve, runs>>
-----------------------------------------------------------------------------
(* The processes.                                                           *)

CrashAsi ==
  /\ asi
  /\ asi' = FALSE
  /\ evolve' = [q \in Request |-> Resting]
  /\ known' = Nothing
  /\ UNCHANGED <<sia, cognition, runs, crossed>>

\* CognitionBase: the priors if there is no file, nothing if it is not JSON.
StartAsi ==
  /\ ~ asi
  /\ asi' = TRUE
  /\ known' = CASE cognition = None -> Priors
                [] cognition = Torn -> Nothing
                [] OTHER -> cognition
  /\ cognition' = IF cognition = None THEN Priors ELSE cognition
  /\ UNCHANGED <<sia, evolve, runs, crossed>>

\* The first start of all dies between emptying the new file and writing the
\* priors to it.
CrashSeeding ==
  /\ ~ asi
  /\ cognition = None
  /\ cognition' = Torn
  /\ UNCHANGED <<sia, asi, known, evolve, runs, crossed>>

\* A step of the bot's process.
Bot ==
  /\ \/ \E r \in Runner : Cycle(r)
     \/ Crash \/ Start \/ NextDay
  /\ crossed' = (crossed \/ (saved # Torn /\ saved' = Torn /\ AsiWrites))
  /\ UNCHANGED <<asi, known, cognition, evolve, runs>>
Step(q) ==
  \/ Begin(q) \/ Propose(q) \/ Abort(q) \/ Learn(q) \/ Persist(q)
  \/ Deploy(q) \/ DeployOpen(q) \/ DeployWrite(q)

BothInit ==
  /\ Init
  /\ asi = FALSE
  /\ known = Nothing
  /\ cognition = None
  /\ evolve = [q \in Request |-> Resting]
  /\ runs = 0
  /\ crossed = FALSE

BothNext ==
  Bot \/ (\E q \in Request : Step(q)) \/ Garble \/ CrashAsi \/ StartAsi \/ CrashSeeding

BothSpec == BothInit /\ [][BothNext]_all
-----------------------------------------------------------------------------
(* Properties.  WeightsSumToOne and ParamsInRange are Sia's: here they say  *)
(* that what the bot works with stays within its limits although another    *)
(* process writes the files it starts from, with limits of its own.         *)

KnownType == [count : Nat, best : Node \cup {None}]

EvolutionTypeOK ==
  /\ TypeOK
  /\ asi \in BOOLEAN
  /\ known \in KnownType
  /\ cognition \in KnownType \cup {None, Torn}
  /\ evolve \in [Request ->
       [step : {"idle", "propose", "learn", "persist", "deploy", "open", "write"},
        round : 0 .. Rounds, node : Node \cup {None}]]
  /\ runs \in 0 .. MaxRuns
  /\ crossed \in BOOLEAN

\* What a run starts from, and deploys, has never shown a lower return than
\* the prior, however bad the rounds were and wherever a crash fell.
NeverWorseThanPrior == known.count > 0 => known.best.roi >= PriorRoi
=============================================================================

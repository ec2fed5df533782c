---------------------------- MODULE EvolutionProofs ----------------------------
(* What the ASI process may put into the bot's files, proved for any number *)
(* of requests, rounds and threads, any returns, and a crash of either      *)
(* process between any two steps.                                           *)
EXTENDS Evolution, SiaProofs

\* A node fit to be deployed.
GoodNode(n) == n \in Node /\ InRange(n.params) /\ NearOne(n.weights)

\* The best node of a memory that is not empty is at least as good as the
\* prior.
GoodMemory(m) ==
  /\ m \in KnownType
  /\ m.count > 0 => GoodNode(m.best) /\ m.best.roi >= PriorRoi

RunType == [step  : {"idle", "propose", "learn", "persist", "deploy", "open", "write"},
            round : 0 .. Rounds,
            node  : Node \cup {None}]

\* Where a run holds a node, the node is fit; a run that is on its way found
\* a memory that was not empty.
GoodRun(q) ==
  /\ evolve[q].step \in {"learn", "open", "write"} => GoodNode(evolve[q].node)
  /\ evolve[q].step # "idle" => asi /\ known.count > 0

AsiInv ==
  /\ GoodMemory(known)
  /\ cognition \in {None, Torn} \/ GoodMemory(cognition)
  /\ evolve \in [Request -> RunType]
  /\ \A q \in Request : GoodRun(q)
  /\ asi \in BOOLEAN /\ runs \in 0 .. MaxRuns /\ crossed \in BOOLEAN

BothInv == SiaInv /\ AsiInv
-----------------------------------------------------------------------------
(* Proposals.                                                               *)

LEMMA NearestIsNat ==
  ASSUME NEW n \in Nat, NEW d \in Nat \ {0}
  PROVE  Nearest(n, d) \in Nat
<1>1. Nearest(n, d) \in Int /\ 2 * n <= 2 * (Nearest(n, d) * d) + d
  BY NearestIsNear
<1> DEFINE p == Nearest(n, d)
<1>2. p \in Int /\ 0 <= 2 * (p * d) + d
  BY <1>1
<1> HIDE DEF p
<1>3. ASSUME p < 0 PROVE FALSE
  <2>1. p * d <= -d
    BY <1>2, <1>3
  <2>2. p * d \in Int
    BY <1>2
  <2> QED
    BY <1>2, <2>1, <2>2
<1> QED
  BY <1>2, <1>3 DEF p

\* A proposal made from whole weights is a set of whole weights.
LEMMA ProposedIsWhole ==
  ASSUME NEW w \in [Model -> Nat], NEW boost \in Model, NEW trim \in Model \ {boost},
         NEW amount \in Amounts
  PROVE  Proposed(w, boost, trim, amount) \in [Model -> Nat]
         /\ NearOne(Proposed(w, boost, trim, amount))
<1> DEFINE more == Clamp(w[boost] + amount, 100, 5000)
           less == Clamp(w[trim] - amount, 100, 5000)
           c    == [w EXCEPT ![boost] = Clamp(@ + amount, 100, 5000),
                             ![trim]  = Clamp(@ - amount, 100, 5000)]
           T    == Total(c, Model)
           v    == Proposed(w, boost, trim, amount)
<1>1. amount \in Int
  BY EvolutionAssumption
<1>2. more \in 100 .. 5000 /\ less \in 100 .. 5000
  <2>1. PICK x \in Int, y \in Int : x = w[boost] + amount /\ y = w[trim] - amount
    BY <1>1
  <2>2. more = Clamp(x, 100, 5000) /\ less = Clamp(y, 100, 5000)
    BY <2>1
  <2> HIDE DEF more, less
  <2>3. more \in 100 .. 5000
    BY <2>2 DEF Clamp, Lower, Higher
  <2>4. less \in 100 .. 5000
    BY <2>2 DEF Clamp, Lower, Higher
  <2> QED
    BY <2>3, <2>4
<1>3. c = [w EXCEPT ![boost] = more, ![trim] = less]
  OBVIOUS
<1>4. v = [m \in Model |-> Nearest(c[m] * Unit, T)]
  BY DEF Proposed
<1> HIDE DEF c, more, less, v
<1>5. c \in [Model -> Nat] /\ c[boost] >= 100
  BY <1>2, <1>3
<1>6. IsFiniteSet(Model)
  BY ModelAssumption
<1>7. T \in Nat \ {0}
  <2>1. T = c[boost] + SumFunctionOnSet(c, Model \ {boost})
    BY <1>5, <1>6, SumTake DEF Total
  <2>2. SumFunctionOnSet(c, Model \ {boost}) \in Nat
    <3>1. IsFiniteSet(Model \ {boost})
      BY <1>6, FS_Subset
    <3> QED
      BY <1>5, <3>1, SumNat
  <2> QED
    BY <1>5, <2>1, <2>2
<1>8. T = SumFunctionOnSet(c, Model)
  BY DEF Total
<1> HIDE DEF T
<1>9. \A m \in Model : c[m] \in Nat /\ v[m] = Nearest(c[m] * Unit, T)
  BY <1>4, <1>5
<1>10. /\ 2 * (SumFunctionOnSet(v, Model) - Unit) <= Cardinality(Model)
       /\ 2 * (Unit - SumFunctionOnSet(v, Model)) <= Cardinality(Model)
  <2>1. Unit \in Int
    BY DEF Unit
  <2> QED
    BY <1>6, <1>7, <1>8, <1>9, <2>1, SharesAddUp
<1>11. v \in [Model -> Nat]
  <2>1. ASSUME NEW m \in Model PROVE v[m] \in Nat
    <3>1. c[m] * Unit \in Nat
      BY <1>9 DEF Unit
    <3> QED
      BY <1>7, <1>9, <3>1, NearestIsNat
  <2> QED
    BY <1>4, <2>1
<1> QED
  BY <1>10, <1>11 DEF NearOne, Total, v

LEMMA SteppedInRange ==
  ASSUME NEW p, InRange(p), NEW e \in {-1, 0, 1}, NEW k \in {-1, 0, 1}
  PROVE  InRange(Stepped(p, e, k))
<1>1. p.edge \in 10 .. 150 /\ p.kelly \in 50 .. 250
  BY DEF InRange
<1>2. Clamp(p.edge + 10 * e, 20, 150) \in 10 .. 150
  BY <1>1 DEF Clamp, Lower, Higher
<1>3. Clamp(p.kelly + 20 * k, 50, 250) \in 50 .. 250
  BY <1>1 DEF Clamp, Lower, Higher
<1> QED
  BY <1>2, <1>3 DEF Stepped, InRange

LEMMA PriorsAreGood == GoodMemory(Priors)
<1> DEFINE n == [weights |-> PriorWeights, params |-> [edge |-> 50, kelly |-> 150],
                 roi |-> PriorRoi]
<1>1. NearOne(PriorWeights)
  <2>1. Cardinality(Model) \in Nat
    BY ModelAssumption, FS_CardinalityType
  <2>2. PriorWeights \in [Model -> Int] /\ Total(PriorWeights, Model) = Unit
    BY EvolutionAssumption
  <2> QED
    BY <2>1, <2>2 DEF NearOne, Unit
<1>2. InRange([edge |-> 50, kelly |-> 150])
  BY DEF InRange
<1>3. n \in Node
  BY <1>2, EvolutionAssumption, InRangeIsParams DEF Node, PriorRoi
<1>4. GoodNode(n) /\ n.roi >= PriorRoi
  BY <1>1, <1>2, <1>3 DEF GoodNode, PriorRoi
<1>5. Priors = [count |-> 2, best |-> n]
  BY DEF Priors, Memory
<1> HIDE DEF n
<1> QED
  BY <1>3, <1>4, <1>5 DEF GoodMemory, KnownType

LEMMA NothingIsGood == GoodMemory(Nothing)
  BY DEF Nothing, Memory, GoodMemory, KnownType

\* A node more, good or bad, leaves a memory good.
LEMMA LearningKeepsGood ==
  ASSUME NEW m, GoodMemory(m), m.count > 0, NEW n, GoodNode(n)
  PROVE  GoodMemory(Memory(m.count + 1, BestOf(m.best, n)))
         /\ Memory(m.count + 1, BestOf(m.best, n)).count > 0
<1>1. GoodNode(m.best) /\ m.best.roi >= PriorRoi /\ m.best.roi \in Int /\ n.roi \in Int
  BY DEF GoodMemory, GoodNode, Node
<1>2. GoodNode(BestOf(m.best, n)) /\ BestOf(m.best, n).roi >= PriorRoi
  BY <1>1 DEF BestOf, PriorRoi
<1>3. m.count \in Nat /\ BestOf(m.best, n) \in Node
  BY <1>2 DEF GoodMemory, KnownType, GoodNode
<1> QED
  BY <1>2, <1>3 DEF GoodMemory, Memory, KnownType
-----------------------------------------------------------------------------
(* The steps.                                                               *)

LEMMA WorkingType ==
  ASSUME NEW s \in {"idle", "propose", "learn", "persist", "deploy", "open", "write"},
         NEW r \in 0 .. Rounds, NEW n \in Node \cup {None}
  PROVE  /\ Working(s, r, n) \in RunType
         /\ Working(s, r, n).step = s /\ Working(s, r, n).round = r /\ Working(s, r, n).node = n
  BY DEF Working, RunType

LEMMA BothInitInv == BothInit => BothInv
<1> SUFFICES ASSUME BothInit PROVE BothInv
  OBVIOUS
<1>1. SiaInv
  BY SiaInitInv DEF BothInit
<1>2. Resting \in RunType /\ Resting.step = "idle"
  <2>1. 0 \in 0 .. Rounds
    BY EvolutionAssumption
  <2> QED
    BY <2>1, WorkingType DEF Resting
<1>3. evolve \in [Request -> RunType] /\ \A q \in Request : evolve[q].step = "idle"
  BY <1>2 DEF BothInit
<1>4. 0 \in 0 .. MaxRuns
  BY EvolutionAssumption
<1>5. AsiInv
  BY <1>3, <1>4, NothingIsGood DEF BothInit, AsiInv, GoodRun
<1> QED
  BY <1>1, <1>5 DEF BothInv

\* What the ASI process writes to the two files leaves the bot's process with
\* what it can start from.
LEMMA FilesKept ==
  ASSUME SiaInv, UNCHANGED <<up, learned, attribute, params, cycle, cycles, tunings>>,
         saved' \in {saved, Torn} \/ InRange(saved'),
         weights' = weights \/ NearOne(weights')
  PROVE  SiaInv'
<1>1. ParamsInv'
  BY DEF SiaInv, ParamsInv, Holds
<1>2. SumsInv'
  BY DEF SiaInv, SumsInv, NearOne, Total
<1>3. saved' \in Params \cup {None, Torn}
  BY <1>1, InRangeIsParams DEF ParamsInv
<1>4. weights' \in [Model -> Int] \cup {None}
  BY NearOneIsWeighing DEF SiaInv, TypeOK
<1>5. TypeOK'
  BY <1>3, <1>4 DEF SiaInv, TypeOK
<1> QED
  BY <1>1, <1>2, <1>5 DEF SiaInv

LEMMA SiaRests == ASSUME SiaInv, UNCHANGED sia PROVE SiaInv'
  BY SiaStepInv DEF sia

\* A run goes on with a record that is fit; what the process knows is good
\* and still there.
LEMMA MovesOn ==
  ASSUME AsiInv, NEW q \in Request,
         NEW s \in {"idle", "propose", "learn", "persist", "deploy", "open", "write"},
         NEW r \in 0 .. Rounds, NEW n \in Node \cup {None},
         Turn(q, Working(s, r, n)), asi' = asi,
         GoodMemory(known'), known.count > 0 => known'.count > 0,
         cognition' \in {None, Torn} \/ GoodMemory(cognition'),
         s \in {"learn", "open", "write"} => GoodNode(n),
         s # "idle" => asi /\ known.count > 0,
         runs' \in 0 .. MaxRuns, crossed' \in BOOLEAN
  PROVE  AsiInv'
<1> DEFINE c == Working(s, r, n)
<1>1. evolve' = [evolve EXCEPT ![q] = c]
  BY DEF Turn
<1>2. c \in RunType /\ c.step = s /\ c.node = n
  BY WorkingType
<1> HIDE DEF c
<1>3. evolve \in [Request -> RunType]
  BY DEF AsiInv
<1>4. evolve' \in [Request -> RunType]
  BY <1>1, <1>2, <1>3
<1>5. ASSUME NEW p \in Request PROVE GoodRun(p)'
  <2>1. CASE p = q
    BY <1>1, <1>2, <1>3, <2>1 DEF GoodRun
  <2>2. CASE p # q
    <3>1. evolve'[p] = evolve[p] /\ GoodRun(p)
      BY <1>1, <1>3, <2>2 DEF AsiInv
    <3> QED
      BY <3>1 DEF GoodRun
  <2> QED
    BY <2>1, <2>2
<1> QED
  BY <1>4, <1>5 DEF AsiInv

LEMMA AsiStep ==
  ASSUME BothInv, NEW q \in Request, Step(q)
  PROVE  BothInv'
<1>0. /\ SiaInv /\ AsiInv /\ GoodMemory(known) /\ GoodRun(q)
      /\ cognition \in {None, Torn} \/ GoodMemory(cognition)
      /\ runs \in 0 .. MaxRuns /\ crossed \in BOOLEAN
      /\ evolve[q].round \in 0 .. Rounds /\ evolve[q].node \in Node \cup {None}
  BY DEF BothInv, AsiInv, RunType
<1>r. Rounds \in Nat \ {0} /\ MaxRuns \in Nat
  BY EvolutionAssumption
<1>n. None \in Node \cup {None} /\ 1 \in 0 .. Rounds /\ 0 \in 0 .. Rounds
  BY <1>r
<1>1. CASE Begin(q)
  <2>1. SiaInv'
    BY <1>0, <1>1, SiaRests DEF Begin
  <2>2. /\ asi /\ known.count > 0 /\ runs < MaxRuns /\ runs' = runs + 1
        /\ Turn(q, Working("propose", 1, None))
        /\ UNCHANGED <<asi, known, cognition, crossed>>
    BY <1>1 DEF Begin, In
  <2>3. runs' \in 0 .. MaxRuns
    BY <1>0, <1>r, <2>2
  <2>4. GoodMemory(known') /\ (cognition' \in {None, Torn} \/ GoodMemory(cognition'))
    BY <1>0, <2>2
  <2>5. AsiInv'
    BY <1>0, <1>n, <2>2, <2>3, <2>4, MovesOn
  <2> QED
    BY <2>1, <2>5 DEF BothInv
<1>2. CASE Propose(q)
  <2>1. SiaInv'
    BY <1>0, <1>2, SiaRests DEF Propose
  <2>2. PICK boost \in Model : \E trim \in Model \ {boost} : \E amount \in Amounts :
             \E e, k \in {-1, 0, 1} : \E roi \in Rois :
               Turn(q, Working("learn", evolve[q].round,
                 [weights |-> Proposed(known.best.weights, boost, trim, amount),
                  params |-> Stepped(known.best.params, e, k), roi |-> roi]))
    BY <1>2 DEF Propose
  <2>3. PICK trim \in Model \ {boost} : \E amount \in Amounts :
             \E e, k \in {-1, 0, 1} : \E roi \in Rois :
               Turn(q, Working("learn", evolve[q].round,
                 [weights |-> Proposed(known.best.weights, boost, trim, amount),
                  params |-> Stepped(known.best.params, e, k), roi |-> roi]))
    BY <2>2
  <2>4. PICK amount \in Amounts, e \in {-1, 0, 1}, k \in {-1, 0, 1}, roi \in Rois :
               Turn(q, Working("learn", evolve[q].round,
                 [weights |-> Proposed(known.best.weights, boost, trim, amount),
                  params |-> Stepped(known.best.params, e, k), roi |-> roi]))
    BY <2>3
  <2> DEFINE w == Proposed(known.best.weights, boost, trim, amount)
             p == Stepped(known.best.params, e, k)
             n == [weights |-> w, params |-> p, roi |-> roi]
  <2>5. asi /\ known.count > 0
    BY <1>0, <1>2 DEF Propose, In, GoodRun
  <2>6. GoodNode(known.best)
    BY <1>0, <2>5 DEF GoodMemory
  <2>7. w \in [Model -> Nat] /\ NearOne(w)
    <3>1. known.best.weights \in [Model -> Nat]
      BY <2>6 DEF GoodNode, Node
    <3> QED
      BY <3>1, ProposedIsWhole
  <2>8. InRange(p)
    BY <2>6, SteppedInRange DEF GoodNode
  <2>9. roi \in Int
    BY EvolutionAssumption
  <2>10. Turn(q, Working("learn", evolve[q].round, n))
    BY <2>4
  <2> HIDE DEF w, p
  <2>11. GoodNode(n)
    <3>1. n \in Node
      BY <2>7, <2>8, <2>9, InRangeIsParams DEF Node
    <3> QED
      BY <2>7, <2>8, <3>1 DEF GoodNode
  <2>12. n \in Node \cup {None}
    BY <2>11 DEF GoodNode
  <2>13. UNCHANGED <<asi, known, cognition, runs, crossed>>
    BY <1>2 DEF Propose
  <2>14. GoodMemory(known') /\ (cognition' \in {None, Torn} \/ GoodMemory(cognition'))
         /\ runs' \in 0 .. MaxRuns /\ crossed' \in BOOLEAN
    BY <1>0, <2>13
  <2> HIDE DEF n
  <2>15. AsiInv'
    BY <1>0, <2>5, <2>10, <2>11, <2>12, <2>13, <2>14, MovesOn
  <2> QED
    BY <2>1, <2>15 DEF BothInv
<1>3. CASE Learn(q)
  <2>1. SiaInv'
    BY <1>0, <1>3, SiaRests DEF Learn
  <2>2. GoodNode(evolve[q].node) /\ asi /\ known.count > 0
    BY <1>0, <1>3 DEF Learn, In, GoodRun
  <2>3. GoodMemory(known') /\ known'.count > 0
    BY <1>0, <1>3, <2>2, LearningKeepsGood DEF Learn
  <2>4. /\ Turn(q, Working("persist", evolve[q].round, evolve[q].node))
        /\ cognition' = Torn /\ UNCHANGED <<asi, runs, crossed>>
    BY <1>3 DEF Learn, Then
  <2>5. AsiInv'
    BY <1>0, <2>2, <2>3, <2>4, MovesOn
  <2> QED
    BY <2>1, <2>5 DEF BothInv
<1>4. CASE Persist(q)
  <2>1. SiaInv'
    BY <1>0, <1>4, SiaRests DEF Persist
  <2>2. asi /\ known.count > 0
    BY <1>0, <1>4 DEF Persist, In, GoodRun
  <2>3. PICK s, r : /\ s \in {"propose", "deploy"} /\ r \in 0 .. Rounds
                    /\ AfterRound(evolve[q].round) = Working(s, r, None)
    <3>1. CASE evolve[q].round < Rounds
      <4>1. AfterRound(evolve[q].round) = Working("propose", evolve[q].round + 1, None)
        BY <3>1 DEF AfterRound
      <4>2. evolve[q].round + 1 \in 0 .. Rounds
        BY <1>0, <1>r, <3>1
      <4> QED
        BY <4>1, <4>2
    <3>2. CASE ~(evolve[q].round < Rounds)
      BY <1>0, <3>2 DEF AfterRound
    <3> QED
      BY <3>1, <3>2
  <2>4. /\ Turn(q, Working(s, r, None))
        /\ cognition' = known /\ UNCHANGED <<asi, known, runs, crossed>>
    BY <1>4, <2>3 DEF Persist
  <2>5. GoodMemory(known') /\ GoodMemory(cognition')
    BY <1>0, <2>4
  <2>6. AsiInv'
    BY <1>0, <1>n, <2>2, <2>3, <2>4, <2>5, MovesOn
  <2> QED
    BY <2>1, <2>6 DEF BothInv
<1>5. CASE Deploy(q)
  <2>1. GoodNode(known.best) /\ asi /\ known.count > 0
    BY <1>0, <1>5 DEF Deploy, In, GoodRun, GoodMemory
  <2>2. NearOne(known.best.weights) /\ known.best \in Node \cup {None}
    BY <2>1 DEF GoodNode
  <2>3. /\ weights' \in {weights, known.best.weights}
        /\ UNCHANGED <<up, memory, saved, cycle, cycles, tunings>>
        /\ Turn(q, Working("open", evolve[q].round, known.best))
        /\ UNCHANGED <<asi, known, cognition, runs, crossed>>
    BY <1>5 DEF Deploy
  <2>4. SiaInv'
    BY <1>0, <2>2, <2>3, FilesKept DEF memory
  <2>5. GoodMemory(known') /\ (cognition' \in {None, Torn} \/ GoodMemory(cognition'))
    BY <1>0, <2>3
  <2>6. AsiInv'
    BY <1>0, <2>1, <2>2, <2>3, <2>5, MovesOn
  <2> QED
    BY <2>4, <2>6 DEF BothInv
<1>6. CASE DeployOpen(q)
  <2>1. GoodNode(evolve[q].node) /\ asi /\ known.count > 0
    BY <1>0, <1>6 DEF DeployOpen, In, GoodRun
  <2>2. /\ saved' = Torn /\ UNCHANGED <<up, memory, weights, cycle, cycles, tunings>>
        /\ Turn(q, Working("write", evolve[q].round, evolve[q].node))
        /\ crossed' = (crossed \/ SiaWrites)
        /\ UNCHANGED <<asi, known, cognition, runs>>
    BY <1>6 DEF DeployOpen, Then
  <2>3. SiaInv'
    BY <1>0, <2>2, FilesKept DEF memory
  <2>4. GoodMemory(known') /\ (cognition' \in {None, Torn} \/ GoodMemory(cognition'))
    BY <1>0, <2>2
  <2>5. crossed' \in BOOLEAN
    BY <1>0, <2>2, Zenon
  <2>6. AsiInv'
    BY <1>0, <2>1, <2>2, <2>4, <2>5, MovesOn
  <2> QED
    BY <2>3, <2>6 DEF BothInv
<1>7. CASE DeployWrite(q)
  <2>1. InRange(saved')
    BY <1>0, <1>7 DEF DeployWrite, In, GoodRun, GoodNode
  <2>2. /\ UNCHANGED <<up, memory, weights, cycle, cycles, tunings>>
        /\ Turn(q, Working("idle", 0, None))
        /\ UNCHANGED <<asi, known, cognition, runs, crossed>>
    BY <1>7 DEF DeployWrite, Resting
  <2>3. SiaInv'
    BY <1>0, <2>1, <2>2, FilesKept DEF memory
  <2>4. GoodMemory(known') /\ (cognition' \in {None, Torn} \/ GoodMemory(cognition'))
    BY <1>0, <2>2
  <2>5. AsiInv'
    BY <1>0, <1>n, <2>2, <2>4, MovesOn
  <2> QED
    BY <2>3, <2>5 DEF BothInv
<1>8. CASE Abort(q)
  <2>1. SiaInv'
    BY <1>0, <1>8, SiaRests DEF Abort
  <2>2. asi /\ known.count > 0
    BY <1>0, <1>8 DEF Abort, In, GoodRun
  <2>3. /\ Turn(q, Working("idle", 0, None))
        /\ UNCHANGED <<asi, known, cognition, runs, crossed>>
    BY <1>8 DEF Abort, Resting
  <2>4. GoodMemory(known') /\ (cognition' \in {None, Torn} \/ GoodMemory(cognition'))
    BY <1>0, <2>3
  <2>5. AsiInv'
    BY <1>0, <1>n, <2>2, <2>3, <2>4, MovesOn
  <2> QED
    BY <2>1, <2>5 DEF BothInv
<1> QED
  BY <1>1, <1>2, <1>3, <1>4, <1>5, <1>6, <1>7, <1>8 DEF Step

LEMMA BothStepInv == BothInv /\ [BothNext]_all => BothInv'
<1> SUFFICES ASSUME BothInv, [BothNext]_all PROVE BothInv'
  OBVIOUS
<1>0. SiaInv /\ AsiInv
  BY DEF BothInv
<1>1. CASE Bot
  <2>1. [Next]_vars
    BY <1>1 DEF Bot, Next
  <2>2. SiaInv'
    BY <1>0, <2>1, SiaStepInv
  <2>3. UNCHANGED <<asi, known, cognition, evolve, runs>>
    BY <1>1 DEF Bot
  <2>4. crossed' \in BOOLEAN
    BY <1>1, Zenon DEF Bot, BothInv, AsiInv
  <2> QED
    BY <1>0, <2>2, <2>3, <2>4 DEF BothInv, AsiInv, GoodRun
<1>2. ASSUME NEW q \in Request, Step(q) PROVE BothInv'
  BY <1>2, AsiStep
<1>3. CASE Garble
  <2>1. SiaInv'
    BY <1>0, <1>3, FilesKept DEF Garble, memory
  <2> QED
    BY <1>0, <1>3, <2>1 DEF Garble, BothInv, AsiInv, GoodRun
<1>4. CASE CrashAsi
  <2>1. SiaInv'
    BY <1>0, <1>4, SiaRests DEF CrashAsi
  <2>2. Resting \in RunType /\ Resting.step = "idle"
    <3>1. 0 \in 0 .. Rounds
      BY EvolutionAssumption
    <3> QED
      BY <3>1, WorkingType DEF Resting
  <2>3. /\ evolve' \in [Request -> RunType] /\ \A q \in Request : evolve'[q].step = "idle"
        /\ asi' = FALSE /\ known' = Nothing /\ UNCHANGED <<cognition, runs, crossed>>
    BY <1>4, <2>2 DEF CrashAsi
  <2>4. AsiInv'
    BY <1>0, <2>3, NothingIsGood DEF AsiInv, GoodRun
  <2> QED
    BY <2>1, <2>4 DEF BothInv
<1>5. CASE StartAsi
  <2>1. SiaInv'
    BY <1>0, <1>5, SiaRests DEF StartAsi
  <2>2. GoodMemory(known')
    BY <1>0, <1>5, PriorsAreGood, NothingIsGood DEF StartAsi, AsiInv
  <2>3. cognition' \in {None, Torn} \/ GoodMemory(cognition')
    BY <1>0, <1>5, PriorsAreGood DEF StartAsi, AsiInv
  <2>4. \A q \in Request : evolve[q].step = "idle"
    BY <1>0, <1>5 DEF StartAsi, AsiInv, GoodRun
  <2>5. asi' = TRUE /\ UNCHANGED <<evolve, runs, crossed>>
    BY <1>5 DEF StartAsi
  <2> QED
    BY <1>0, <2>1, <2>2, <2>3, <2>4, <2>5 DEF BothInv, AsiInv, GoodRun
<1>6. CASE UNCHANGED all
  <2>1. SiaInv'
    BY <1>0, <1>6, SiaRests DEF all
  <2> QED
    BY <1>0, <1>6, <2>1 DEF all, mine, BothInv, AsiInv, GoodRun
<1>7. CASE CrashSeeding
  <2>1. SiaInv'
    BY <1>0, <1>7, SiaRests DEF CrashSeeding
  <2> QED
    BY <1>0, <1>7, <2>1 DEF CrashSeeding, BothInv, AsiInv, GoodRun
<1> QED
  BY <1>1, <1>2, <1>3, <1>4, <1>5, <1>6, <1>7 DEF BothNext

\* Whatever the ASI process writes beside the bot, and wherever either dies,
\* every variable of both holds what the code expects there.
THEOREM EvolutionTypesHold == BothSpec => []EvolutionTypeOK
<1>1. BothInv => EvolutionTypeOK
  BY DEF BothInv, SiaInv, AsiInv, GoodMemory, RunType, EvolutionTypeOK
<1> QED
  BY BothInitInv, BothStepInv, <1>1, PTL DEF BothSpec

\* Whatever the ASI process writes beside the bot, and wherever either dies,
\* the parameters the bot works with stay within their limits.
THEOREM EvolvedParamsInRange == BothSpec => []ParamsInRange
<1>1. BothInv => ParamsInRange
  BY DEF BothInv, SiaInv, ParamsInv, InRange, ParamsInRange
<1> QED
  BY BothInitInv, BothStepInv, <1>1, PTL DEF BothSpec

\* The weights the bot works with add up to one although the ASI process
\* draws some of them and both processes write the file they start from.
THEOREM EvolvedWeightsWhole == BothSpec => []WeightsSumToOne
<1>1. BothInv => WeightsSumToOne
  BY SiaInvIsWhole DEF BothInv
<1> QED
  BY BothInitInv, BothStepInv, <1>1, PTL DEF BothSpec

\* What a run starts from and deploys was never worse than the prior.
THEOREM NeverBelowPrior == BothSpec => []NeverWorseThanPrior
<1>1. BothInv => NeverWorseThanPrior
  BY DEF BothInv, AsiInv, GoodMemory, NeverWorseThanPrior
<1> QED
  BY BothInitInv, BothStepInv, <1>1, PTL DEF BothSpec
=============================================================================

------------------------------ MODULE SiaProofs ------------------------------
(* The weights and the betting parameters, proved for any number of models  *)
(* and of threads that run cycles, any scores and results and a crash       *)
(* between any two steps.                                                   *)
EXTENDS Sia, SumProofs, TLAPS

InRange(p) == p \in [edge : 10 .. 150, kelly : 50 .. 250]

\* A runner that is about to write holds parameters that are in range.
Holds(r) == cycle[r].step \in {"open", "write"} => InRange(cycle[r].params)

\* What is in use, what a restart would read and what a runner has yet to
\* write are all in range: a crash between any two steps, and a write that
\* comes after another runner has tuned again, bring back nothing else.
ParamsInv ==
  /\ InRange(params)
  /\ saved \in {None, Torn} \/ InRange(saved)
  /\ cycle = [r \in Runner |-> [step    |-> cycle[r].step,
                                weights |-> cycle[r].weights,
                                params  |-> cycle[r].params]]
  /\ \A r \in Runner : Holds(r)

\* A step of tuning stays in range, whatever the results.
LEMMA TuningInRange ==
  ASSUME NEW s \in Summaries, NEW p, InRange(p)
  PROVE  InRange([edge |-> TunedEdge(p.edge, s), kelly |-> TunedKelly(p.kelly, s)])
<1>1. s.win \in Int /\ s.roi \in Int
  BY ParamsAssumption
<1>2. p.edge \in 10 .. 150 /\ p.kelly \in 50 .. 250
  BY DEF InRange
<1>3. TunedEdge(p.edge, s) \in 10 .. 150
  BY <1>1, <1>2 DEF TunedEdge, Lower, Higher
<1>4. TunedKelly(p.kelly, s) \in 50 .. 250
  BY <1>1, <1>2 DEF TunedKelly, Lower, Higher
<1> QED
  BY <1>3, <1>4 DEF InRange

LEMMA InitInv == Init => ParamsInv
  BY ParamsAssumption DEF Init, ParamsInv, InRange, Holds, Idle, Doing

LEMMA StepInv == ParamsInv /\ [Next]_vars => ParamsInv'
<1> SUFFICES ASSUME ParamsInv, [Next]_vars PROVE ParamsInv'
  OBVIOUS
<1> USE DEF ParamsInv, Holds
<1>1. ASSUME NEW r \in Runner, Optimize(r) PROVE ParamsInv'
  <2>1. PICK w : cycle' = [cycle EXCEPT ![r] = Doing("save", w, None)]
    BY <1>1 DEF Optimize
  <2>2. UNCHANGED <<params, saved>>
    BY <1>1 DEF Optimize, memory, files
  <2> QED
    BY <2>1, <2>2 DEF Doing
<1>2. ASSUME NEW r \in Runner, SkipWeights(r) PROVE ParamsInv'
  BY <1>2 DEF SkipWeights, At, Goto, memory, files
<1>3. ASSUME NEW r \in Runner, Save(r) PROVE ParamsInv'
  BY <1>3 DEF Save, At, Goto, memory
<1>4. ASSUME NEW r \in Runner, Use(r) PROVE ParamsInv'
  BY <1>4 DEF Use, At, Doing, files
<1>5. ASSUME NEW r \in Runner, Tune(r) PROVE ParamsInv'
  <2>1. InRange(params')
    BY <1>5, TuningInRange DEF Tune
  <2>2. /\ saved' = saved
        /\ cycle' = [cycle EXCEPT ![r] = Doing("open", None, params')]
    BY <1>5 DEF Tune, files
  <2> QED
    BY <2>1, <2>2 DEF Doing
<1>6. ASSUME NEW r \in Runner, Open(r) PROVE ParamsInv'
  BY <1>6 DEF Open, At, Goto, memory
<1>7. ASSUME NEW r \in Runner, Write(r) PROVE ParamsInv'
  <2>1. InRange(saved')
    BY <1>7 DEF Write, At
  <2> QED
    BY <1>7, <2>1 DEF Write, Idle, Doing, memory
<1>8. CASE Crash
  BY <1>8 DEF Crash, Idle, Doing, memory, files
<1>9. CASE Start
  <2>1. InRange(params')
    BY <1>9, ParamsAssumption DEF Start, InRange
  <2> QED
    BY <1>9, <2>1 DEF Start, files
<1>10. CASE NextDay
  BY <1>10 DEF NextDay, memory, files
<1>11. CASE UNCHANGED vars
  BY <1>11 DEF vars, memory, files
<1>12. ASSUME NEW r \in Runner, SkipTuning(r) PROVE ParamsInv'
  BY <1>12 DEF SkipTuning, Idle, Doing, memory, files
<1> QED
  BY <1>1, <1>2, <1>3, <1>4, <1>5, <1>6, <1>7, <1>8, <1>9, <1>10, <1>11, <1>12
     DEF Next, Cycle

\* Neither a run of bad results nor a crash in the middle of a write takes
\* min_edge or kelly_fraction out of the limits optimize_strategy_params sets.
THEOREM ParamsStayInRange == Spec => []ParamsInRange
<1>1. ParamsInv => ParamsInRange
  BY DEF ParamsInv, InRange, ParamsInRange
<1> QED
  BY InitInv, StepInv, <1>1, PTL DEF Spec
-----------------------------------------------------------------------------
(* The weights.                                                             *)

\* What rounding to the nearest whole number loses.
LEMMA NearestIsNear ==
  ASSUME NEW n \in Int, NEW d \in Nat \ {0}
  PROVE  /\ Nearest(n, d) \in Int
         /\ 2 * (Nearest(n, d) * d) <= 2 * n + d
         /\ 2 * n <= 2 * (Nearest(n, d) * d) + d
<1> DEFINE q == (2 * n + d) \div (2 * d)
<1>1. ASSUME NEW y \in Int, NEW e \in Nat \ {0}
      PROVE  y \div e \in Int /\ (y \div e) * e <= y /\ y < (y \div e) * e + e
  OBVIOUS
<1>2. q \in Int /\ q * (2 * d) <= 2 * n + d /\ 2 * n + d < q * (2 * d) + 2 * d
  <2> DEFINE y == 2 * n + d
             e == 2 * d
  <2>1. y \in Int /\ e \in Nat \ {0} /\ q = y \div e
    OBVIOUS
  <2> HIDE DEF y, e, q
  <2>2. q \in Int /\ q * e <= y /\ y < q * e + e
    BY <1>1, <2>1
  <2> QED
    BY <2>2 DEF y, e
<1> HIDE DEF q
<1>3. q * (2 * d) = 2 * (q * d)
  BY <1>2
<1>4. q * d \in Int
  BY <1>2
<1> DEFINE P == q * d
<1>5. P \in Int /\ 2 * P <= 2 * n + d /\ 2 * n + d < 2 * P + 2 * d
  BY <1>2, <1>3, <1>4
<1> HIDE DEF P
<1>6. 2 * P <= 2 * n + d /\ 2 * n <= 2 * P + d
  BY <1>5
<1> QED
  BY <1>2, <1>6 DEF P, q, Nearest

\* A budget shared out in proportion and rounded is spent to within half a
\* unit for each share.
LEMMA SharesAddUp ==
  ASSUME NEW S, IsFiniteSet(S), NEW c, \A m \in S : c[m] \in Nat, NEW B \in Int,
         NEW T \in Nat \ {0}, T = SumFunctionOnSet(c, S),
         NEW s, \A m \in S : s[m] = Nearest(c[m] * B, T)
  PROVE  /\ SumFunctionOnSet(s, S) \in Int
         /\ 2 * (SumFunctionOnSet(s, S) - B) <= Cardinality(S)
         /\ 2 * (B - SumFunctionOnSet(s, S)) <= Cardinality(S)
<1> DEFINE half  == [m \in S |-> T]
           got   == [m \in S |-> (2 * T) * s[m]]
           asked == [m \in S |-> (2 * B) * c[m]]
           over  == [m \in S |-> asked[m] + half[m]]
           back  == [m \in S |-> got[m] + half[m]]
           X     == SumFunctionOnSet(s, S)
           n     == Cardinality(S)
<1>1. ASSUME NEW m \in S
      PROVE  s[m] \in Int /\ got[m] \in Int /\ asked[m] \in Int
             /\ got[m] <= over[m] /\ asked[m] <= back[m]
  <2>1. c[m] \in Int /\ c[m] * B \in Int
    OBVIOUS
  <2>2. /\ s[m] \in Int
        /\ 2 * (s[m] * T) <= 2 * (c[m] * B) + T
        /\ 2 * (c[m] * B) <= 2 * (s[m] * T) + T
    BY <2>1, NearestIsNear
  <2>3. (2 * T) * s[m] = 2 * (s[m] * T) /\ (2 * B) * c[m] = 2 * (c[m] * B)
    BY <2>1, <2>2
  <2>4. got[m] = 2 * (s[m] * T) /\ asked[m] = 2 * (c[m] * B)
    BY <2>3
  <2>5. s[m] * T \in Int
    BY <2>2
  <2> QED
    BY <2>1, <2>2, <2>4, <2>5
<1>2. \A m \in S : half[m] \in Int /\ half[m] = T
  OBVIOUS
<1>3. X \in Int /\ n \in Nat
  BY <1>1, SumInt, FS_CardinalityType
<1>4. SumFunctionOnSet(got, S) = (2 * T) * X
  <2>1. \A m \in S : s[m] \in Int /\ got[m] = (2 * T) * s[m]
    BY <1>1
  <2> HIDE DEF got
  <2> QED
    BY <2>1, SumScale, 2 * T \in Int
<1>5. SumFunctionOnSet(asked, S) = (2 * B) * T
  <2>1. \A m \in S : c[m] \in Int /\ asked[m] = (2 * B) * c[m]
    OBVIOUS
  <2> HIDE DEF asked
  <2> QED
    BY <2>1, SumScale, 2 * B \in Int
<1>6. SumFunctionOnSet(half, S) = T * n
  <2> HIDE DEF half
  <2> QED
    BY <1>2, SumConstant
<1>7. SumFunctionOnSet(over, S) = SumFunctionOnSet(asked, S) + SumFunctionOnSet(half, S)
  <2>1. \A m \in S : asked[m] \in Int /\ half[m] \in Int /\ over[m] = asked[m] + half[m]
    BY <1>1, <1>2
  <2> HIDE DEF asked, half, over
  <2> QED
    BY <2>1, SumPlus
<1>8. SumFunctionOnSet(back, S) = SumFunctionOnSet(got, S) + SumFunctionOnSet(half, S)
  <2>1. \A m \in S : got[m] \in Int /\ half[m] \in Int /\ back[m] = got[m] + half[m]
    BY <1>1, <1>2
  <2> HIDE DEF got, half, back
  <2> QED
    BY <2>1, SumPlus
<1>9. /\ SumFunctionOnSet(got, S) <= SumFunctionOnSet(over, S)
      /\ SumFunctionOnSet(asked, S) <= SumFunctionOnSet(back, S)
  <2>1. \A m \in S : /\ got[m] \in Int /\ asked[m] \in Int
                     /\ over[m] \in Int /\ back[m] \in Int
                     /\ got[m] <= over[m] /\ asked[m] <= back[m]
    BY <1>1, <1>2
  <2> HIDE DEF got, asked, over, back
  <2> QED
    BY <2>1, SumMonotone
<1> HIDE DEF got, asked, over, back, half, X, n
<1>10. (2 * T) * X <= (2 * B) * T + T * n /\ (2 * B) * T <= (2 * T) * X + T * n
  BY <1>4, <1>5, <1>6, <1>7, <1>8, <1>9
<1>11. T * (2 * X - 2 * B - n) <= 0 /\ T * (2 * B - 2 * X - n) <= 0
  BY <1>3, <1>10
<1>12. ASSUME NEW k \in Int, T * k <= 0 PROVE k <= 0
  BY <1>12
<1>13. 2 * X - 2 * B - n <= 0 /\ 2 * B - 2 * X - n <= 0
  BY <1>3, <1>11, <1>12
<1> QED
  BY <1>3, <1>13 DEF X, n

\* The weights w add up to one, but for half a unit for each model.
NearOne(w) ==
  /\ w \in [Model -> Int]
  /\ 2 * (Total(w, Model) - Unit) <= Cardinality(Model)
  /\ 2 * (Unit - Total(w, Model)) <= Cardinality(Model)

\* However the models are frozen and scored, the new weights add up to one
\* again: the old rounding error is shared out and not carried over.
LEMMA OptimizedNearOne ==
  ASSUME NEW w, NearOne(w), NEW frozen \in SUBSET Model, NEW score \in [Model \ frozen -> Briers]
  PROVE  NearOne(Optimized(w, frozen, score))
<1> DEFINE S == Model \ frozen
           c == [m \in S |-> Complement(score[m])]
           T == SumFunctionOnSet(c, S)
           B == Budget(w, frozen)
           v == Optimized(w, frozen, score)
<1>1. IsFiniteSet(Model) /\ IsFiniteSet(S) /\ IsFiniteSet(frozen)
      /\ Cardinality(S) <= Cardinality(Model)
  BY ModelAssumption, FS_Subset
<1>2. Cardinality(S) \in Nat /\ Cardinality(Model) \in Nat
  BY <1>1, FS_CardinalityType
<1>3. \A m \in S : c[m] \in Nat /\ c[m] >= 100
  <2> SUFFICES ASSUME NEW m \in S PROVE c[m] \in Nat /\ c[m] >= 100
    OBVIOUS
  <2> HIDE DEF T, B, v, c
  <2>1. ASSUME NEW x \in Briers PROVE Complement(x) \in Nat /\ Complement(x) >= 100
    <3>1. x \in 0 .. Unit
      BY ModelAssumption
    <3> QED
      BY <3>1 DEF Complement, Unit
  <2>2. c[m] = Complement(score[m])
    BY DEF c
  <2>3. score[m] \in Briers
    OBVIOUS
  <2>4. Complement(score[m]) \in Nat /\ Complement(score[m]) >= 100
    BY <2>1, <2>3, Zenon
  <2> QED
    BY <2>2, <2>4, Zenon
<1>4. v = [m \in Model |-> IF m \in frozen THEN w[m] ELSE Nearest(c[m] * B, T)]
  BY DEF Optimized, SumFunction
<1>5. w \in [Model -> Int] /\ B \in Int /\ Total(w, frozen) \in Int /\ B = Unit - Total(w, frozen)
  <2>1. \A m \in frozen : w[m] \in Int
    BY DEF NearOne
  <2>2. SumFunctionOnSet(w, frozen) \in Int
    BY <1>1, <2>1, SumInt
  <2> QED
    BY <2>2 DEF NearOne, Budget, Total, Unit
<1> HIDE DEF c, B, v
<1>6. CASE S = {}
  <2>1. v = w
    BY <1>4, <1>5, <1>6
  <2> QED
    BY <2>1 DEF v
<1>7. CASE S # {}
  <2>1. T \in Nat \ {0}
    <3>1. PICK m : m \in S
      BY <1>7
    <3>2. T = c[m] + SumFunctionOnSet(c, S \ {m})
      BY <1>1, <1>3, <3>1, SumTake
    <3>3. SumFunctionOnSet(c, S \ {m}) \in Nat
      <4>1. IsFiniteSet(S \ {m})
        BY <1>1, FS_Subset
      <4> QED
        BY <1>3, <4>1, SumNat
    <3> QED
      BY <1>3, <3>1, <3>2, <3>3
  <2> HIDE DEF T
  <2>2. ASSUME NEW m \in S PROVE v[m] = Nearest(c[m] * B, T)
    BY <1>4
  <2>3. ASSUME NEW m \in S PROVE v[m] \in Int
    <3>1. c[m] * B \in Int
      BY <1>3, <1>5
    <3> QED
      BY <2>1, <2>2, <3>1, NearestIsNear
  <2>4. ASSUME NEW m \in frozen PROVE v[m] = w[m] /\ v[m] \in Int
    BY <1>4, <1>5
  <2>5. v \in [Model -> Int]
    <3>1. \A m \in Model : v[m] \in Int
      BY <2>3, <2>4
    <3>2. v = [m \in Model |-> v[m]]
      BY <1>4
    <3> QED
      BY <3>1, <3>2
  <2>6. /\ SumFunctionOnSet(v, S) \in Int
        /\ 2 * (SumFunctionOnSet(v, S) - B) <= Cardinality(S)
        /\ 2 * (B - SumFunctionOnSet(v, S)) <= Cardinality(S)
    <3>1. T = SumFunctionOnSet(c, S)
      BY DEF T
    <3>2. \A m \in S : c[m] \in Nat
      BY <1>3
    <3> HIDE DEF S
    <3> QED
      BY <1>1, <1>5, <2>1, <2>2, <3>1, <3>2, SharesAddUp
  <2>7. SumFunctionOnSet(v, frozen) = Total(w, frozen)
    BY <1>1, <2>4, SumSame DEF Total
  <2>8. Total(v, Model) = SumFunctionOnSet(v, frozen) + SumFunctionOnSet(v, S)
    <3>1. frozen \cup S = Model /\ frozen \cap S = {} /\ \A m \in frozen \cup S : v[m] \in Int
      BY <2>3, <2>4
    <3> HIDE DEF S
    <3> QED
      BY <1>1, <3>1, SumUnion DEF Total
  <2> DEFINE X == SumFunctionOnSet(v, S)
             F == Total(w, frozen)
             n == Cardinality(S)
             N == Cardinality(Model)
             V == Total(v, Model)
  <2>9. /\ X \in Int /\ F \in Int /\ n \in Nat /\ N \in Nat /\ n <= N /\ V = F + X
        /\ B = Unit - F /\ 2 * (X - B) <= n /\ 2 * (B - X) <= n
    BY <1>1, <1>2, <1>5, <2>6, <2>7, <2>8
  <2> HIDE DEF X, F, n, N, V
  <2>10. 2 * (V - Unit) <= N /\ 2 * (Unit - V) <= N
    BY <2>9 DEF Unit
  <2> QED
    BY <2>5, <2>10 DEF V, N, v, NearOne
<1> QED
  BY <1>6, <1>7

LEMMA DefaultNearOne == NearOne(Default)
<1>1. Cardinality(Model) \in Nat
  BY ModelAssumption, FS_CardinalityType
<1> QED
  BY <1>1, ModelAssumption, DefaultAssumption DEF NearOne, Unit
-----------------------------------------------------------------------------
(* Types and sums: an invariant.                                            *)

Weighing == [Model -> Int] \cup {None}
CycleType == [step    : {"idle", "save", "use", "tune", "open", "write"},
              weights : Weighing,
              params  : Params \cup {None}]

\* What is in use, what a restart would load and what a cycle is about to
\* save or use are all weights that add up to one.
SumsInv ==
  /\ NearOne(learned)
  /\ weights = None \/ NearOne(weights)
  /\ \A r \in Runner : cycle[r].step \in {"save", "use"} => NearOne(cycle[r].weights)

SiaInv == TypeOK /\ ParamsInv /\ SumsInv

LEMMA InRangeIsParams == ASSUME NEW p, InRange(p) PROVE p \in Params
  BY DEF InRange, Params

LEMMA NearOneIsWeighing == ASSUME NEW w, NearOne(w) PROVE w \in [Model -> Int] /\ w # None
  BY SiaBoundAssumption DEF NearOne

LEMMA DoingType ==
  ASSUME NEW s \in {"idle", "save", "use", "tune", "open", "write"}, NEW w \in Weighing,
         NEW p \in Params \cup {None}
  PROVE  /\ Doing(s, w, p) \in CycleType
         /\ Doing(s, w, p).step = s /\ Doing(s, w, p).weights = w /\ Doing(s, w, p).params = p
  BY DEF Doing, CycleType

\* The cycles of a state are still typed, and hold weights that add up to
\* one, when runner r goes on with a record that does.
LEMMA CyclesKept ==
  ASSUME cycle \in [Runner -> CycleType], SumsInv, NEW r \in Runner, NEW c \in CycleType,
         c.step \in {"save", "use"} => NearOne(c.weights),
         cycle' = [cycle EXCEPT ![r] = c]
  PROVE  /\ cycle' \in [Runner -> CycleType]
         /\ \A q \in Runner :
              cycle'[q].step \in {"save", "use"} => NearOne(cycle'[q].weights)
  BY DEF SumsInv

LEMMA SiaInitInv == Init => SiaInv
<1> SUFFICES ASSUME Init PROVE SiaInv
  OBVIOUS
<1>1. ParamsInv
  BY InitInv
<1>2. cycle = [r \in Runner |-> Doing("idle", None, None)]
  BY DEF Init, Idle
<1>3. None \in Weighing /\ None \in Params \cup {None}
  BY DEF Weighing
<1>4. Doing("idle", None, None) \in CycleType /\ Doing("idle", None, None).step = "idle"
  BY <1>3, DoingType
<1>5. cycle \in [Runner -> CycleType] /\ \A r \in Runner : cycle[r].step = "idle"
  BY <1>2, <1>4
<1>6. learned \in [Model -> Int] /\ weights \in [Model -> Int] \cup {None}
      /\ attribute \in [Model -> Int] \cup {None}
  BY DefaultNearOne, NearOneIsWeighing DEF Init
<1>7. params \in Params /\ saved \in Params \cup {None, Torn}
  BY <1>1, InRangeIsParams DEF ParamsInv
<1>8. up \in BOOLEAN /\ cycles \in Nat /\ tunings \in Nat
  BY DEF Init
<1>9. TypeOK
  BY <1>5, <1>6, <1>7, <1>8 DEF TypeOK, CycleType, Weighing
<1>10. SumsInv
  BY <1>5, DefaultNearOne DEF Init, SumsInv
<1> QED
  BY <1>1, <1>9, <1>10 DEF SiaInv

LEMMA SiaStepInv == SiaInv /\ [Next]_vars => SiaInv'
<1> SUFFICES ASSUME SiaInv, [Next]_vars PROVE SiaInv'
  OBVIOUS
<1>0. /\ up \in BOOLEAN /\ cycles \in Nat /\ tunings \in Nat
      /\ learned \in [Model -> Int] /\ attribute \in Weighing /\ weights \in Weighing
      /\ params \in Params /\ saved \in Params \cup {None, Torn}
      /\ cycle \in [Runner -> CycleType] /\ SumsInv /\ ParamsInv
  BY DEF SiaInv, TypeOK, CycleType, Weighing
<1>p. ParamsInv'
  BY <1>0, StepInv
<1>q. params' \in Params /\ saved' \in Params \cup {None, Torn}
  BY <1>p, InRangeIsParams DEF ParamsInv
<1>n. None \in Weighing /\ None \in Params \cup {None}
  BY DEF Weighing
\* What is left to show of a step.
<1> DEFINE Kept ==
      /\ up' \in BOOLEAN /\ cycles' \in Nat /\ tunings' \in Nat
      /\ attribute' \in Weighing
      /\ NearOne(learned')
      /\ weights' = None \/ NearOne(weights')
      /\ cycle' \in [Runner -> CycleType]
      /\ \A r \in Runner : cycle'[r].step \in {"save", "use"} => NearOne(cycle'[r].weights)
<1>k. ASSUME Kept PROVE SiaInv'
  <2>1. learned' \in [Model -> Int] /\ weights' \in [Model -> Int] \cup {None}
    BY <1>k, NearOneIsWeighing
  <2>2. TypeOK'
    BY <1>k, <1>q, <2>1 DEF TypeOK, CycleType, Weighing
  <2>3. SumsInv'
    BY <1>k DEF SumsInv
  <2> QED
    BY <1>p, <2>2, <2>3 DEF SiaInv
<1>s. /\ NearOne(learned)
      /\ weights = None \/ NearOne(weights)
      /\ \A r \in Runner : cycle[r].step \in {"save", "use"} => NearOne(cycle[r].weights)
  BY <1>0 DEF SumsInv
\* A runner that moves on keeps what its record holds.
<1>g. ASSUME NEW r \in Runner, NEW s \in {"save", "use", "tune", "open", "write"}, Goto(r, s),
             s \in {"save", "use"} => NearOne(cycle[r].weights)
      PROVE  /\ cycle' \in [Runner -> CycleType]
             /\ \A q \in Runner : cycle'[q].step \in {"save", "use"} => NearOne(cycle'[q].weights)
  <2> DEFINE c == [cycle[r] EXCEPT !.step = s]
  <2>1. cycle[r] \in CycleType
    BY <1>0
  <2>2. c \in CycleType /\ c.step = s /\ c.weights = cycle[r].weights
    BY <2>1 DEF CycleType
  <2>3. cycle' = [cycle EXCEPT ![r] = c]
    BY <1>g DEF Goto
  <2> HIDE DEF c
  <2> QED
    BY <1>0, <1>g, <2>2, <2>3, CyclesKept
<1>1. ASSUME NEW r \in Runner, Optimize(r) PROVE Kept
  <2>1. PICK frozen \in SUBSET Model :
          \E score \in [Model \ frozen -> Briers] :
            cycle' = [cycle EXCEPT ![r] = Doing("save", Optimized(learned, frozen, score), None)]
    BY <1>1 DEF Optimize
  <2>2. PICK score \in [Model \ frozen -> Briers] :
            cycle' = [cycle EXCEPT ![r] = Doing("save", Optimized(learned, frozen, score), None)]
    BY <2>1
  <2> DEFINE w == Optimized(learned, frozen, score)
  <2>3. NearOne(w)
    BY <1>s, OptimizedNearOne
  <2> HIDE DEF w
  <2>4. w \in Weighing
    BY <2>3, NearOneIsWeighing DEF Weighing
  <2>5. Doing("save", w, None) \in CycleType /\ Doing("save", w, None).weights = w
    BY <1>n, <2>4, DoingType
  <2>6. cycle' = [cycle EXCEPT ![r] = Doing("save", w, None)]
    BY <2>2 DEF w
  <2>7. /\ cycle' \in [Runner -> CycleType]
        /\ \A q \in Runner : cycle'[q].step \in {"save", "use"} => NearOne(cycle'[q].weights)
    BY <1>0, <2>3, <2>5, <2>6, CyclesKept
  <2>8. cycles' = cycles + 1 /\ UNCHANGED <<up, memory, files, tunings>>
    BY <1>1 DEF Optimize
  <2> QED
    BY <1>0, <1>s, <2>7, <2>8 DEF memory, files
<1>2. ASSUME NEW r \in Runner, SkipWeights(r) PROVE Kept
  <2>1. Goto(r, "tune") /\ cycles' = cycles + 1 /\ UNCHANGED <<up, memory, files, tunings>>
    BY <1>2 DEF SkipWeights
  <2> QED
    BY <1>0, <1>g, <1>s, <2>1 DEF memory, files
<1>3. ASSUME NEW r \in Runner, Save(r) PROVE Kept
  <2>1. NearOne(cycle[r].weights)
    BY <1>s, <1>3 DEF Save, At
  <2>2. /\ Goto(r, "use") /\ UNCHANGED <<up, memory, saved, cycles, tunings>>
        /\ weights' \in {cycle[r].weights, weights}
    BY <1>3 DEF Save
  <2> QED
    BY <1>0, <1>g, <1>s, <2>1, <2>2 DEF memory
<1>4. ASSUME NEW r \in Runner, Use(r) PROVE Kept
  <2>1. NearOne(cycle[r].weights)
    BY <1>s, <1>4 DEF Use, At
  <2>2. /\ learned' = cycle[r].weights /\ attribute' = cycle[r].weights
        /\ cycle' = [cycle EXCEPT ![r] = Doing("tune", None, None)]
        /\ UNCHANGED <<up, params, files, cycles, tunings>>
    BY <1>4 DEF Use
  <2>3. Doing("tune", None, None) \in CycleType /\ Doing("tune", None, None).step = "tune"
    BY <1>n, DoingType
  <2>4. /\ cycle' \in [Runner -> CycleType]
        /\ \A q \in Runner : cycle'[q].step \in {"save", "use"} => NearOne(cycle'[q].weights)
    BY <1>0, <2>2, <2>3, CyclesKept
  <2>5. attribute' \in Weighing
    BY <2>1, <2>2, NearOneIsWeighing DEF Weighing
  <2> QED
    BY <1>0, <1>s, <2>1, <2>2, <2>4, <2>5 DEF files
<1>5. ASSUME NEW r \in Runner, Tune(r) PROVE Kept
  <2>1. /\ cycle' = [cycle EXCEPT ![r] = Doing("open", None, params')]
        /\ tunings' = tunings + 1
        /\ UNCHANGED <<up, learned, attribute, files, cycles>>
    BY <1>5 DEF Tune
  <2>2. Doing("open", None, params') \in CycleType /\ Doing("open", None, params').step = "open"
    BY <1>n, <1>q, DoingType
  <2>3. /\ cycle' \in [Runner -> CycleType]
        /\ \A q \in Runner : cycle'[q].step \in {"save", "use"} => NearOne(cycle'[q].weights)
    BY <1>0, <2>1, <2>2, CyclesKept
  <2> QED
    BY <1>0, <1>s, <2>1, <2>3 DEF files
<1>6. ASSUME NEW r \in Runner, Open(r) PROVE Kept
  <2>1. Goto(r, "write") /\ UNCHANGED <<up, memory, weights, cycles, tunings>>
    BY <1>6 DEF Open
  <2> QED
    BY <1>0, <1>g, <1>s, <2>1 DEF memory
<1>7. ASSUME NEW r \in Runner, Write(r) PROVE Kept
  <2>1. cycle' = [cycle EXCEPT ![r] = Doing("idle", None, None)]
        /\ UNCHANGED <<up, memory, weights, cycles, tunings>>
    BY <1>7 DEF Write, Idle
  <2>2. Doing("idle", None, None) \in CycleType /\ Doing("idle", None, None).step = "idle"
    BY <1>n, DoingType
  <2>3. /\ cycle' \in [Runner -> CycleType]
        /\ \A q \in Runner : cycle'[q].step \in {"save", "use"} => NearOne(cycle'[q].weights)
    BY <1>0, <2>1, <2>2, CyclesKept
  <2> QED
    BY <1>0, <1>s, <2>1, <2>3 DEF memory
<1>8. ASSUME Crash PROVE Kept
  <2>1. /\ up' = FALSE /\ UNCHANGED <<memory, files, cycles, tunings>>
        /\ cycle' = [r \in Runner |-> Doing("idle", None, None)]
    BY <1>8 DEF Crash, Idle
  <2>2. Doing("idle", None, None) \in CycleType /\ Doing("idle", None, None).step = "idle"
    BY <1>n, DoingType
  <2>3. /\ cycle' \in [Runner -> CycleType]
        /\ \A q \in Runner : cycle'[q].step = "idle"
    BY <2>1, <2>2
  <2> QED
    BY <1>0, <1>s, <2>1, <2>3 DEF memory, files
<1>9. ASSUME Start PROVE Kept
  <2>1. NearOne(learned')
    BY <1>s, <1>9, DefaultNearOne DEF Start
  <2>2. up' = TRUE /\ attribute' = None /\ UNCHANGED <<files, cycle, cycles, tunings>>
    BY <1>9 DEF Start
  <2> QED
    BY <1>0, <1>n, <1>s, <2>1, <2>2 DEF files
<1>10. ASSUME NextDay PROVE Kept
  BY <1>0, <1>s, <1>10 DEF NextDay, memory, files
<1>11. ASSUME UNCHANGED vars PROVE Kept
  BY <1>0, <1>s, <1>11 DEF vars, memory, files
<1>12. ASSUME NEW r \in Runner, SkipTuning(r) PROVE Kept
  <2>1. cycle' = [cycle EXCEPT ![r] = Doing("idle", None, None)]
        /\ UNCHANGED <<up, memory, files, cycles, tunings>>
    BY <1>12 DEF SkipTuning, Idle
  <2>2. Doing("idle", None, None) \in CycleType /\ Doing("idle", None, None).step = "idle"
    BY <1>n, DoingType
  <2>3. /\ cycle' \in [Runner -> CycleType]
        /\ \A q \in Runner : cycle'[q].step \in {"save", "use"} => NearOne(cycle'[q].weights)
    BY <1>0, <2>1, <2>2, CyclesKept
  <2> QED
    BY <1>0, <1>s, <2>1, <2>3 DEF memory, files
<1> HIDE DEF Kept
<1> QED
  BY <1>k, <1>1, <1>2, <1>3, <1>4, <1>5, <1>6, <1>7, <1>8, <1>9, <1>10, <1>11, <1>12
     DEF Next, Cycle

\* Whatever the cycles do, and wherever a crash falls, every variable holds
\* what the code expects there: a weight for every model, whole parameters.
THEOREM SiaTypesHold == Spec => []TypeOK
<1>1. SiaInv => TypeOK
  BY DEF SiaInv
<1> QED
  BY SiaInitInv, SiaStepInv, <1>1, PTL DEF Spec

LEMMA SiaInvIsWhole == SiaInv => WeightsSumToOne
<1> SUFFICES ASSUME NearOne(learned) PROVE WeightsSumToOne
  BY DEF SiaInv, SumsInv
<1>1. Total(learned, Model) \in Int
  <2>1. IsFiniteSet(Model) /\ \A m \in Model : learned[m] \in Int
    BY ModelAssumption DEF NearOne
  <2> QED
    BY <2>1, SumInt DEF Total
<1>2. Cardinality(Model) \in Nat
  BY ModelAssumption, FS_CardinalityType
<1> DEFINE V == Total(learned, Model)
           N == Cardinality(Model)
<1>3. V \in Int /\ N \in Nat /\ 2 * (V - Unit) <= N /\ 2 * (Unit - V) <= N
  BY <1>1, <1>2 DEF NearOne
<1> HIDE DEF V, N
<1>4. 2 * Higher(V - Unit, -(V - Unit)) <= N
  BY <1>3 DEF Higher, Unit
<1> QED
  BY <1>4 DEF WeightsSumToOne, V, N

\* The weights in use add up to one but for the rounding of a single cycle,
\* for any number of models, cycles, threads and restarts.
THEOREM WeightsStayWhole == Spec => []WeightsSumToOne
  BY SiaInitInv, SiaStepInv, SiaInvIsWhole, PTL DEF Spec
-----------------------------------------------------------------------------
(* What a restart would load.                                               *)

\* What a restart would load is, to less than MinChange, what is in use.
Durable ==
  \/ weights = None /\ learned = Default
  \/ weights # None /\ ~Far(learned, weights)

\* A runner between saving and using holds weights that are as good as saved;
\* a process that is down has no cycle under way.
DurableInv ==
  /\ ~up => \A r \in Runner : cycle[r].step = "idle"
  /\ \A r \in Runner : cycle[r].step = "use" =>
       weights # None /\ ~Far(cycle[r].weights, weights)
  /\ up /\ (\A r \in Runner : cycle[r].step # "use") => Durable

LEMMA NotFarFromItself == ASSUME NEW w, NearOne(w) PROVE ~Far(w, w)
<1>1. \A m \in Model : w[m] \in Int
  BY DEF NearOne
<1>2. \A x \in Int : ~(x - x >= MinChange)
  BY DEF MinChange
<1> QED
  BY <1>1, <1>2 DEF Far

LEMMA DurableInit == Init => DurableInv
<1> SUFFICES ASSUME Init PROVE DurableInv
  OBVIOUS
<1>1. up = FALSE /\ cycle = [r \in Runner |-> Doing("idle", None, None)]
  BY DEF Init, Idle
<1>2. Doing("idle", None, None).step = "idle"
  BY DEF Doing
<1>3. \A r \in Runner : cycle[r].step = "idle"
  BY <1>1, <1>2
<1> QED
  BY <1>1, <1>3 DEF DurableInv

LEMMA DurableStep ==
  ASSUME \A p, q \in Runner : p = q, SiaInv, DurableInv, [Next]_vars
  PROVE  DurableInv'
<1>0. /\ cycle \in [Runner -> CycleType]
      /\ NearOne(learned) /\ (weights = None \/ NearOne(weights))
      /\ \A r \in Runner : cycle[r].step \in {"save", "use"} => NearOne(cycle[r].weights)
  BY DEF SiaInv, SumsInv, TypeOK, CycleType, Weighing
\* A step that leaves the weights alone, of a runner that was not between
\* saving and using and is not afterwards either.
<1>m. ASSUME NEW r \in Runner, up, cycle[r].step # "use", cycle'[r].step # "use",
             UNCHANGED <<up, learned, weights>>
      PROVE  DurableInv'
  <2>1. \A q \in Runner : q = r
    OBVIOUS
  <2>2. Durable
    BY <1>m, <2>1 DEF DurableInv
  <2>3. Durable'
    BY <1>m, <2>2 DEF Durable
  <2> QED
    BY <1>m, <2>1, <2>3 DEF DurableInv
<1>1. ASSUME NEW r \in Runner, Optimize(r) PROVE DurableInv'
  <2>1. PICK w : cycle' = [cycle EXCEPT ![r] = Doing("save", w, None)]
    BY <1>1 DEF Optimize
  <2>2. cycle'[r].step = "save"
    BY <1>0, <2>1 DEF Doing
  <2> QED
    BY <1>1, <1>m, <2>2 DEF Optimize, At, memory, files
<1>2. ASSUME NEW r \in Runner, SkipWeights(r) PROVE DurableInv'
  <2>1. cycle'[r].step = "tune"
    BY <1>0, <1>2 DEF SkipWeights, Goto, CycleType
  <2> QED
    BY <1>2, <1>m, <2>1 DEF SkipWeights, At, memory, files
<1>3. ASSUME NEW r \in Runner, Save(r) PROVE DurableInv'
  <2> DEFINE w == cycle[r].weights
  <2>1. NearOne(w) /\ up /\ up' = up
    BY <1>0, <1>3 DEF Save, At
  <2>2. weights' = IF weights = None \/ Far(w, weights) THEN w ELSE weights
    BY <1>3 DEF Save
  <2>3. cycle'[r].step = "use" /\ cycle'[r].weights = w
    BY <1>0, <1>3 DEF Save, Goto, CycleType
  <2> HIDE DEF w
  <2>4. weights' # None /\ ~Far(w, weights')
    BY <2>1, <2>2, NotFarFromItself, NearOneIsWeighing
  <2>5. \A q \in Runner : q = r
    OBVIOUS
  <2>6. Far(cycle[r].weights, weights)' <=> Far(w, weights')
    BY <2>3 DEF Far
  <2> QED
    BY <2>1, <2>3, <2>4, <2>5, <2>6 DEF DurableInv
<1>4. ASSUME NEW r \in Runner, Use(r) PROVE DurableInv'
  <2>1. up /\ cycle[r].step = "use" /\ UNCHANGED <<up, weights>>
    BY <1>4 DEF Use, At, files
  <2>2. weights # None /\ ~Far(cycle[r].weights, weights)
    BY <2>1 DEF DurableInv
  <2>3. learned' = cycle[r].weights
    BY <1>4 DEF Use
  <2>4. Durable'
    BY <2>1, <2>2, <2>3 DEF Durable, Far
  <2>5. cycle'[r].step = "tune"
    BY <1>0, <1>4 DEF Use, Doing
  <2>6. \A q \in Runner : q = r
    OBVIOUS
  <2> QED
    BY <2>1, <2>4, <2>5, <2>6 DEF DurableInv
<1>5. ASSUME NEW r \in Runner, Tune(r) PROVE DurableInv'
  <2>1. cycle' = [cycle EXCEPT ![r] = Doing("open", None, params')]
    BY <1>5 DEF Tune
  <2>2. cycle'[r].step = "open"
    BY <1>0, <2>1 DEF Doing
  <2> QED
    BY <1>5, <1>m, <2>2 DEF Tune, At, files
<1>6. ASSUME NEW r \in Runner, Open(r) PROVE DurableInv'
  <2>1. cycle'[r].step = "write"
    BY <1>0, <1>6 DEF Open, Goto, CycleType
  <2> QED
    BY <1>6, <1>m, <2>1 DEF Open, At, memory
<1>7. ASSUME NEW r \in Runner, Write(r) PROVE DurableInv'
  <2>1. cycle'[r].step = "idle"
    BY <1>0, <1>7 DEF Write, Idle, Doing
  <2> QED
    BY <1>7, <1>m, <2>1 DEF Write, At, memory
<1>8. ASSUME Crash PROVE DurableInv'
  <2>1. Doing("idle", None, None).step = "idle"
    BY DEF Doing
  <2>2. up' = FALSE /\ \A r \in Runner : cycle'[r].step = "idle"
    BY <1>8, <2>1 DEF Crash, Idle
  <2> QED
    BY <2>2 DEF DurableInv
<1>9. ASSUME Start PROVE DurableInv'
  <2>1. UNCHANGED <<cycle, weights>> /\ \A r \in Runner : cycle[r].step = "idle"
    BY <1>9 DEF Start, DurableInv, files
  <2>2. learned' = IF weights = None THEN Default ELSE weights
    BY <1>9 DEF Start
  <2>3. CASE weights = None
    BY <1>9, <2>1, <2>2, <2>3 DEF DurableInv, Durable, Start
  <2>4. CASE weights # None
    <3>1. ~Far(weights, weights)
      BY <1>0, <2>4, NotFarFromItself
    <3>2. ~Far(learned', weights')
      BY <2>1, <2>2, <2>4, <3>1
    <3>3. Durable'
      BY <2>1, <2>4, <3>2 DEF Durable, Far
    <3>4. up' = TRUE
      BY <1>9 DEF Start
    <3> QED
      BY <2>1, <3>3, <3>4 DEF DurableInv
  <2> QED
    BY <2>3, <2>4
<1>10. CASE NextDay
  BY <1>10 DEF NextDay, memory, files, DurableInv, Durable, Far
<1>11. CASE UNCHANGED vars
  BY <1>11 DEF vars, memory, files, DurableInv, Durable, Far
<1>12. ASSUME NEW r \in Runner, SkipTuning(r) PROVE DurableInv'
  <2>1. cycle'[r].step = "idle"
    BY <1>0, <1>12 DEF SkipTuning, Idle, Doing
  <2> QED
    BY <1>12, <1>m, <2>1 DEF SkipTuning, At, memory, files
<1> QED
  BY <1>1, <1>2, <1>3, <1>4, <1>5, <1>6, <1>7, <1>8, <1>9, <1>10, <1>11, <1>12
     DEF Next, Cycle

\* With one settlement loop, a restart loses no more of what was learned than
\* a change too small to be written, however many such changes there were.
THEOREM LearningIsNotLost ==
  ASSUME \A p, q \in Runner : p = q
  PROVE  Spec => []LearnedIsDurable
<1>1. SiaInv /\ DurableInv => LearnedIsDurable
  BY DEF DurableInv, Durable, LearnedIsDurable
<1>2. SiaInv /\ DurableInv /\ [Next]_vars => (SiaInv /\ DurableInv)'
  BY SiaStepInv, DurableStep
<1>3. Init => SiaInv /\ DurableInv
  BY SiaInitInv, DurableInit
<1> QED
  BY <1>1, <1>2, <1>3, PTL DEF Spec
=============================================================================

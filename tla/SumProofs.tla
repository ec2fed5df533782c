------------------------------ MODULE SumProofs ------------------------------
(***************************************************************************)
(* Facts about SumFunctionOnSet(f, S), the sum of f[x] over a finite set:  *)
(* the sums of the ledger and of the model weights.  The sum is defined by *)
(* a function that is recursive over the subsets of S, so everything rests *)
(* on that function being there and on its being the only one; from then   *)
(* on a sum is what is left of it when one element is taken out (SumTake). *)
(* The library's induction needs an operator as parameter; its place is    *)
(* taken by the smallest set for which a fact would fail (Smallest).  The  *)
(* last section has the ranks of the members of a finite set of numbers:   *)
(* the ids of a scan and the places of a queue.                            *)
(***************************************************************************)
EXTENDS Functions, FiniteSetTheorems, TLAPS

Pick(S) == CHOOSE x \in S : TRUE

LEMMA PickIn == ASSUME NEW S, S # {} PROVE Pick(S) \in S
  BY DEF Pick

\* Among sets of members of a finite set there is a smallest one.
LEMMA Smallest ==
  ASSUME NEW S, IsFiniteSet(S), NEW B \in SUBSET SUBSET S, B # {}
  PROVE  \E T \in B : \A U \in B : U \subseteq T => U = T
<1>1. IsWellFoundedOn(StrictSubsetOrdering(S), FiniteSubsetsOf(S))
  BY FS_StrictSubsetOrderingWellFounded
<1>2. B \subseteq FiniteSubsetsOf(S)
  BY FS_Subset DEF FiniteSubsetsOf
<1>3. \E T \in B : \A U \in B : ~ (<<U, T>> \in StrictSubsetOrdering(S))
  BY <1>1, <1>2, WFMin
<1> QED
  BY <1>2, <1>3 DEF StrictSubsetOrdering, FiniteSubsetsOf
-----------------------------------------------------------------------------
(* The recursive function.                                                  *)

\* What g says of a set s is the sum of f over it, if g says so of the rest.
Adds(g, f, s) == g[s] = IF s = {} THEN 0 ELSE f[Pick(s)] + g[s \ {Pick(s)}]

\* g is the recursive function that sums f over the subsets of S.
Sums(g, f, S) ==
  g = [s \in SUBSET S |-> IF s = {} THEN 0 ELSE f[Pick(s)] + g[s \ {Pick(s)}]]

LEMMA SumIsChoice ==
  ASSUME NEW f, NEW S
  PROVE  SumFunctionOnSet(f, S) = (CHOOSE g : Sums(g, f, S))[S]
  BY DEF SumFunctionOnSet, FoldFunctionOnSet, MapThenFoldSet, Sums, Pick

LEMMA SumsAdds ==
  ASSUME NEW f, NEW S, NEW g
  PROVE  Sums(g, f, S) <=> /\ g = [s \in SUBSET S |-> g[s]]
                           /\ \A s \in SUBSET S : Adds(g, f, s)
<1>1. ASSUME Sums(g, f, S)
      PROVE  g = [s \in SUBSET S |-> g[s]] /\ \A s \in SUBSET S : Adds(g, f, s)
  BY <1>1, Zenon DEF Sums, Adds
<1>2. ASSUME g = [s \in SUBSET S |-> g[s]], \A s \in SUBSET S : Adds(g, f, s)
      PROVE  Sums(g, f, S)
  <2>1. \A s \in SUBSET S : g[s] = IF s = {} THEN 0 ELSE f[Pick(s)] + g[s \ {Pick(s)}]
    BY <1>2, Zenon DEF Adds
  <2>2. [s \in SUBSET S |-> g[s]]
          = [s \in SUBSET S |-> IF s = {} THEN 0 ELSE f[Pick(s)] + g[s \ {Pick(s)}]]
    BY <2>1, Zenon
  <2> QED
    BY <1>2, <2>2, Zenon DEF Sums
<1> QED
  BY <1>1, <1>2

\* Two such functions, for two sets, agree on what is a subset of both.
LEMMA SumsAgree ==
  ASSUME NEW f, NEW S, NEW T, NEW g, NEW h, Sums(g, f, S), Sums(h, f, T),
         NEW U \in SUBSET (S \cap T), IsFiniteSet(U)
  PROVE  g[U] = h[U]
<1> DEFINE B == {V \in SUBSET U : g[V] # h[V]}
<1>1. B \in SUBSET SUBSET U
  OBVIOUS
<1>2. ASSUME B # {} PROVE FALSE
  <2> HIDE DEF B
  <2>1. PICK V \in B : \A W \in B : W \subseteq V => W = V
    BY <1>1, <1>2, Smallest
  <2>2. V \in SUBSET U /\ g[V] # h[V]
    BY <2>1 DEF B
  <2>3. Adds(g, f, V) /\ Adds(h, f, V)
    BY <2>2, SumsAdds
  <2>4. V # {}
    BY <2>2, <2>3 DEF Adds
  <2>5. V \ {Pick(V)} \in SUBSET U /\ V \ {Pick(V)} # V
    BY <2>2, <2>4, PickIn
  <2>6. g[V \ {Pick(V)}] = h[V \ {Pick(V)}]
    BY <2>1, <2>5 DEF B
  <2> QED
    BY <2>2, <2>3, <2>4, <2>6 DEF Adds
<1> QED
  BY <1>1, <1>2 DEF B

Summable(f, S) == \E g : Sums(g, f, S)

\* The equation of a sum over a set whose subsets all have a sum.
LEMMA SumEquationIf ==
  ASSUME NEW f, NEW S, IsFiniteSet(S), Summable(f, S), NEW T \in SUBSET S, Summable(f, T)
  PROVE  \A g : Sums(g, f, S) => g[T] = SumFunctionOnSet(f, T)
<1>1. PICK h : h = (CHOOSE g : Sums(g, f, T)) /\ Sums(h, f, T)
  BY Zenon DEF Summable
<1>2. SumFunctionOnSet(f, T) = h[T]
  BY <1>1, SumIsChoice
<1>3. IsFiniteSet(T)
  BY FS_Subset
<1> QED
  BY <1>1, <1>2, <1>3, SumsAgree

\* There is such a function: otherwise, on a smallest set that has none, the
\* sums over its proper subsets would make one.
LEMMA SumsExist == ASSUME NEW f, NEW S, IsFiniteSet(S) PROVE Summable(f, S)
<1> DEFINE B == {T \in SUBSET S : ~Summable(f, T)}
<1>1. B \in SUBSET SUBSET S
  OBVIOUS
<1>2. ASSUME B # {} PROVE FALSE
  <2> HIDE DEF B
  <2>1. PICK T \in B : \A U \in B : U \subseteq T => U = T
    BY <1>1, <1>2, Smallest
  <2>2. T \in SUBSET S /\ ~Summable(f, T) /\ IsFiniteSet(T)
    BY <2>1, FS_Subset DEF B
  <2>3. \A U \in SUBSET T : U # T => Summable(f, U)
    BY <2>1, <2>2 DEF B
  <2> DEFINE g == [s \in SUBSET T |-> IF s = {} THEN 0 ELSE f[Pick(s)] + SumFunctionOnSet(f, s \ {Pick(s)})]
  <2>4. ASSUME NEW U \in SUBSET T, U # T
        PROVE  g[U] = SumFunctionOnSet(f, U)
    <3>1. PICK k : Sums(k, f, U)
      BY <2>3, <2>4 DEF Summable
    <3>2. IsFiniteSet(U) /\ Summable(f, U) /\ U \in SUBSET U
      BY <2>2, <2>3, <2>4, FS_Subset
    <3>3. k[U] = SumFunctionOnSet(f, U)
      BY <3>1, <3>2, SumEquationIf
    <3>4. Adds(k, f, U)
      BY <3>1, SumsAdds
    <3>5. CASE U = {}
      BY <3>3, <3>4, <3>5 DEF Adds
    <3>6. CASE U # {}
      <4> DEFINE V == U \ {Pick(U)}
      <4>1. V \in SUBSET U /\ V \in SUBSET T /\ V # T
        BY <2>4
      <4>2. Summable(f, V)
        BY <2>3, <4>1
      <4>3. k[V] = SumFunctionOnSet(f, V)
        BY <3>1, <3>2, <4>1, <4>2, SumEquationIf
      <4>4. g[U] = f[Pick(U)] + SumFunctionOnSet(f, V)
        BY <3>6
      <4> QED
        BY <3>3, <3>4, <3>6, <4>3, <4>4 DEF Adds
    <3> QED
      BY <3>5, <3>6
  <2>5. ASSUME NEW s \in SUBSET T PROVE Adds(g, f, s)
    <3>1. CASE s = {}
      BY <3>1 DEF Adds
    <3>2. CASE s # {}
      <4>1. s \ {Pick(s)} \in SUBSET T /\ s \ {Pick(s)} # T
        BY <2>5, <3>2, PickIn
      <4>2. g[s \ {Pick(s)}] = SumFunctionOnSet(f, s \ {Pick(s)})
        BY <2>4, <4>1
      <4>3. g[s] = f[Pick(s)] + SumFunctionOnSet(f, s \ {Pick(s)})
        BY <3>2
      <4> HIDE DEF g
      <4> QED
        BY <3>2, <4>2, <4>3 DEF Adds
    <3> QED
      BY <3>1, <3>2
  <2>6. g = [s \in SUBSET T |-> g[s]]
    OBVIOUS
  <2> HIDE DEF g
  <2>7. Sums(g, f, T)
    BY <2>5, <2>6, SumsAdds
  <2> QED
    BY <2>2, <2>7 DEF Summable
<1> QED
  BY <1>1, <1>2 DEF B
-----------------------------------------------------------------------------
(* Sums.                                                                    *)

LEMMA SumEquation ==
  ASSUME NEW f, NEW S, IsFiniteSet(S)
  PROVE  SumFunctionOnSet(f, S)
           = IF S = {} THEN 0 ELSE f[Pick(S)] + SumFunctionOnSet(f, S \ {Pick(S)})
<1>1. PICK g : Sums(g, f, S)
  BY SumsExist DEF Summable
<1>2. Adds(g, f, S)
  BY <1>1, SumsAdds
<1>3. \A T \in SUBSET S : g[T] = SumFunctionOnSet(f, T)
  BY <1>1, SumsExist, SumEquationIf, FS_Subset
<1> QED
  BY <1>2, <1>3 DEF Adds

LEMMA SumEmpty == ASSUME NEW f PROVE SumFunctionOnSet(f, {}) = 0
  BY SumEquation, FS_EmptySet

\* A smallest set for which a fact fails is not empty, and the fact holds for
\* what is left of it without any one element.
LEMMA SumInt ==
  ASSUME NEW f, NEW S, IsFiniteSet(S), \A x \in S : f[x] \in Int
  PROVE  SumFunctionOnSet(f, S) \in Int
<1> DEFINE B == {T \in SUBSET S : SumFunctionOnSet(f, T) \notin Int}
<1>1. B \in SUBSET SUBSET S
  OBVIOUS
<1>2. ASSUME B # {} PROVE FALSE
  <2> HIDE DEF B
  <2>1. PICK T \in B : \A U \in B : U \subseteq T => U = T
    BY <1>1, <1>2, Smallest
  <2>2. T \in SUBSET S /\ IsFiniteSet(T) /\ SumFunctionOnSet(f, T) \notin Int
    BY <2>1, FS_Subset DEF B
  <2>3. T # {}
    BY <2>2, SumEmpty
  <2>4. Pick(T) \in T
    BY <2>3, PickIn
  <2>5. SumFunctionOnSet(f, T) = f[Pick(T)] + SumFunctionOnSet(f, T \ {Pick(T)})
    BY <2>2, <2>3, SumEquation
  <2>6. T \ {Pick(T)} \in SUBSET S /\ T \ {Pick(T)} \notin B
    BY <2>1, <2>2, <2>4
  <2>7. SumFunctionOnSet(f, T \ {Pick(T)}) \in Int
    BY <2>6 DEF B
  <2> QED
    BY <2>2, <2>4, <2>5, <2>7
<1> QED
  BY <1>1, <1>2 DEF B

LEMMA SumTake ==
  ASSUME NEW f, NEW S, IsFiniteSet(S), \A x \in S : f[x] \in Int, NEW y \in S
  PROVE  SumFunctionOnSet(f, S) = f[y] + SumFunctionOnSet(f, S \ {y})
<1> DEFINE Takes(T) == \A x \in T : SumFunctionOnSet(f, T) = f[x] + SumFunctionOnSet(f, T \ {x})
           B == {T \in SUBSET S : ~Takes(T)}
<1>1. B \in SUBSET SUBSET S
  OBVIOUS
<1>2. ASSUME B # {} PROVE FALSE
  <2> HIDE DEF B
  <2>1. PICK T \in B : \A U \in B : U \subseteq T => U = T
    BY <1>1, <1>2, Smallest
  <2>2. T \in SUBSET S /\ IsFiniteSet(T) /\ ~Takes(T)
    BY <2>1, FS_Subset DEF B
  <2>3. PICK x \in T : SumFunctionOnSet(f, T) # f[x] + SumFunctionOnSet(f, T \ {x})
    BY <2>2
  <2> DEFINE p == Pick(T)
  <2>4. p \in T /\ p \in S /\ x \in S
    BY <2>2, <2>3, PickIn
  <2>5. SumFunctionOnSet(f, T) = f[p] + SumFunctionOnSet(f, T \ {p})
    BY <2>2, <2>3, SumEquation
  <2>6. x # p
    BY <2>3, <2>5
  <2>7. \A z \in T : /\ T \ {z} \in SUBSET S
                     /\ T \ {z} \notin B
                     /\ IsFiniteSet(T \ {z})
    BY <2>1, <2>2, FS_RemoveElement
  <2>8. \A z \in T : Takes(T \ {z})
    BY <2>7 DEF B
  <2> HIDE DEF p
  <2>9. SumFunctionOnSet(f, T \ {p}) = f[x] + SumFunctionOnSet(f, (T \ {p}) \ {x})
    BY <2>3, <2>4, <2>6, <2>8
  <2>10. SumFunctionOnSet(f, T \ {x}) = f[p] + SumFunctionOnSet(f, (T \ {x}) \ {p})
    BY <2>3, <2>4, <2>6, <2>8
  <2>11. (T \ {p}) \ {x} = (T \ {x}) \ {p}
    OBVIOUS
  <2>12. IsFiniteSet((T \ {p}) \ {x}) /\ (T \ {p}) \ {x} \in SUBSET S
    BY <2>2, FS_RemoveElement
  <2>13. SumFunctionOnSet(f, (T \ {p}) \ {x}) \in Int
    BY <2>12, SumInt
  <2>14. f[p] \in Int /\ f[x] \in Int
    BY <2>4
  <2>15. \A a, b, c \in Int : a + (b + c) = b + (a + c)
    OBVIOUS
  <2>16. SumFunctionOnSet(f, T) = f[x] + (f[p] + SumFunctionOnSet(f, (T \ {p}) \ {x}))
    BY <2>5, <2>9, <2>13, <2>14, <2>15
  <2> QED
    BY <2>3, <2>10, <2>11, <2>16, Zenon
<1> QED
  BY <1>1, <1>2 DEF B

LEMMA SumNat ==
  ASSUME NEW f, NEW S, IsFiniteSet(S), \A x \in S : f[x] \in Nat
  PROVE  SumFunctionOnSet(f, S) \in Nat
<1> DEFINE B == {T \in SUBSET S : SumFunctionOnSet(f, T) \notin Nat}
<1>1. B \in SUBSET SUBSET S
  OBVIOUS
<1>2. ASSUME B # {} PROVE FALSE
  <2> HIDE DEF B
  <2>1. PICK T \in B : \A U \in B : U \subseteq T => U = T
    BY <1>1, <1>2, Smallest
  <2>2. T \in SUBSET S /\ IsFiniteSet(T) /\ SumFunctionOnSet(f, T) \notin Nat
    BY <2>1, FS_Subset DEF B
  <2>3. PICK x : x \in T
    BY <2>2, SumEmpty
  <2>4. SumFunctionOnSet(f, T) = f[x] + SumFunctionOnSet(f, T \ {x})
    BY <2>2, <2>3, SumTake
  <2>5. T \ {x} \in SUBSET S /\ T \ {x} \notin B
    BY <2>1, <2>2, <2>3
  <2>6. SumFunctionOnSet(f, T \ {x}) \in Nat
    BY <2>5 DEF B
  <2> QED
    BY <2>2, <2>3, <2>4, <2>6
<1> QED
  BY <1>1, <1>2 DEF B

\* h is the sum of f and g, member by member.
LEMMA SumPlus ==
  ASSUME NEW f, NEW g, NEW h, NEW S, IsFiniteSet(S),
         \A x \in S : f[x] \in Int /\ g[x] \in Int /\ h[x] = f[x] + g[x]
  PROVE  SumFunctionOnSet(h, S) = SumFunctionOnSet(f, S) + SumFunctionOnSet(g, S)
<1> DEFINE B == {T \in SUBSET S :
                   SumFunctionOnSet(h, T) # SumFunctionOnSet(f, T) + SumFunctionOnSet(g, T)}
<1>1. B \in SUBSET SUBSET S
  OBVIOUS
<1>2. ASSUME B # {} PROVE FALSE
  <2> HIDE DEF B
  <2>1. PICK T \in B : \A U \in B : U \subseteq T => U = T
    BY <1>1, <1>2, Smallest
  <2>2. /\ T \in SUBSET S
        /\ IsFiniteSet(T)
        /\ SumFunctionOnSet(h, T) # SumFunctionOnSet(f, T) + SumFunctionOnSet(g, T)
    BY <2>1, FS_Subset DEF B
  <2>3. PICK x : x \in T
    <3>1. ASSUME T = {} PROVE FALSE
      <4>1. /\ SumFunctionOnSet(f, T) = 0
            /\ SumFunctionOnSet(g, T) = 0
            /\ SumFunctionOnSet(h, T) = 0
        BY <3>1, SumEmpty
      <4> QED
        BY <2>2, <4>1
    <3> QED
      BY <3>1
  <2> DEFINE R == T \ {x}
  <2>4. R \in SUBSET S /\ R \notin B /\ IsFiniteSet(R)
    BY <2>1, <2>2, <2>3, FS_Subset
  <2>5. \A y \in T : h[y] \in Int
    BY <2>2
  <2>6. /\ SumFunctionOnSet(f, T) = f[x] + SumFunctionOnSet(f, R)
        /\ SumFunctionOnSet(g, T) = g[x] + SumFunctionOnSet(g, R)
        /\ SumFunctionOnSet(h, T) = h[x] + SumFunctionOnSet(h, R)
    BY <2>2, <2>3, <2>5, SumTake
  <2>7. SumFunctionOnSet(h, R) = SumFunctionOnSet(f, R) + SumFunctionOnSet(g, R)
    BY <2>4 DEF B
  <2>8. SumFunctionOnSet(f, R) \in Int /\ SumFunctionOnSet(g, R) \in Int
    BY <2>4, SumInt
  <2>9. f[x] \in Int /\ g[x] \in Int /\ h[x] = f[x] + g[x]
    BY <2>2, <2>3
  <2>10. \A a, b, c, d \in Int : (a + b) + (c + d) = (a + c) + (b + d)
    OBVIOUS
  <2> HIDE DEF R
  <2>11. SumFunctionOnSet(h, T) = (f[x] + SumFunctionOnSet(f, R)) + (g[x] + SumFunctionOnSet(g, R))
    BY <2>6, <2>7, <2>8, <2>9, <2>10
  <2> QED
    BY <2>2, <2>6, <2>11, Zenon
<1> QED
  BY <1>1, <1>2 DEF B

\* A sum does not grow when no member does.
LEMMA SumMonotone ==
  ASSUME NEW f, NEW g, NEW S, IsFiniteSet(S),
         \A x \in S : f[x] \in Int /\ g[x] \in Int /\ f[x] <= g[x]
  PROVE  SumFunctionOnSet(f, S) <= SumFunctionOnSet(g, S)
<1> DEFINE d == [x \in S |-> g[x] - f[x]]
<1>1. \A x \in S : d[x] \in Nat
  OBVIOUS
<1>2. \A x \in S : f[x] \in Int /\ d[x] \in Int /\ g[x] = f[x] + d[x]
  OBVIOUS
<1> HIDE DEF d
<1>3. SumFunctionOnSet(g, S) = SumFunctionOnSet(f, S) + SumFunctionOnSet(d, S)
  BY <1>2, SumPlus
<1>4. SumFunctionOnSet(d, S) \in Nat /\ SumFunctionOnSet(f, S) \in Int
  BY <1>1, <1>2, SumNat, SumInt
<1> QED
  BY <1>3, <1>4

\* A sum depends on nothing but the values of the members.
LEMMA SumSame ==
  ASSUME NEW f, NEW g, NEW S, IsFiniteSet(S), \A x \in S : f[x] \in Int /\ f[x] = g[x]
  PROVE  SumFunctionOnSet(f, S) = SumFunctionOnSet(g, S)
<1>1. /\ SumFunctionOnSet(f, S) <= SumFunctionOnSet(g, S)
      /\ SumFunctionOnSet(g, S) <= SumFunctionOnSet(f, S)
  BY SumMonotone
<1>2. SumFunctionOnSet(f, S) \in Int /\ SumFunctionOnSet(g, S) \in Int
  BY SumInt
<1> QED
  BY <1>1, <1>2

LEMMA SumScale ==
  ASSUME NEW f, NEW g, NEW c \in Int, NEW S, IsFiniteSet(S),
         \A x \in S : f[x] \in Int /\ g[x] = c * f[x]
  PROVE  SumFunctionOnSet(g, S) = c * SumFunctionOnSet(f, S)
<1> DEFINE B == {T \in SUBSET S : SumFunctionOnSet(g, T) # c * SumFunctionOnSet(f, T)}
<1>1. B \in SUBSET SUBSET S
  OBVIOUS
<1>2. ASSUME B # {} PROVE FALSE
  <2> HIDE DEF B
  <2>1. PICK T \in B : \A U \in B : U \subseteq T => U = T
    BY <1>1, <1>2, Smallest
  <2>2. T \in SUBSET S /\ IsFiniteSet(T) /\ SumFunctionOnSet(g, T) # c * SumFunctionOnSet(f, T)
    BY <2>1, FS_Subset DEF B
  <2>3. PICK x : x \in T
    BY <2>2, SumEmpty
  <2> DEFINE R == T \ {x}
  <2>4. R \in SUBSET S /\ R \notin B /\ IsFiniteSet(R)
    BY <2>1, <2>2, <2>3, FS_Subset
  <2>5. \A y \in T : g[y] \in Int
    BY <2>2
  <2>6. /\ SumFunctionOnSet(f, T) = f[x] + SumFunctionOnSet(f, R)
        /\ SumFunctionOnSet(g, T) = g[x] + SumFunctionOnSet(g, R)
    BY <2>2, <2>3, <2>5, SumTake
  <2>7. SumFunctionOnSet(g, R) = c * SumFunctionOnSet(f, R)
    BY <2>4 DEF B
  <2>8. SumFunctionOnSet(f, R) \in Int
    BY <2>4, SumInt
  <2>9. f[x] \in Int /\ g[x] = c * f[x]
    BY <2>2, <2>3
  <2>10. \A a, b \in Int : (c * a) + (c * b) = c * (a + b)
    OBVIOUS
  <2> HIDE DEF R
  <2>11. SumFunctionOnSet(g, T) = c * (f[x] + SumFunctionOnSet(f, R))
    BY <2>6, <2>7, <2>8, <2>9, <2>10
  <2> QED
    BY <2>2, <2>6, <2>11, Zenon
<1> QED
  BY <1>1, <1>2 DEF B

\* The members outside T count for nothing when they are zero.
LEMMA SumWithin ==
  ASSUME NEW f, NEW S, IsFiniteSet(S), \A x \in S : f[x] \in Int,
         NEW T \in SUBSET S, \A x \in S \ T : f[x] = 0
  PROVE  SumFunctionOnSet(f, S) = SumFunctionOnSet(f, T)
<1> DEFINE B == {U \in SUBSET S : T \subseteq U /\ SumFunctionOnSet(f, U) # SumFunctionOnSet(f, T)}
<1>1. B \in SUBSET SUBSET S
  OBVIOUS
<1>2. ASSUME B # {} PROVE FALSE
  <2> HIDE DEF B
  <2>1. PICK U \in B : \A V \in B : V \subseteq U => V = U
    BY <1>1, <1>2, Smallest
  <2>2. /\ U \in SUBSET S /\ T \subseteq U /\ IsFiniteSet(U)
        /\ SumFunctionOnSet(f, U) # SumFunctionOnSet(f, T)
    BY <2>1, FS_Subset DEF B
  <2>3. PICK x : x \in U \ T
    BY <2>2
  <2>4. U \ {x} \in SUBSET S /\ T \subseteq U \ {x} /\ U \ {x} \notin B /\ IsFiniteSet(U \ {x})
    BY <2>1, <2>2, <2>3, FS_Subset
  <2>5. SumFunctionOnSet(f, U \ {x}) = SumFunctionOnSet(f, T)
    BY <2>4 DEF B
  <2>6. SumFunctionOnSet(f, U) = f[x] + SumFunctionOnSet(f, U \ {x})
    BY <2>2, <2>3, SumTake
  <2>7. f[x] = 0 /\ SumFunctionOnSet(f, U \ {x}) \in Int
    BY <2>2, <2>3, <2>4, SumInt
  <2> QED
    BY <2>2, <2>5, <2>6, <2>7
<1> QED
  BY <1>1, <1>2 DEF B

LEMMA SumUnion ==
  ASSUME NEW f, NEW S, NEW T, IsFiniteSet(S), IsFiniteSet(T), S \cap T = {},
         \A x \in S \cup T : f[x] \in Int
  PROVE  SumFunctionOnSet(f, S \cup T) = SumFunctionOnSet(f, S) + SumFunctionOnSet(f, T)
<1> DEFINE g == [x \in S \cup T |-> IF x \in S THEN f[x] ELSE 0]
           h == [x \in S \cup T |-> IF x \in T THEN f[x] ELSE 0]
<1>1. IsFiniteSet(S \cup T)
  BY FS_Union
<1>2. \A x \in S \cup T : g[x] \in Int /\ h[x] \in Int /\ f[x] = g[x] + h[x]
  OBVIOUS
<1>3. /\ \A x \in S : f[x] \in Int /\ f[x] = g[x]
      /\ \A x \in T : f[x] \in Int /\ f[x] = h[x]
      /\ \A x \in (S \cup T) \ S : g[x] = 0
      /\ \A x \in (S \cup T) \ T : h[x] = 0
  OBVIOUS
<1> HIDE DEF g, h
<1>4. SumFunctionOnSet(f, S \cup T) = SumFunctionOnSet(g, S \cup T) + SumFunctionOnSet(h, S \cup T)
  BY <1>1, <1>2, SumPlus
<1>5. SumFunctionOnSet(g, S \cup T) = SumFunctionOnSet(g, S)
  BY <1>1, <1>2, <1>3, SumWithin
<1>6. SumFunctionOnSet(h, S \cup T) = SumFunctionOnSet(h, T)
  BY <1>1, <1>2, <1>3, SumWithin
<1>7. SumFunctionOnSet(f, S) = SumFunctionOnSet(g, S) /\ SumFunctionOnSet(f, T) = SumFunctionOnSet(h, T)
  BY <1>3, SumSame
<1> QED
  BY <1>4, <1>5, <1>6, <1>7

\* Two functions that differ in one place.
LEMMA SumBump ==
  ASSUME NEW f, NEW g, NEW S, IsFiniteSet(S), NEW y \in S,
         \A x \in S : f[x] \in Int /\ g[x] \in Int /\ (x # y => f[x] = g[x])
  PROVE  SumFunctionOnSet(g, S) = SumFunctionOnSet(f, S) + g[y] - f[y]
<1>1. IsFiniteSet(S \ {y})
  BY FS_Subset
<1>2. SumFunctionOnSet(f, S) = f[y] + SumFunctionOnSet(f, S \ {y})
  BY SumTake
<1>3. SumFunctionOnSet(g, S) = g[y] + SumFunctionOnSet(g, S \ {y})
  BY SumTake
<1>4. SumFunctionOnSet(f, S \ {y}) = SumFunctionOnSet(g, S \ {y})
  BY <1>1, SumSame
<1>5. SumFunctionOnSet(f, S \ {y}) \in Int
  BY <1>1, SumInt
<1> QED
  BY <1>2, <1>3, <1>4, <1>5

\* Nothing adds up to nothing.
LEMMA SumZero ==
  ASSUME NEW f, NEW S, IsFiniteSet(S), \A x \in S : f[x] = 0
  PROVE  SumFunctionOnSet(f, S) = 0
<1>1. \A x \in S : f[x] \in Int
  OBVIOUS
<1>2. SumFunctionOnSet(f, S) = SumFunctionOnSet(f, {})
  BY <1>1, SumWithin
<1> QED
  BY <1>2, SumEmpty


\* The same number, once for each member.
LEMMA SumConstant ==
  ASSUME NEW f, NEW c \in Int, NEW S, IsFiniteSet(S), \A x \in S : f[x] = c
  PROVE  SumFunctionOnSet(f, S) = c * Cardinality(S)
<1> DEFINE B == {T \in SUBSET S : SumFunctionOnSet(f, T) # c * Cardinality(T)}
<1>1. B \in SUBSET SUBSET S
  OBVIOUS
<1>2. ASSUME B # {} PROVE FALSE
  <2> HIDE DEF B
  <2>1. PICK T \in B : \A U \in B : U \subseteq T => U = T
    BY <1>1, <1>2, Smallest
  <2>2. T \in SUBSET S /\ IsFiniteSet(T) /\ SumFunctionOnSet(f, T) # c * Cardinality(T)
    BY <2>1, FS_Subset DEF B
  <2>3. PICK x : x \in T
    BY <2>2, SumEmpty, FS_EmptySet
  <2>4. SumFunctionOnSet(f, T) = c + SumFunctionOnSet(f, T \ {x})
    BY <2>2, <2>3, SumTake
  <2>5. T \ {x} \in SUBSET S /\ T \ {x} \notin B
    BY <2>1, <2>2, <2>3
  <2>6. SumFunctionOnSet(f, T \ {x}) = c * Cardinality(T \ {x})
    BY <2>5 DEF B
  <2>7. Cardinality(T) \in Nat /\ Cardinality(T \ {x}) = Cardinality(T) - 1
    BY <2>2, <2>3, FS_RemoveElement, FS_CardinalityType
  <2>8. ASSUME NEW n \in Nat PROVE c * n = c + c * (n - 1)
    OBVIOUS
  <2> QED
    BY <2>2, <2>4, <2>6, <2>7, <2>8
<1> QED
  BY <1>1, <1>2 DEF B

-----------------------------------------------------------------------------
(* Ranks: the members of a finite set in the order of a number they have.   *)

\* One of them has the highest.
LEMMA Highest ==
  ASSUME NEW S, IsFiniteSet(S), S # {}, NEW key, \A s \in S : key[s] \in Int
  PROVE  \E t \in S : \A s \in S : key[s] <= key[t]
<1> DEFINE B == {T \in SUBSET S : T # {} /\ \A t \in T : \E s \in T : ~ key[s] <= key[t]}
<1>1. B \in SUBSET SUBSET S
  OBVIOUS
<1>2. ASSUME B # {} PROVE FALSE
  <2> HIDE DEF B
  <2>1. PICK T \in B : \A U \in B : U \subseteq T => U = T
    BY <1>1, <1>2, Smallest
  <2>2. T \in SUBSET S /\ T # {} /\ \A t \in T : \E s \in T : ~ key[s] <= key[t]
    BY <2>1 DEF B
  <2>3. PICK x \in T : TRUE
    BY <2>2
  <2>4. T \ {x} # {}
    <3>1. x \in S /\ key[x] <= key[x]
      BY <2>2, <2>3
    <3> QED
      BY <2>2, <2>3, <3>1
  <2>5. T \ {x} \in SUBSET S /\ T \ {x} \notin B
    BY <2>1, <2>2, <2>3
  <2>6. PICK t \in T \ {x} : \A s \in T \ {x} : key[s] <= key[t]
    BY <2>4, <2>5 DEF B
  <2>7. key[t] \in Int /\ key[x] \in Int /\ \A s \in T : key[s] \in Int
    BY <2>2, <2>3, <2>6
  <2>8. CASE key[x] <= key[t]
    BY <2>2, <2>6, <2>8
  <2>9. CASE ~ key[x] <= key[t]
    <3>1. \A s \in T : key[s] <= key[x]
      BY <2>6, <2>7, <2>9
    <3> QED
      BY <2>2, <2>3, <3>1
  <2> QED
    BY <2>8, <2>9
<1> QED
  BY <1>1, <1>2 DEF B

\* How many of S have a number that is no higher.
Rank(S, key, s) == Cardinality({r \in S : key[r] <= key[s]})

\* Where no two have the same number, every rank is somebody's.
LEMMA RankTaken ==
  ASSUME NEW S, IsFiniteSet(S), NEW key, \A s \in S : key[s] \in Int,
         \A r, s \in S : key[r] = key[s] => r = s,
         NEW n \in 1 .. Cardinality(S)
  PROVE  \E s \in S : Rank(S, key, s) = n
<1> DEFINE B == {T \in SUBSET S : \E m \in 1 .. Cardinality(T) : \A s \in T : Rank(T, key, s) # m}
<1>1. B \in SUBSET SUBSET S
  OBVIOUS
<1>2. ASSUME B # {} PROVE FALSE
  <2> HIDE DEF B
  <2>1. PICK T \in B : \A U \in B : U \subseteq T => U = T
    BY <1>1, <1>2, Smallest
  <2>2. T \in SUBSET S /\ IsFiniteSet(T) /\ Cardinality(T) \in Nat
    BY <2>1, FS_Subset, FS_CardinalityType DEF B
  <2>3. PICK m \in 1 .. Cardinality(T) : \A s \in T : Rank(T, key, s) # m
    BY <2>1 DEF B
  <2>4. T # {}
    BY <2>2, <2>3, FS_EmptySet
  <2>5. PICK t \in T : \A s \in T : key[s] <= key[t]
    BY <2>2, <2>4, Highest
  <2>6. {r \in T : key[r] <= key[t]} = T
    BY <2>5
  <2>7. m # Cardinality(T)
    BY <2>3, <2>6 DEF Rank
  <2> DEFINE U == T \ {t}
  <2>8. Cardinality(U) = Cardinality(T) - 1 /\ U # T /\ U \in SUBSET S
    BY <2>2, <2>5, FS_RemoveElement
  <2>9. m \in 1 .. Cardinality(U)
    BY <2>2, <2>3, <2>7, <2>8
  <2>10. U \notin B
    BY <2>1, <2>8
  <2>11. PICK s \in U : Rank(U, key, s) = m
    BY <2>8, <2>9, <2>10 DEF B
  <2>12. ~ key[t] <= key[s]
    <3>1. s \in S /\ t \in S /\ s # t /\ s \in T
      BY <2>2, <2>5, <2>11
    <3>2. key[s] <= key[t] /\ key[s] # key[t] /\ key[s] \in Int /\ key[t] \in Int
      BY <2>5, <3>1
    <3> QED
      BY <3>2
  <2>13. {r \in T : key[r] <= key[s]} = {r \in U : key[r] <= key[s]}
    BY <2>12
  <2> QED
    BY <2>3, <2>11, <2>13 DEF Rank
<1> QED
  BY <1>1, <1>2 DEF B

=============================================================================

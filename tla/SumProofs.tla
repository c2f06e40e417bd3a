------------------------------- MODULE SumProofs -------------------------------
(***************************************************************************)
(* Lemmas about SumFunctionOnSet, with which the specifications total the  *)
(* amounts of records. The operator is a recursion over the subsets of a   *)
(* finite set, so each lemma rests on an induction stated over a set of    *)
(* subsets, by the minimal element of a well-founded ordering.             *)
(***************************************************************************)
EXTENDS Integers, FiniteSetsExt, Functions, FiniteSetTheorems, WellFoundedInduction, TLAPS

\* Induction over the numbers and over the subsets of a finite set: G is the set
\* of the values of which the claim holds.
NatLess == {p \in Nat \X Nat : p[1] < p[2]}

LEMMA NatLessWellFounded == IsWellFoundedOn(NatLess, Nat)
<1>1. OpToRel(<, Nat) = NatLess
  BY DEF OpToRel, NatLess
<1> QED BY <1>1, NatLessThanWellFounded

LEMMA NumberInduction ==
  ASSUME NEW G, 0 \in G, \A n \in Nat : n \in G => n + 1 \in G
  PROVE  Nat \subseteq G
<1> DEFINE Bad == Nat \ G
<1> SUFFICES ASSUME Bad # {} PROVE FALSE
  OBVIOUS
<1>1. PICK n \in Bad : \A m \in Bad : ~ (<<m, n>> \in NatLess)
  BY NatLessWellFounded, WFMin
<1>2. n - 1 \in Nat /\ n - 1 < n
  BY <1>1
<1>3. n - 1 \in G
  BY <1>1, <1>2 DEF NatLess
<1> QED BY <1>1, <1>2, <1>3

LEMMA FiniteInduction ==
  ASSUME NEW S, IsFiniteSet(S), NEW G,
         \A T \in SUBSET S : (\A x \in T : T \ {x} \in G) => T \in G
  PROVE  SUBSET S \subseteq G
<1> DEFINE Bad == (SUBSET S) \ G
<1> SUFFICES ASSUME Bad # {} PROVE FALSE
  OBVIOUS
<1>1. IsWellFoundedOn(StrictSubsetOrdering(S), SUBSET S)
  <2>1. FiniteSubsetsOf(S) = SUBSET S
    BY FS_FiniteSubsetsOfFinite
  <2>2. IsWellFoundedOn(StrictSubsetOrdering(S), FiniteSubsetsOf(S))
    BY FS_StrictSubsetOrderingWellFounded
  <2> QED BY <2>1, <2>2
<1>2. Bad \subseteq SUBSET S
  OBVIOUS
<1>3. PICK T \in Bad : \A U \in Bad : ~ (<<U, T>> \in StrictSubsetOrdering(S))
  BY <1>1, <1>2, WFMin
<1>4. PICK x \in T : T \ {x} \notin G
  BY <1>3
<1>5. <<T \ {x}, T>> \in StrictSubsetOrdering(S)
  <2>1. T \ {x} \subseteq T /\ T \ {x} # T /\ T \in SUBSET S
    BY <1>4
  <2> QED BY <2>1 DEF StrictSubsetOrdering
<1>6. T \ {x} \in Bad
  BY <1>4
<1> QED BY <1>3, <1>5, <1>6

-----------------------------------------------------------------------------
\* The recursion of SumFunctionOnSet: f gives every subset of S its sum.
Pick(s) == CHOOSE x \in s : TRUE
SumStep(f, w, s) == IF s = {} THEN 0 ELSE w[Pick(s)] + f[s \ {Pick(s)}]
IsSum(f, w, S) == f = [s \in SUBSET S |-> SumStep(f, w, s)]

LEMMA SumDef ==
  ASSUME NEW w, NEW S
  PROVE  SumFunctionOnSet(w, S) = (CHOOSE f : IsSum(f, w, S))[S]
BY DEF SumFunctionOnSet, FoldFunctionOnSet, MapThenFoldSet, IsSum, SumStep, Pick

\* There is such a function: it is reached by bounding the size of the subsets
\* it is right about.
LEMMA SumExists ==
  ASSUME NEW w, NEW S, IsFiniteSet(S)
  PROVE  \E f : IsSum(f, w, S)
<1> DEFINE UpTo(g, n) ==
             g = [s \in SUBSET S |-> IF Cardinality(s) <= n THEN SumStep(g, w, s) ELSE 0]
           G == {n \in Nat : \E g : UpTo(g, n)}
<1>0. \A s \in SUBSET S : IsFiniteSet(s) /\ Cardinality(s) \in Nat
                          /\ Cardinality(s) <= Cardinality(S)
  BY FS_Subset, FS_CardinalityType
<1>1. 0 \in G
  <2> DEFINE g == [s \in SUBSET S |-> 0]
  <2>1. ASSUME NEW s \in SUBSET S, Cardinality(s) <= 0 PROVE SumStep(g, w, s) = 0
    <3>1. Cardinality(s) = 0
      BY <1>0, <2>1
    <3>2. s = {}
      BY <1>0, <3>1, FS_EmptySet
    <3> QED BY <3>2 DEF SumStep
  <2>2. UpTo(g, 0)
    BY <2>1
  <2> QED BY <2>2
<1>2. ASSUME NEW n \in Nat, n \in G PROVE n + 1 \in G
  <2>1. PICK g : UpTo(g, n)
    BY <1>2
  <2> DEFINE h == [s \in SUBSET S |-> IF Cardinality(s) <= n + 1 THEN SumStep(g, w, s) ELSE 0]
  <2>2. ASSUME NEW s \in SUBSET S, Cardinality(s) <= n + 1, s # {}
        PROVE  h[s \ {Pick(s)}] = g[s \ {Pick(s)}]
    <3> DEFINE t == s \ {Pick(s)}
    <3>1. Pick(s) \in s
      BY <2>2 DEF Pick
    <3>2. t \in SUBSET S /\ Cardinality(t) = Cardinality(s) - 1
      BY <1>0, <3>1, FS_RemoveElement
    <3>3. Cardinality(t) <= n /\ Cardinality(t) <= n + 1
      BY <1>0, <2>2, <3>2
    <3>4. g[t] = SumStep(g, w, t)
      BY <2>1, <3>2, <3>3
    <3>5. h[t] = SumStep(g, w, t)
      BY <3>2, <3>3
    <3> QED BY <3>4, <3>5
  <2>3. ASSUME NEW s \in SUBSET S, Cardinality(s) <= n + 1
        PROVE  SumStep(h, w, s) = SumStep(g, w, s)
    <3> HIDE DEF h
    <3> QED BY <2>2, <2>3 DEF SumStep
  <2>4. UpTo(h, n + 1)
    <3>1. h = [s \in SUBSET S |-> IF Cardinality(s) <= n + 1 THEN SumStep(g, w, s) ELSE 0]
      OBVIOUS
    <3> HIDE DEF h
    <3> QED BY <2>3, <3>1
  <2> HIDE DEF h, UpTo
  <2> QED BY <2>4
<1>3. Cardinality(S) \in G
  <2> HIDE DEF G
  <2> QED BY <1>0, <1>1, <1>2, NumberInduction, FS_CardinalityType
<1>4. PICK f : UpTo(f, Cardinality(S))
  BY <1>3
<1>5. IsSum(f, w, S)
  BY <1>0, <1>4 DEF IsSum
<1> QED BY <1>5

\* Two such functions, on two sets, agree where both are defined.
LEMMA SumUnique ==
  ASSUME NEW w, NEW S, NEW T, NEW U, IsFiniteSet(U), U \subseteq S, U \subseteq T,
         NEW f, NEW g, IsSum(f, w, S), IsSum(g, w, T)
  PROVE  f[U] = g[U]
<1> DEFINE G == {V \in SUBSET U : f[V] = g[V]}
<1>1. ASSUME NEW V \in SUBSET U, \A x \in V : V \ {x} \in G PROVE V \in G
  <2>1. f[V] = SumStep(f, w, V) /\ g[V] = SumStep(g, w, V)
    BY DEF IsSum
  <2>2. V # {} => Pick(V) \in V
    BY DEF Pick
  <2>3. V # {} => f[V \ {Pick(V)}] = g[V \ {Pick(V)}]
    BY <1>1, <2>2
  <2>4. f[V] = g[V]
    BY <2>1, <2>3 DEF SumStep
  <2> QED BY <2>4
<1>2. SUBSET U \subseteq G
  <2> HIDE DEF G
  <2> QED BY <1>1, FiniteInduction
<1> QED BY <1>2

\* The recursion, one element at a time.
LEMMA SumRecursion ==
  ASSUME NEW w, NEW S, IsFiniteSet(S)
  PROVE  SumFunctionOnSet(w, S) =
           IF S = {} THEN 0
           ELSE w[Pick(S)] + SumFunctionOnSet(w, S \ {Pick(S)})
<1> DEFINE F(T) == CHOOSE f : IsSum(f, w, T)
           R == S \ {Pick(S)}
<1>1. IsFiniteSet(R) /\ R \subseteq S
  BY FS_RemoveElement
<1>2. IsSum(F(S), w, S)
  BY SumExists
<1>3. IsSum(F(R), w, R)
  BY <1>1, SumExists
<1>4. SumFunctionOnSet(w, S) = F(S)[S] /\ SumFunctionOnSet(w, R) = F(R)[R]
  BY SumDef
<1> HIDE DEF F
<1>5. F(S)[S] = SumStep(F(S), w, S)
  BY <1>2 DEF IsSum
<1>6. F(S)[R] = F(R)[R]
  BY <1>1, <1>2, <1>3, SumUnique
<1> QED BY <1>4, <1>5, <1>6 DEF SumStep

-----------------------------------------------------------------------------
\* Nothing sums to nothing.
LEMMA SumEmpty ==
  ASSUME NEW w
  PROVE  SumFunctionOnSet(w, {}) = 0
BY SumRecursion, FS_EmptySet

\* A sum of numbers is a number.
LEMMA SumType ==
  ASSUME NEW w, NEW S, IsFiniteSet(S), \A x \in S : w[x] \in Nat
  PROVE  SumFunctionOnSet(w, S) \in Nat
<1> DEFINE G == {T \in SUBSET S : SumFunctionOnSet(w, T) \in Nat}
<1>1. ASSUME NEW T \in SUBSET S, \A x \in T : T \ {x} \in G PROVE T \in G
  <2>1. IsFiniteSet(T)
    BY FS_Subset
  <2>2. T # {} => Pick(T) \in T
    BY DEF Pick
  <2>3. T # {} => w[Pick(T)] \in Nat /\ SumFunctionOnSet(w, T \ {Pick(T)}) \in Nat
    BY <1>1, <2>2
  <2>4. SumFunctionOnSet(w, T) =
          IF T = {} THEN 0 ELSE w[Pick(T)] + SumFunctionOnSet(w, T \ {Pick(T)})
    BY <2>1, SumRecursion
  <2>5. SumFunctionOnSet(w, T) \in Nat
    BY <2>3, <2>4
  <2> QED BY <2>5
<1>2. SUBSET S \subseteq G
  <2> HIDE DEF G
  <2> QED BY <1>1, FiniteInduction
<1> QED BY <1>2

\* The sum does not depend on the element the recursion picks.
LEMMA SumRemove ==
  ASSUME NEW w, NEW S, IsFiniteSet(S), \A x \in S : w[x] \in Nat, NEW e \in S
  PROVE  SumFunctionOnSet(w, S) = SumFunctionOnSet(w, S \ {e}) + w[e]
<1> DEFINE Sum(T) == SumFunctionOnSet(w, T)
           G == {T \in SUBSET S : \A x \in T : Sum(T) = Sum(T \ {x}) + w[x]}
<1>0. \A T \in SUBSET S : IsFiniteSet(T) /\ Sum(T) \in Nat
  BY FS_Subset, SumType
<1>1. ASSUME NEW T \in SUBSET S, \A x \in T : T \ {x} \in G PROVE T \in G
  <2> SUFFICES ASSUME NEW x \in T PROVE Sum(T) = Sum(T \ {x}) + w[x]
    OBVIOUS
  <2> DEFINE p == Pick(T)
  <2>1. p \in T
    BY DEF Pick
  <2>2. Sum(T) = w[p] + Sum(T \ {p})
    BY <1>0, SumRecursion
  <2> HIDE DEF p
  <2>3. w[p] \in Nat /\ w[x] \in Nat /\ Sum(T \ {x}) \in Nat /\ Sum(T \ {p}) \in Nat
        /\ Sum((T \ {p}) \ {x}) \in Nat
    BY <1>0, <2>1
  <2> HIDE DEF Sum
  <2>4. CASE x = p
    BY <2>2, <2>3, <2>4
  <2>5. CASE x # p
    <3>1. Sum(T \ {p}) = Sum((T \ {p}) \ {x}) + w[x]
      BY <1>1, <2>1, <2>5
    <3>2. Sum(T \ {x}) = Sum((T \ {x}) \ {p}) + w[p]
      BY <1>1, <2>1, <2>5
    <3>3. (T \ {x}) \ {p} = (T \ {p}) \ {x}
      OBVIOUS
    <3> QED BY <2>2, <2>3, <3>1, <3>2, <3>3
  <2> QED BY <2>4, <2>5
<1>2. SUBSET S \subseteq G
  <2> HIDE DEF G
  <2> QED BY <1>1, FiniteInduction
<1>3. S \in G
  BY <1>2
<1> QED BY <1>3

\* One more element adds its value.
LEMMA SumAdd ==
  ASSUME NEW w, NEW S, IsFiniteSet(S), NEW e, e \notin S, \A x \in S \cup {e} : w[x] \in Nat
  PROVE  SumFunctionOnSet(w, S \cup {e}) = SumFunctionOnSet(w, S) + w[e]
<1>1. IsFiniteSet(S \cup {e}) /\ (S \cup {e}) \ {e} = S
  BY FS_AddElement
<1> QED BY <1>1, SumRemove

\* The sum depends on the values on the set only.
LEMMA SumSame ==
  ASSUME NEW w, NEW v, NEW S, IsFiniteSet(S), \A x \in S : w[x] = v[x]
  PROVE  SumFunctionOnSet(w, S) = SumFunctionOnSet(v, S)
<1> DEFINE G == {T \in SUBSET S : SumFunctionOnSet(w, T) = SumFunctionOnSet(v, T)}
<1>1. ASSUME NEW T \in SUBSET S, \A x \in T : T \ {x} \in G PROVE T \in G
  <2>1. IsFiniteSet(T)
    BY FS_Subset
  <2>2. T # {} => Pick(T) \in T
    BY DEF Pick
  <2>3. T # {} => w[Pick(T)] = v[Pick(T)]
                  /\ SumFunctionOnSet(w, T \ {Pick(T)}) = SumFunctionOnSet(v, T \ {Pick(T)})
    BY <1>1, <2>2
  <2> QED BY <2>1, <2>3, SumRecursion
<1>2. SUBSET S \subseteq G
  <2> HIDE DEF G
  <2> QED BY <1>1, FiniteInduction
<1> QED BY <1>2

\* Sums of disjoint sets add up.
LEMMA SumUnion ==
  ASSUME NEW w, NEW S, NEW T, IsFiniteSet(S), IsFiniteSet(T), S \cap T = {},
         \A x \in S \cup T : w[x] \in Nat
  PROVE  SumFunctionOnSet(w, S \cup T) = SumFunctionOnSet(w, S) + SumFunctionOnSet(w, T)
<1> DEFINE Sum(U) == SumFunctionOnSet(w, U)
           G == {U \in SUBSET T : Sum(S \cup U) = Sum(S) + Sum(U)}
<1>0. Sum(S) \in Nat /\ \A U \in SUBSET T : IsFiniteSet(U) /\ Sum(U) \in Nat
  BY FS_Subset, SumType
<1>1. ASSUME NEW U \in SUBSET T, \A x \in U : U \ {x} \in G PROVE U \in G
  <2>1. CASE U = {}
    <3>1. S \cup U = S /\ Sum(U) = 0
      BY <2>1, SumEmpty
    <3> HIDE DEF Sum
    <3> QED BY <1>0, <3>1
  <2>2. CASE U # {}
    <3>1. PICK x \in U : TRUE
      BY <2>2
    <3>2. x \notin S /\ S \cup U = (S \cup (U \ {x})) \cup {x} /\ x \notin S \cup (U \ {x})
      BY <3>1
    <3>3. IsFiniteSet(U \ {x}) /\ IsFiniteSet(S \cup (U \ {x}))
      BY <1>0, FS_Union
    <3>4. Sum((S \cup (U \ {x})) \cup {x}) = Sum(S \cup (U \ {x})) + w[x]
      BY <3>1, <3>2, <3>3, SumAdd
    <3>5. Sum(S \cup (U \ {x})) = Sum(S) + Sum(U \ {x})
      BY <1>1, <3>1
    <3>6. Sum(U) = Sum(U \ {x}) + w[x]
      BY <1>0, <3>1, SumRemove
    <3>7. Sum(U \ {x}) \in Nat /\ w[x] \in Nat
      BY <1>0, <3>1
    <3> HIDE DEF Sum
    <3>8. Sum(S \cup U) = Sum(S) + Sum(U \ {x}) + w[x]
      BY <3>2, <3>4, <3>5
    <3>9. Sum(S \cup U) = Sum(S) + Sum(U)
      BY <1>0, <3>6, <3>7, <3>8
    <3> QED BY <3>9
  <2> QED BY <2>1, <2>2
<1>2. SUBSET T \subseteq G
  <2> HIDE DEF G
  <2> QED BY <1>1, FiniteInduction
<1> QED BY <1>2

\* The sum over a part is no greater.
LEMMA SumSubset ==
  ASSUME NEW w, NEW T, IsFiniteSet(T), NEW S \in SUBSET T, \A x \in T : w[x] \in Nat
  PROVE  SumFunctionOnSet(w, S) <= SumFunctionOnSet(w, T)
<1>1. IsFiniteSet(S) /\ IsFiniteSet(T \ S) /\ S \cap (T \ S) = {} /\ S \cup (T \ S) = T
  BY FS_Subset
<1>2. SumFunctionOnSet(w, T) = SumFunctionOnSet(w, S) + SumFunctionOnSet(w, T \ S)
  BY <1>1, SumUnion
<1>3. SumFunctionOnSet(w, S) \in Nat /\ SumFunctionOnSet(w, T \ S) \in Nat
  BY <1>1, SumType
<1> QED BY <1>2, <1>3

\* A file that keeps its values and gains a key gains the value of that key.
LEMMA SumExtended ==
  ASSUME NEW w, NEW v, NEW S, IsFiniteSet(S), NEW e, e \notin S,
         \A x \in S : v[x] = w[x] /\ w[x] \in Nat, v[e] \in Nat
  PROVE  SumFunctionOnSet(v, S \cup {e}) = SumFunctionOnSet(w, S) + v[e]
<1>1. SumFunctionOnSet(v, S \cup {e}) = SumFunctionOnSet(v, S) + v[e]
  BY SumAdd
<1>2. SumFunctionOnSet(v, S) = SumFunctionOnSet(w, S)
  BY SumSame
<1> QED BY <1>1, <1>2

\* Values that are d times as small one by one are so in total.
LEMMA SumScaled ==
  ASSUME NEW w, NEW v, NEW S, IsFiniteSet(S), NEW d \in Nat,
         \A x \in S : w[x] \in Nat /\ v[x] \in Nat /\ w[x] * d <= v[x]
  PROVE  SumFunctionOnSet(w, S) * d <= SumFunctionOnSet(v, S)
<1> DEFINE G == {T \in SUBSET S : SumFunctionOnSet(w, T) * d <= SumFunctionOnSet(v, T)}
<1>1. ASSUME NEW T \in SUBSET S, \A x \in T : T \ {x} \in G PROVE T \in G
  <2>1. CASE T = {}
    <3>1. SumFunctionOnSet(w, T) = 0 /\ SumFunctionOnSet(v, T) = 0
      BY <2>1, SumEmpty
    <3>2. SumFunctionOnSet(w, T) * d <= SumFunctionOnSet(v, T)
      BY <3>1
    <3> QED BY <3>2
  <2>2. CASE T # {}
    <3>1. PICK e \in T : TRUE
      BY <2>2
    <3> DEFINE a == SumFunctionOnSet(w, T \ {e})
               b == SumFunctionOnSet(v, T \ {e})
    <3>2. IsFiniteSet(T) /\ IsFiniteSet(T \ {e})
      BY FS_Subset
    <3>3. a \in Nat /\ b \in Nat
      BY <3>2, SumType
    <3>4. SumFunctionOnSet(w, T) = a + w[e] /\ SumFunctionOnSet(v, T) = b + v[e]
      BY <3>1, <3>2, SumRemove
    <3>5. a * d <= b
      BY <1>1, <3>1
    <3> HIDE DEF a, b
    <3>6. (a + w[e]) * d <= b + v[e]
      <4>1. w[e] \in Nat /\ v[e] \in Nat /\ w[e] * d <= v[e]
        BY <3>1
      <4>2. (a + w[e]) * d = a * d + w[e] * d
        BY <3>3, <4>1
      <4>3. a * d \in Nat /\ w[e] * d \in Nat
        BY <3>3, <4>1
      <4> QED BY <3>3, <3>5, <4>1, <4>2, <4>3
    <3>7. SumFunctionOnSet(w, T) * d <= SumFunctionOnSet(v, T)
      BY <3>4, <3>6
    <3> QED BY <3>7
  <2> QED BY <2>1, <2>2
<1>2. SUBSET S \subseteq G
  <2> HIDE DEF G
  <2> QED BY <1>1, FiniteInduction
<1> QED BY <1>2

\* A finite set of numbers has a greatest element, the one Max chooses.
LEMMA MaxBounds ==
  ASSUME NEW S \in SUBSET Nat, IsFiniteSet(S), S # {}
  PROVE  Max(S) \in S /\ \A x \in S : x <= Max(S)
<1> DEFINE G == {T \in SUBSET S : T = {} \/ \E m \in T : \A x \in T : x <= m}
<1>1. ASSUME NEW T \in SUBSET S, \A x \in T : T \ {x} \in G PROVE T \in G
  <2> SUFFICES ASSUME T # {} PROVE \E m \in T : \A x \in T : x <= m
    OBVIOUS
  <2>1. PICK e \in T : TRUE
    OBVIOUS
  <2>2. CASE T \ {e} = {}
    BY <2>1, <2>2
  <2>3. CASE T \ {e} # {}
    <3>1. PICK m \in T \ {e} : \A x \in T \ {e} : x <= m
      BY <1>1, <2>1, <2>3
    <3>2. CASE m <= e
      BY <2>1, <3>1, <3>2
    <3>3. CASE ~ m <= e
      BY <2>1, <3>1, <3>3
    <3> QED BY <3>2, <3>3
  <2> QED BY <2>2, <2>3
<1>2. SUBSET S \subseteq G
  <2> HIDE DEF G
  <2> QED BY <1>1, FiniteInduction
<1>3. \E m \in S : \A x \in S : x <= m
  BY <1>2
<1> QED BY <1>3 DEF Max

\* And any set of numbers has a least one, the one Min chooses.
LEMMA MinBounds ==
  ASSUME NEW S \in SUBSET Nat, S # {}
  PROVE  Min(S) \in S /\ \A x \in S : Min(S) <= x
<1>1. PICK m \in S : \A x \in S : ~ (<<x, m>> \in NatLess)
  BY NatLessWellFounded, WFMin
<1>2. ASSUME NEW x \in S
      PROVE  m <= x
  <2>1. ~ (x < m)
    BY <1>1 DEF NatLess
  <2> QED BY <2>1
<1> QED BY <1>2 DEF Min
=============================================================================

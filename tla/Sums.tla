--------------------------------- MODULE Sums ---------------------------------
(***************************************************************************)
(* Sums over a finite set, as MapThenSumSet of the community modules adds  *)
(* them up: what a step changes in them.  The recursion is unfolded and    *)
(* its facts are proved by the smallest counterexample: a set of subsets   *)
(* of a finite set has a least element.                                    *)
(***************************************************************************)
EXTENDS FiniteSetsExt, FiniteSetTheorems, TLAPS

Sum(f, S) == MapThenSumSet(LAMBDA x : f[x], S)

Pick(T) == CHOOSE x \in T : TRUE

\* g is the recursive function that MapThenSumSet declares for f and S.
Adds(g, f, S) ==
    g = [T \in SUBSET S |-> IF T = {} THEN 0 ELSE f[Pick(T)] + g[T \ {Pick(T)}]]

\* The definition, with its recursive function made a bound variable.
LEMMA SumIsChoice ==
    ASSUME NEW f, NEW S
    PROVE  Sum(f, S) = (CHOOSE g : Adds(g, f, S))[S]
  BY DEF Sum, MapThenSumSet, MapThenFoldSet, Adds, Pick

\* An element of a set that has one.
LEMMA PickIn ==
    ASSUME NEW T, T # {}
    PROVE  Pick(T) \in T
  BY DEF Pick

\* A nonempty set of finite sets has an element that includes no other one.
LEMMA Smallest ==
    ASSUME NEW S, IsFiniteSet(S), NEW Bad \in SUBSET (SUBSET S), Bad # {}
    PROVE  \E T \in Bad : IsFiniteSet(T) /\ \A U \in SUBSET T : U \in Bad => U = T
<1>1. \A T \in SUBSET S : IsFiniteSet(T)
  BY FS_Subset
<1>2. Bad \subseteq FiniteSubsetsOf(S)
  BY <1>1 DEF FiniteSubsetsOf
<1>3. PICK T \in Bad : \A U \in Bad : ~ (<<U, T>> \in StrictSubsetOrdering(S))
  <2>1. IsWellFoundedOn(StrictSubsetOrdering(S), FiniteSubsetsOf(S))
    BY FS_StrictSubsetOrderingWellFounded
  <2> HIDE DEF FiniteSubsetsOf
  <2> QED
    BY <1>2, <2>1, WFMin
<1>4. \A U \in SUBSET T : U \in Bad => U = T
  BY <1>3 DEF StrictSubsetOrdering
<1> QED
  BY <1>1, <1>3, <1>4

\* There is one such function.
LEMMA AddsOnce ==
    ASSUME NEW f, NEW S, IsFiniteSet(S), NEW g, Adds(g, f, S), NEW h, Adds(h, f, S)
    PROVE  g = h
<1> DEFINE Bad == {T \in SUBSET S : g[T] # h[T]}
<1>1. ASSUME Bad # {} PROVE FALSE
  <2>1. PICK T \in Bad : \A U \in SUBSET T : U \in Bad => U = T
    <3>1. Bad \in SUBSET (SUBSET S)
      OBVIOUS
    <3> HIDE DEF Bad
    <3> QED
      BY <1>1, <3>1, Smallest
  <2>2. T \in SUBSET S /\ g[T] # h[T]
    BY <2>1
  <2>3. T # {}
    BY <2>2 DEF Adds
  <2>4. g[T \ {Pick(T)}] = h[T \ {Pick(T)}]
    <3>1. Pick(T) \in T
      BY <2>3, PickIn
    <3> QED
      BY <2>1, <2>2, <3>1
  <2> QED
    BY <2>2, <2>3, <2>4 DEF Adds
<1> QED
  BY <1>1 DEF Adds

\* Its part for the subsets of T is that of T.
LEMMA AddsBelow ==
    ASSUME NEW f, NEW S, NEW g, Adds(g, f, S), NEW T \in SUBSET S
    PROVE  Adds([U \in SUBSET T |-> g[U]], f, T)
<1> DEFINE h == [U \in SUBSET T |-> g[U]]
<1>1. ASSUME NEW U \in SUBSET T
      PROVE  h[U] = IF U = {} THEN 0 ELSE f[Pick(U)] + h[U \ {Pick(U)}]
  BY DEF Adds
<1> QED
  BY <1>1 DEF Adds

\* There is such a function: larger sets take it from the smaller ones.
LEMMA AddsExists ==
    ASSUME NEW f, NEW S, IsFiniteSet(S)
    PROVE  \E g : Adds(g, f, S)
<1> DEFINE Bad == {T \in SUBSET S : ~ \E g : Adds(g, f, T)}
<1>1. ASSUME Bad # {} PROVE FALSE
  <2>1. PICK T \in Bad : IsFiniteSet(T) /\ \A U \in SUBSET T : U \in Bad => U = T
    <3>1. Bad \in SUBSET (SUBSET S)
      OBVIOUS
    <3> HIDE DEF Bad
    <3> QED
      BY <1>1, <3>1, Smallest
  <2>2. T \in SUBSET S /\ ~ \E g : Adds(g, f, T)
    BY <2>1
  <2> DEFINE G(U) == CHOOSE g : Adds(g, f, U)
             h == [U \in SUBSET T |-> IF U = {} THEN 0
                      ELSE f[Pick(U)] + G(U \ {Pick(U)})[U \ {Pick(U)}]]
  <2>3. ASSUME NEW U \in SUBSET T, U # T
        PROVE  Adds(G(U), f, U) /\ IsFiniteSet(U)
    <3>1. \E g : Adds(g, f, U)
      BY <2>1, <2>2, <2>3
    <3> QED
      BY <2>1, <3>1, FS_Subset
  <2> HIDE DEF G
  <2>4. ASSUME NEW U \in SUBSET T, U # T, U # {}
        PROVE  G(U)[U] = f[Pick(U)] + G(U \ {Pick(U)})[U \ {Pick(U)}]
    <3> DEFINE V == U \ {Pick(U)}
               k == [W \in SUBSET V |-> G(U)[W]]
    <3>1. Pick(U) \in U
      BY <2>4, PickIn
    <3>2. Adds(G(U), f, U) /\ Adds(G(V), f, V) /\ IsFiniteSet(V)
      BY <2>3, <2>4
    <3>3. Adds(k, f, V)
      BY <3>2, AddsBelow
    <3> HIDE DEF V
    <3>4. k = G(V)
      BY <3>2, <3>3, AddsOnce
    <3>5. k[V] = G(U)[V]
      OBVIOUS
    <3>6. G(U)[U] = f[Pick(U)] + G(U)[U \ {Pick(U)}]
      BY <2>4, <3>2 DEF Adds
    <3> QED
      BY <3>4, <3>5, <3>6 DEF V
  <2>5. ASSUME NEW U \in SUBSET T, U # {}
        PROVE  h[U] = f[Pick(U)] + h[U \ {Pick(U)}]
    <3> DEFINE V == U \ {Pick(U)}
    <3>1. Pick(U) \in U
      BY <2>5, PickIn
    <3>2. V \in SUBSET T /\ V # T
      BY <3>1
    <3>3. CASE V = {}
      <4>1. Adds(G({}), f, {})
        BY <2>3, <3>2, <3>3
      <4>2. G({})[{}] = 0
        BY <4>1 DEF Adds
      <4> QED
        BY <2>5, <3>2, <3>3, <4>2
    <3>4. CASE V # {}
      <4>1. G(V)[V] = f[Pick(V)] + G(V \ {Pick(V)})[V \ {Pick(V)}]
        BY <2>4, <3>2, <3>4
      <4> QED
        BY <2>5, <3>2, <3>4, <4>1
    <3> QED
      BY <3>3, <3>4
  <2>6. Adds(h, f, T)
    <3>1. \A U \in SUBSET T : h[U] = IF U = {} THEN 0 ELSE f[Pick(U)] + h[U \ {Pick(U)}]
      BY <2>5
    <3>2. h = [U \in SUBSET T |-> h[U]]
      OBVIOUS
    <3> HIDE DEF h
    <3> QED
      BY <3>1, <3>2 DEF Adds
  <2> QED
    BY <2>2, <2>6
<1> QED
  BY <1>1

\* The recursion of the sum.
LEMMA SumStep ==
    ASSUME NEW f, NEW S, IsFiniteSet(S)
    PROVE  Sum(f, S) = IF S = {} THEN 0 ELSE f[Pick(S)] + Sum(f, S \ {Pick(S)})
<1> DEFINE G(U) == CHOOSE g : Adds(g, f, U)
<1>1. \A U \in SUBSET S : Adds(G(U), f, U) /\ IsFiniteSet(U)
  BY AddsExists, FS_Subset
<1>2. \A U : Sum(f, U) = G(U)[U]
  BY SumIsChoice
<1> HIDE DEF G
<1>3. CASE S = {}
  BY <1>1, <1>2, <1>3 DEF Adds
<1>4. CASE S # {}
  <2> DEFINE V == S \ {Pick(S)}
             k == [W \in SUBSET V |-> G(S)[W]]
  <2>1. Adds(G(S), f, S) /\ Adds(G(V), f, V) /\ IsFiniteSet(V)
    BY <1>1
  <2>2. Adds(k, f, V)
    BY <2>1, AddsBelow
  <2> HIDE DEF V
  <2>3. k = G(V)
    BY <2>1, <2>2, AddsOnce
  <2>4. k[V] = G(S)[V]
    OBVIOUS
  <2>5. G(S)[S] = f[Pick(S)] + G(S)[S \ {Pick(S)}]
    BY <1>4, <2>1 DEF Adds
  <2> QED
    BY <1>2, <1>4, <2>3, <2>4, <2>5 DEF V
<1> QED
  BY <1>3, <1>4

\* Nothing adds up to 0.
LEMMA EmptySum ==
    ASSUME NEW f
    PROVE  Sum(f, {}) = 0
  BY SumStep, FS_EmptySet

\* A sum of integers is one.
LEMMA SumIsInt ==
    ASSUME NEW f, NEW S, IsFiniteSet(S), \A x \in S : f[x] \in Int
    PROVE  Sum(f, S) \in Int
<1> DEFINE Bad == {T \in SUBSET S : Sum(f, T) \notin Int}
<1>1. ASSUME Bad # {} PROVE FALSE
  <2>1. PICK T \in Bad : IsFiniteSet(T) /\ \A U \in SUBSET T : U \in Bad => U = T
    <3>1. Bad \in SUBSET (SUBSET S)
      OBVIOUS
    <3> HIDE DEF Bad
    <3> QED
      BY <1>1, <3>1, Smallest
  <2>2. Sum(f, T) = IF T = {} THEN 0 ELSE f[Pick(T)] + Sum(f, T \ {Pick(T)})
    BY <2>1, SumStep
  <2>3. T # {}
    BY <2>1, <2>2
  <2>4. Pick(T) \in T
    BY <2>3, PickIn
  <2>5. Sum(f, T \ {Pick(T)}) \in Int /\ f[Pick(T)] \in Int
    BY <2>1, <2>4
  <2> QED
    BY <2>1, <2>2, <2>3, <2>5
<1> QED
  BY <1>1

\* Any element can be taken out first.
LEMMA SumSplit ==
    ASSUME NEW f, NEW S, IsFiniteSet(S), \A x \in S : f[x] \in Int, NEW e \in S
    PROVE  Sum(f, S) = f[e] + Sum(f, S \ {e})
<1> DEFINE Bad == {T \in SUBSET S : \E x \in T : Sum(f, T) # f[x] + Sum(f, T \ {x})}
<1>1. ASSUME Bad # {} PROVE FALSE
  <2>1. PICK T \in Bad : IsFiniteSet(T) /\ \A U \in SUBSET T : U \in Bad => U = T
    <3>1. Bad \in SUBSET (SUBSET S)
      OBVIOUS
    <3> HIDE DEF Bad
    <3> QED
      BY <1>1, <3>1, Smallest
  <2>2. T \in SUBSET S
    BY <2>1
  <2>3. PICK x \in T : Sum(f, T) # f[x] + Sum(f, T \ {x})
    BY <2>1
  <2> DEFINE c == Pick(T)
  <2>4. c \in T
    BY <2>3, PickIn
  <2>5. Sum(f, T) = f[c] + Sum(f, T \ {c})
    BY <2>1, <2>3, SumStep
  <2> HIDE DEF c
  <2>6. c # x
    BY <2>3, <2>5
  <2>7. ASSUME NEW U \in SUBSET T, U # T, NEW y \in U
        PROVE  Sum(f, U) = f[y] + Sum(f, U \ {y})
    <3>1. U \in SUBSET S /\ U \notin Bad
      BY <2>1, <2>2, <2>7
    <3> QED
      BY <3>1
  <2>8. Sum(f, T \ {c}) = f[x] + Sum(f, (T \ {c}) \ {x})
    BY <2>3, <2>4, <2>6, <2>7
  <2>9. Sum(f, T \ {x}) = f[c] + Sum(f, (T \ {c}) \ {x})
    <3>1. (T \ {x}) \ {c} = (T \ {c}) \ {x}
      OBVIOUS
    <3> QED
      BY <2>3, <2>4, <2>6, <2>7, <3>1
  <2>10. Sum(f, (T \ {c}) \ {x}) \in Int
    BY <2>2, SumIsInt, FS_Subset
  <2>11. f[x] \in Int /\ f[c] \in Int
    BY <2>2, <2>3, <2>4
  <2> QED
    BY <2>3, <2>5, <2>8, <2>9, <2>10, <2>11
<1> QED
  BY <1>1

\* The sum depends on the values in S only.
LEMMA SumSame ==
    ASSUME NEW f, NEW g, NEW S, IsFiniteSet(S), \A x \in S : f[x] = g[x]
    PROVE  Sum(f, S) = Sum(g, S)
<1> DEFINE Bad == {T \in SUBSET S : Sum(f, T) # Sum(g, T)}
<1>1. ASSUME Bad # {} PROVE FALSE
  <2>1. PICK T \in Bad : IsFiniteSet(T) /\ \A U \in SUBSET T : U \in Bad => U = T
    <3>1. Bad \in SUBSET (SUBSET S)
      OBVIOUS
    <3> HIDE DEF Bad
    <3> QED
      BY <1>1, <3>1, Smallest
  <2>2. /\ Sum(f, T) = IF T = {} THEN 0 ELSE f[Pick(T)] + Sum(f, T \ {Pick(T)})
        /\ Sum(g, T) = IF T = {} THEN 0 ELSE g[Pick(T)] + Sum(g, T \ {Pick(T)})
    BY <2>1, SumStep
  <2>3. T # {}
    BY <2>1, <2>2
  <2>4. Pick(T) \in T
    BY <2>3, PickIn
  <2>5. Sum(f, T \ {Pick(T)}) = Sum(g, T \ {Pick(T)}) /\ f[Pick(T)] = g[Pick(T)]
    BY <2>1, <2>4
  <2> QED
    BY <2>1, <2>2, <2>3, <2>5
<1> QED
  BY <1>1

\* Zeros add up to 0.
LEMMA SumZero ==
    ASSUME NEW f, NEW S, IsFiniteSet(S), \A x \in S : f[x] = 0
    PROVE  Sum(f, S) = 0
<1> DEFINE Bad == {T \in SUBSET S : Sum(f, T) # 0}
<1>1. ASSUME Bad # {} PROVE FALSE
  <2>1. PICK T \in Bad : IsFiniteSet(T) /\ \A U \in SUBSET T : U \in Bad => U = T
    <3>1. Bad \in SUBSET (SUBSET S)
      OBVIOUS
    <3> HIDE DEF Bad
    <3> QED
      BY <1>1, <3>1, Smallest
  <2>2. Sum(f, T) = IF T = {} THEN 0 ELSE f[Pick(T)] + Sum(f, T \ {Pick(T)})
    BY <2>1, SumStep
  <2>3. T # {}
    BY <2>1, <2>2
  <2>4. Pick(T) \in T
    BY <2>3, PickIn
  <2>5. Sum(f, T \ {Pick(T)}) = 0 /\ f[Pick(T)] = 0
    BY <2>1, <2>4
  <2> QED
    BY <2>1, <2>2, <2>3, <2>5
<1> QED
  BY <1>1

\* A change of one value changes the sum by as much.
LEMMA SumUpdate ==
    ASSUME NEW f, NEW g, NEW S, IsFiniteSet(S), NEW e \in S,
           \A x \in S : f[x] \in Int, g[e] \in Int, \A x \in S \ {e} : g[x] = f[x]
    PROVE  Sum(g, S) = Sum(f, S) - f[e] + g[e]
<1>1. IsFiniteSet(S \ {e})
  BY FS_Subset
<1>2. Sum(f, S) = f[e] + Sum(f, S \ {e})
  BY SumSplit
<1>3. Sum(g, S) = g[e] + Sum(g, S \ {e})
  BY SumSplit
<1>4. Sum(g, S \ {e}) = Sum(f, S \ {e})
  BY <1>1, SumSame
<1>5. Sum(f, S \ {e}) \in Int
  BY <1>1, SumIsInt
<1> QED
  BY <1>2, <1>3, <1>4, <1>5

\* A part of a sum of naturals is no larger.
LEMMA SumBelow ==
    ASSUME NEW f, NEW S, IsFiniteSet(S), \A x \in S : f[x] \in Nat, NEW T \in SUBSET S
    PROVE  Sum(f, T) \in Nat /\ Sum(f, S) \in Nat /\ Sum(f, T) <= Sum(f, S)
<1> DEFINE Bad == {U \in SUBSET S : Sum(f, U) \notin Nat
                                    \/ \E V \in SUBSET U : ~(Sum(f, V) <= Sum(f, U))}
<1>1. ASSUME Bad # {} PROVE FALSE
  <2>1. PICK U \in Bad : IsFiniteSet(U) /\ \A V \in SUBSET U : V \in Bad => V = U
    <3>1. Bad \in SUBSET (SUBSET S)
      OBVIOUS
    <3> HIDE DEF Bad
    <3> QED
      BY <1>1, <3>1, Smallest
  <2>2. U \in SUBSET S
    BY <2>1
  <2>3. ASSUME NEW x \in U
        PROVE  /\ Sum(f, U) = f[x] + Sum(f, U \ {x}) /\ f[x] \in Nat
               /\ Sum(f, U \ {x}) \in Nat
               /\ \A V \in SUBSET (U \ {x}) : Sum(f, V) <= Sum(f, U \ {x})
    <3>1. \A y \in U : f[y] \in Int
      BY <2>2
    <3>2. Sum(f, U) = f[x] + Sum(f, U \ {x})
      BY <2>1, <3>1, SumSplit
    <3>3. U \ {x} \in SUBSET S /\ U \ {x} \in SUBSET U /\ U \ {x} # U
      BY <2>2
    <3>4. U \ {x} \notin Bad
      <4> HIDE DEF Bad
      <4> QED
        BY <2>1, <3>3
    <3> QED
      BY <2>2, <3>2, <3>3, <3>4
  <2>4. Sum(f, U) \in Nat
    <3>1. CASE U = {}
      <4>1. Sum(f, {}) = 0
        BY EmptySum
      <4> HIDE DEF Bad
      <4> QED
        BY <3>1, <4>1
    <3>2. CASE U # {}
      <4>1. PICK x \in U : TRUE
        BY <3>2
      <4>2. /\ Sum(f, U) = f[x] + Sum(f, U \ {x})
            /\ f[x] \in Nat /\ Sum(f, U \ {x}) \in Nat
        BY <2>3, <4>1
      <4> HIDE DEF Bad
      <4> QED
        BY <4>2
    <3> QED
      BY <3>1, <3>2
  <2>5. PICK V \in SUBSET U : ~(Sum(f, V) <= Sum(f, U))
    BY <2>1, <2>4
  <2>6. V # U
    BY <2>4, <2>5
  <2>7. PICK x \in U : x \notin V
    BY <2>6
  <2>8. Sum(f, V) <= Sum(f, U \ {x})
    BY <2>3, <2>7
  <2>9. V \in SUBSET S /\ V \in SUBSET U /\ Sum(f, V) \in Int
    <3>1. IsFiniteSet(V) /\ \A y \in V : f[y] \in Int
      BY <2>1, <2>2, FS_Subset
    <3> QED
      BY <2>2, <3>1, SumIsInt
  <2>10. Sum(f, U) = f[x] + Sum(f, U \ {x}) /\ f[x] \in Nat /\ Sum(f, U \ {x}) \in Nat
    BY <2>3
  <2> HIDE DEF Bad
  <2> QED
    BY <2>5, <2>8, <2>9, <2>10
<1> QED
  BY <1>1
===============================================================================

-------------------------------- MODULE Sums --------------------------------
(***************************************************************************)
(* Sums over finite sets: what SumFunctionOnSet of the community module    *)
(* Functions adds up to.  It is a recursive function on the subsets of its *)
(* set; the facts about it are shown from a smallest set without them.     *)
(***************************************************************************)
EXTENDS Functions, FiniteSetTheorems, TLAPS

\* the element a fold takes from a set first
Pick(T) == CHOOSE x \in T : TRUE

\* g adds f up over each subset of S
AddsUp(g, f, S) ==
    g = [T \in SUBSET S |-> IF T = {} THEN 0 ELSE f[Pick(T)] + g[T \ {Pick(T)}]]

LEMMA SumIsFold ==
    ASSUME NEW f, NEW S
    PROVE  SumFunctionOnSet(f, S) = (CHOOSE g : AddsUp(g, f, S))[S]
BY DEF SumFunctionOnSet, FoldFunctionOnSet, MapThenFoldSet, AddsUp, Pick

\* A family of subsets of a finite set has a smallest member.
LEMMA SmallestSubset ==
    ASSUME NEW S, IsFiniteSet(S), NEW F \in SUBSET (SUBSET S), F # {}
    PROVE  \E T \in F : \A U \in F : U \subseteq T => U = T
<1>1. IsWellFoundedOn(StrictSubsetOrdering(S), SUBSET S)
  BY FS_StrictSubsetOrderingWellFounded, FS_FiniteSubsetsOfFinite
<1>2. PICK T \in F : \A U \in F : ~ (<<U, T>> \in StrictSubsetOrdering(S))
  BY <1>1, WFMin
<1>3. QED
  BY <1>2 DEF StrictSubsetOrdering

\* Two functions that add f up agree where both are defined.
LEMMA AddsUpUnique ==
    ASSUME NEW f, NEW A, NEW B, NEW g, NEW h, AddsUp(g, f, A), AddsUp(h, f, B),
           NEW S \in SUBSET (A \intersect B), IsFiniteSet(S)
    PROVE  g[S] = h[S]
<1> DEFINE F == {T \in SUBSET S : g[T] # h[T]}
<1>1. SUFFICES ASSUME F # {} PROVE FALSE
  BY <1>1
<1>2. PICK T \in F : \A U \in F : U \subseteq T => U = T
  <2>1. F \in SUBSET (SUBSET S)
    OBVIOUS
  <2> HIDE DEF F
  <2>2. QED
    BY <1>1, <2>1, SmallestSubset
<1>3. /\ g[T] = IF T = {} THEN 0 ELSE f[Pick(T)] + g[T \ {Pick(T)}]
      /\ h[T] = IF T = {} THEN 0 ELSE f[Pick(T)] + h[T \ {Pick(T)}]
  BY DEF AddsUp
<1>4. CASE T # {}
  <2>1. Pick(T) \in T
    BY <1>4 DEF Pick
  <2>2. T \ {Pick(T)} \notin F
    BY <1>2, <2>1
  <2>3. g[T \ {Pick(T)}] = h[T \ {Pick(T)}]
    BY <2>2
  <2>4. QED
    BY <1>3, <1>4, <2>3
<1>5. QED
  BY <1>3, <1>4

\* Every finite set has a function that adds f up over its subsets.
LEMMA AddsUpExists ==
    ASSUME NEW f, NEW S, IsFiniteSet(S)
    PROVE  \E g : AddsUp(g, f, S)
<1> DEFINE F == {T \in SUBSET S : ~ \E g : AddsUp(g, f, T)}
           G(U) == CHOOSE g : AddsUp(g, f, U)
<1>1. SUFFICES ASSUME F # {} PROVE FALSE
  BY <1>1
<1>2. PICK T \in F : \A U \in F : U \subseteq T => U = T
  <2>1. F \in SUBSET (SUBSET S)
    OBVIOUS
  <2> HIDE DEF F
  <2>2. QED
    BY <1>1, <2>1, SmallestSubset
<1>3. ASSUME NEW U \in SUBSET T, U # T PROVE AddsUp(G(U), f, U) /\ IsFiniteSet(U)
  BY <1>2, <1>3, FS_Subset
<1> DEFINE h == [U \in SUBSET T |->
                   IF U = {} THEN 0
                   ELSE f[Pick(U)] + G(U \ {Pick(U)})[U \ {Pick(U)}]]
<1>4. ASSUME NEW V \in SUBSET T, V # T PROVE h[V] = G(V)[V]
  <2>1. AddsUp(G(V), f, V)
    BY <1>3, <1>4
  <2>2. G(V)[V] = IF V = {} THEN 0 ELSE f[Pick(V)] + G(V)[V \ {Pick(V)}]
    BY <2>1 DEF AddsUp
  <2>3. CASE V # {}
    <3> DEFINE W == V \ {Pick(V)}
    <3>1. W \subseteq T /\ W # T /\ W \subseteq V
      BY <1>4
    <3>2. AddsUp(G(W), f, W) /\ IsFiniteSet(W)
      BY <1>3, <3>1
    <3> HIDE DEF G
    <3>3. G(V)[W] = G(W)[W]
      BY <2>1, <3>1, <3>2, AddsUpUnique
    <3>4. QED
      BY <2>2, <2>3, <3>3
  <2>4. QED
    BY <2>2, <2>3
<1>5. \A U \in SUBSET T : U # {} => U \ {Pick(U)} # T
  <2>1. \A U : U # {} => Pick(U) \in U
    BY DEF Pick
  <2>2. QED
    BY <2>1
<1> HIDE DEF G
<1>6. AddsUp(h, f, T)
  <2>1. ASSUME NEW U \in SUBSET T
        PROVE  h[U] = IF U = {} THEN 0 ELSE f[Pick(U)] + h[U \ {Pick(U)}]
    BY <1>4, <1>5
  <2>2. QED
    BY <2>1 DEF AddsUp
<1>7. QED
  BY <1>6

----------------------------------------------------------------------------
(* What a sum is.                                                          *)

\* A sum is that of the element picked first and of the others.
LEMMA SumUnfolds ==
    ASSUME NEW f, NEW S, IsFiniteSet(S)
    PROVE  SumFunctionOnSet(f, S) =
              IF S = {} THEN 0 ELSE f[Pick(S)] + SumFunctionOnSet(f, S \ {Pick(S)})
<1> DEFINE G(T) == CHOOSE g : AddsUp(g, f, T)
           V == S \ {Pick(S)}
<1>1. \A T : SumFunctionOnSet(f, T) = G(T)[T]
  BY SumIsFold
<1>2. IsFiniteSet(V)
  BY FS_RemoveElement
<1>3. AddsUp(G(S), f, S) /\ AddsUp(G(V), f, V)
  BY <1>2, AddsUpExists
<1> HIDE DEF G
<1>4. G(S)[S] = IF S = {} THEN 0 ELSE f[Pick(S)] + G(S)[V]
  BY <1>3 DEF AddsUp
<1>5. G(S)[V] = G(V)[V]
  BY <1>2, <1>3, AddsUpUnique
<1>6. QED
  BY <1>1, <1>4, <1>5

\* The sum of numbers is a number.
LEMMA SumIsNat ==
    ASSUME NEW f, NEW S, IsFiniteSet(S), \A x \in S : f[x] \in Nat
    PROVE  SumFunctionOnSet(f, S) \in Nat
<1> DEFINE F == {T \in SUBSET S : SumFunctionOnSet(f, T) \notin Nat}
<1>1. SUFFICES ASSUME F # {} PROVE FALSE
  BY <1>1
<1>2. PICK T \in F : \A U \in F : U \subseteq T => U = T
  <2>1. F \in SUBSET (SUBSET S)
    OBVIOUS
  <2> HIDE DEF F
  <2>2. QED
    BY <1>1, <2>1, SmallestSubset
<1>3. IsFiniteSet(T) /\ (T # {} => Pick(T) \in T)
  BY FS_Subset DEF Pick
<1>4. T # {} => f[Pick(T)] \in Nat /\ SumFunctionOnSet(f, T \ {Pick(T)}) \in Nat
  BY <1>2, <1>3
<1>5. SumFunctionOnSet(f, T) = IF T = {} THEN 0
                               ELSE f[Pick(T)] + SumFunctionOnSet(f, T \ {Pick(T)})
  BY <1>3, SumUnfolds
<1>6. QED
  BY <1>4, <1>5

\* Any element may be taken out first.
LEMMA SumTakesOut ==
    ASSUME NEW f, NEW S, IsFiniteSet(S), \A y \in S : f[y] \in Nat, NEW x \in S
    PROVE  SumFunctionOnSet(f, S) = f[x] + SumFunctionOnSet(f, S \ {x})
<1> DEFINE Sum(T) == SumFunctionOnSet(f, T)
           F == {T \in SUBSET S : \E y \in T : Sum(T) # f[y] + Sum(T \ {y})}
<1>1. SUFFICES ASSUME F # {} PROVE FALSE
  BY <1>1
<1>2. PICK T \in F : \A U \in F : U \subseteq T => U = T
  <2>1. F \in SUBSET (SUBSET S)
    OBVIOUS
  <2> HIDE DEF F
  <2>2. QED
    BY <1>1, <2>1, SmallestSubset
<1>3. PICK y \in T : Sum(T) # f[y] + Sum(T \ {y})
  OBVIOUS
<1> DEFINE p == Pick(T)
           W == (T \ {p}) \ {y}
<1>4. p \in T
  BY DEF Pick
<1>5. \A U \in SUBSET S : IsFiniteSet(U) /\ Sum(U) \in Nat
  BY FS_Subset, SumIsNat
<1> HIDE DEF Sum
<1>6. Sum(T) = f[p] + Sum(T \ {p})
  BY <1>5, SumUnfolds DEF Sum
<1>7. p # y
  BY <1>3, <1>6
<1>8. T \ {p} \notin F /\ T \ {y} \notin F
  BY <1>2, <1>4
<1>9. Sum(T \ {p}) = f[y] + Sum(W)
  BY <1>7, <1>8
<1>10. Sum(T \ {y}) = f[p] + Sum(W)
  <2>1. (T \ {y}) \ {p} = W
    OBVIOUS
  <2>2. QED
    BY <1>4, <1>7, <1>8, <2>1
<1>11. f[p] \in Nat /\ f[y] \in Nat /\ Sum(W) \in Nat
  BY <1>4, <1>5
<1>12. QED
  BY <1>3, <1>6, <1>9, <1>10, <1>11

\* More elements, and more for each of them, make no smaller sum.
LEMMA SumIsMonotone ==
    ASSUME NEW f, NEW g, NEW T, IsFiniteSet(T), NEW S \in SUBSET T,
           \A x \in T : g[x] \in Nat,
           \A x \in S : f[x] \in Nat /\ f[x] <= g[x]
    PROVE  SumFunctionOnSet(f, S) <= SumFunctionOnSet(g, T)
<1> DEFINE Less(U) == SumFunctionOnSet(f, S \intersect U)
           More(U) == SumFunctionOnSet(g, U)
           F == {U \in SUBSET T : ~(Less(U) <= More(U))}
<1>1. SUFFICES ASSUME F # {} PROVE FALSE
  <2>1. S \intersect T = S
    OBVIOUS
  <2>2. QED
    BY <1>1, <2>1
<1>2. PICK U \in F : \A V \in F : V \subseteq U => V = U
  <2>1. F \in SUBSET (SUBSET T)
    OBVIOUS
  <2> HIDE DEF F
  <2>2. QED
    BY <1>1, <2>1, SmallestSubset
<1>3. \A V \in SUBSET T : IsFiniteSet(V) /\ IsFiniteSet(S \intersect V)
  BY FS_Subset
<1>4. \A V \in SUBSET T : Less(V) \in Nat /\ More(V) \in Nat
  BY <1>3, SumIsNat
<1>5. CASE U = {}
  <2>1. Less(U) = 0
    BY <1>3, <1>5, SumUnfolds
  <2>2. QED
    BY <1>4, <2>1
<1>6. ASSUME NEW x \in U PROVE FALSE
  <2> DEFINE V == U \ {x}
  <2>1. Less(V) <= More(V)
    BY <1>2, <1>6
  <2>2. More(U) = g[x] + More(V)
    BY <1>3, <1>6, SumTakesOut
  <2>3. CASE x \in S
    <3>1. (S \intersect U) \ {x} = S \intersect V
      OBVIOUS
    <3>2. Less(U) = f[x] + Less(V)
      BY <1>3, <1>6, <2>3, <3>1, SumTakesOut
    <3>3. f[x] \in Nat /\ g[x] \in Nat /\ f[x] <= g[x]
      BY <1>6, <2>3
    <3> HIDE DEF Less, More
    <3>4. Less(U) <= More(U)
      BY <1>4, <2>1, <2>2, <3>2, <3>3
    <3>5. QED
      BY <1>2, <3>4
  <2>4. CASE x \notin S
    <3>1. S \intersect U = S \intersect V
      BY <2>4
    <3>2. Less(U) = Less(V) /\ g[x] \in Nat
      BY <1>6, <3>1
    <3> HIDE DEF Less, More
    <3>3. Less(U) <= More(U)
      BY <1>4, <2>1, <2>2, <3>2
    <3>4. QED
      BY <1>2, <3>3
  <2>5. QED
    BY <2>3, <2>4
<1>7. QED
  BY <1>5, <1>6

\* A sum depends only on the values it adds.
LEMMA SumsAgree ==
    ASSUME NEW f, NEW g, NEW S, IsFiniteSet(S), \A x \in S : f[x] \in Nat /\ g[x] = f[x]
    PROVE  SumFunctionOnSet(g, S) = SumFunctionOnSet(f, S)
<1>1. SumFunctionOnSet(f, S) <= SumFunctionOnSet(g, S)
  BY SumIsMonotone
<1>2. SumFunctionOnSet(g, S) <= SumFunctionOnSet(f, S)
  BY SumIsMonotone
<1>3. SumFunctionOnSet(f, S) \in Nat /\ SumFunctionOnSet(g, S) \in Nat
  BY SumIsNat
<1>4. QED
  BY <1>1, <1>2, <1>3

\* An element that adds nothing may be left out.
LEMMA SumsSkipZero ==
    ASSUME NEW f, NEW T, IsFiniteSet(T), NEW S \in SUBSET T, \A x \in T : f[x] \in Nat,
           \A x \in T \ S : f[x] = 0
    PROVE  SumFunctionOnSet(f, T) = SumFunctionOnSet(f, S)
<1> DEFINE F == {U \in SUBSET T : SumFunctionOnSet(f, U) # SumFunctionOnSet(f, U \intersect S)}
<1>1. SUFFICES ASSUME F # {} PROVE FALSE
  <2>1. T \intersect S = S
    OBVIOUS
  <2>2. QED
    BY <1>1, <2>1
<1>2. PICK U \in F : \A V \in F : V \subseteq U => V = U
  <2>1. F \in SUBSET (SUBSET T)
    OBVIOUS
  <2> HIDE DEF F
  <2>2. QED
    BY <1>1, <2>1, SmallestSubset
<1>3. PICK x \in U : x \notin S
  <2>1. U \intersect S # U
    BY <1>2
  <2>2. QED
    BY <2>1
<1>4. SumFunctionOnSet(f, U) = 0 + SumFunctionOnSet(f, U \ {x})
  BY <1>3, FS_Subset, SumTakesOut
<1>5. SumFunctionOnSet(f, U \ {x}) = SumFunctionOnSet(f, (U \ {x}) \intersect S)
  BY <1>2, <1>3
<1>6. (U \ {x}) \intersect S = U \intersect S
  BY <1>3
<1>7. SumFunctionOnSet(f, U \ {x}) \in Nat
  BY FS_Subset, SumIsNat
<1>8. QED
  BY <1>2, <1>4, <1>5, <1>6, <1>7

\* The sum of equal numbers.
LEMMA SumOfEquals ==
    ASSUME NEW f, NEW S, IsFiniteSet(S), NEW k \in Nat, \A x \in S : f[x] = k
    PROVE  SumFunctionOnSet(f, S) = k * Cardinality(S)
<1> DEFINE F == {T \in SUBSET S : SumFunctionOnSet(f, T) # k * Cardinality(T)}
<1>1. SUFFICES ASSUME F # {} PROVE FALSE
  BY <1>1
<1>2. PICK T \in F : \A U \in F : U \subseteq T => U = T
  <2>1. F \in SUBSET (SUBSET S)
    OBVIOUS
  <2> HIDE DEF F
  <2>2. QED
    BY <1>1, <2>1, SmallestSubset
<1>3. IsFiniteSet(T)
  BY FS_Subset
<1>4. CASE T = {}
  BY <1>2, <1>3, <1>4, SumUnfolds, FS_EmptySet
<1>5. ASSUME NEW x \in T PROVE FALSE
  <2>1. SumFunctionOnSet(f, T) = k + SumFunctionOnSet(f, T \ {x})
    BY <1>3, <1>5, SumTakesOut
  <2>2. SumFunctionOnSet(f, T \ {x}) = k * Cardinality(T \ {x})
    BY <1>2, <1>5
  <2>3. Cardinality(T \ {x}) = Cardinality(T) - 1 /\ Cardinality(T) \in Nat
    BY <1>3, <1>5, FS_RemoveElement, FS_CardinalityType
  <2>4. ASSUME NEW n \in Nat PROVE k + k * (n - 1) = k * n
    OBVIOUS
  <2>5. QED
    BY <1>2, <2>1, <2>2, <2>3, <2>4
<1>6. QED
  BY <1>4, <1>5
=============================================================================

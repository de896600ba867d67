--------------------------- MODULE CollectionLemmas ---------------------------
(***************************************************************************)
(* What the operators of Collections compute, for the proofs about the     *)
(* components that use them: running totals, queues without duplicates.    *)
(*                                                                         *)
(* A recursive function is a chosen function to the provers.  That there   *)
(* is one, and that the order of a sum is of no account, is proved by      *)
(* induction.  The principles of induction are stated over a set of good   *)
(* elements, where a predicate would be an operator.                       *)
(***************************************************************************)
EXTENDS Collections, FiniteSetTheorems, SequenceTheorems, TLAPS

\* Every subset of a finite set is good if it is good whenever its proper
\* subsets are.
LEMMA SubsetInduction ==
  ASSUME NEW S, IsFiniteSet(S), NEW Good,
         \A T \in SUBSET S : (\A U \in SUBSET T : U # T => U \in Good) => T \in Good
  PROVE  \A T \in SUBSET S : T \in Good
<1> DEFINE Bad == {T \in SUBSET S : T \notin Good}
           R == StrictSubsetOrdering(S)
<1> SUFFICES ASSUME Bad # {} PROVE FALSE
  OBVIOUS
<1>1. IsWellFoundedOn(R, SUBSET S)
  <2>1. IsWellFoundedOn(StrictSubsetOrdering(S), FiniteSubsetsOf(S))
    BY FS_StrictSubsetOrderingWellFounded
  <2>2. FiniteSubsetsOf(S) = SUBSET S
    BY FS_FiniteSubsetsOfFinite
  <2> QED
    BY <2>1, <2>2
<1>2. PICK T \in Bad : \A U \in Bad : <<U, T>> \notin R
  <2> HIDE DEF R
  <2>1. Bad \subseteq SUBSET S
    OBVIOUS
  <2> HIDE DEF Bad
  <2> QED
    BY <1>1, <2>1, WFMin
<1>3. \A U \in SUBSET T : U # T => <<U, T>> \in R
  BY DEF StrictSubsetOrdering
<1>4. ASSUME NEW U \in SUBSET T, U # T
      PROVE  U \in Good
  <2>1. U \notin Bad
    <3> HIDE DEF Bad, R
    <3> QED
      BY <1>2, <1>3, <1>4
  <2> QED
    BY <2>1
<1> QED
  BY <1>4

\* A set of numbers that is not empty has a least one.
LEMMA LeastNumber ==
  ASSUME NEW T \in SUBSET Nat, T # {}
  PROVE  \E m \in T : \A n \in T : m <= n
<1> SUFFICES ASSUME \A m \in T : \E n \in T : ~(m <= n) PROVE FALSE
  OBVIOUS
<1>1. PICK top \in T : TRUE
  OBVIOUS
<1> DEFINE S == 0 .. top
           Good == {U \in SUBSET S : \A k \in T : U # 0 .. k}
<1>2. IsFiniteSet(S)
  BY FS_Interval
<1>3. ASSUME NEW U \in SUBSET S, \A V \in SUBSET U : V # U => V \in Good
      PROVE  U \in Good
  <2> SUFFICES ASSUME NEW k \in T, U = 0 .. k PROVE FALSE
    OBVIOUS
  <2>1. PICK n \in T : ~(k <= n)
    OBVIOUS
  <2>2. k \in Nat /\ n \in Nat
    OBVIOUS
  <2>3. 0 .. n \in SUBSET U /\ k \in U /\ k \notin 0 .. n
    BY <2>1, <2>2
  <2>4. 0 .. n \in Good
    BY <1>3, <2>3
  <2> QED
    BY <2>4
<1>4. \A U \in SUBSET S : U \in Good
  <2> HIDE DEF Good
  <2> QED
    BY <1>2, <1>3, SubsetInduction
<1> QED
  BY <1>4

\* Every number up to n is good if 0 is, and the next one after a good one.
LEMMA CountingInduction ==
  ASSUME NEW n \in Nat, NEW Good, 0 \in Good,
         \A m \in 0 .. n - 1 : m \in Good => m + 1 \in Good
  PROVE  \A m \in 0 .. n : m \in Good
<1> DEFINE Bad == {m \in 0 .. n : m \notin Good}
<1> SUFFICES ASSUME Bad # {} PROVE FALSE
  OBVIOUS
<1>1. Bad \in SUBSET Nat
  OBVIOUS
<1>2. PICK m \in Bad : \A k \in Bad : m <= k
  <2> HIDE DEF Bad
  <2> QED
    BY <1>1, LeastNumber
<1>3. m \in 0 .. n /\ m # 0
  OBVIOUS
<1>4. m - 1 \in 0 .. n - 1 /\ m - 1 \notin Bad
  BY <1>2, <1>3
<1>5. m - 1 \in Good
  BY <1>4
<1> QED
  BY <1>3, <1>4, <1>5

\* A finite set of numbers that is not empty has a greatest one.
LEMMA GreatestNumber ==
  ASSUME NEW S \in SUBSET Nat, IsFiniteSet(S), S # {}
  PROVE  \E m \in S : \A n \in S : n <= m
<1> DEFINE Good == {T \in SUBSET S : T # {} => \E m \in T : \A n \in T : n <= m}
<1>1. ASSUME NEW T \in SUBSET S, \A U \in SUBSET T : U # T => U \in Good
      PROVE  T \in Good
  <2> SUFFICES ASSUME T # {} PROVE \E m \in T : \A n \in T : n <= m
    OBVIOUS
  <2>1. PICK x \in T : TRUE
    OBVIOUS
  <2> DEFINE U == T \ {x}
  <2>2. U \in Good
    BY <1>1
  <2>3. CASE U = {}
    <3>1. \A n \in T : n = x
      BY <2>3
    <3> QED
      BY <3>1
  <2>4. CASE U # {}
    <3>1. PICK m \in U : \A n \in U : n <= m
      BY <2>2, <2>4
    <3>2. x \in Nat /\ m \in Nat /\ \A n \in T : n \in Nat /\ (n = x \/ n \in U)
      OBVIOUS
    <3>3. CASE x <= m
      <4>1. \A n \in T : n <= m
        BY <3>1, <3>2, <3>3
      <4> QED
        BY <4>1
    <3>4. CASE ~(x <= m)
      <4>1. \A n \in T : n <= x
        BY <3>1, <3>2, <3>4
      <4> QED
        BY <4>1
    <3> QED
      BY <3>3, <3>4
  <2> QED
    BY <2>3, <2>4
<1>2. \A T \in SUBSET S : T \in Good
  <2> HIDE DEF Good
  <2> QED
    BY <1>1, SubsetInduction
<1> QED
  BY <1>2

\* Every rank up to its cardinality is taken in a finite set of numbers.
LEMMA RankIsTaken ==
  ASSUME NEW S \in SUBSET Nat, IsFiniteSet(S)
  PROVE  /\ \A i \in 1 .. Cardinality(S) :
              \E x \in S : Cardinality({y \in S : y < x}) = i - 1
         /\ \A x, z \in S : Cardinality({y \in S : y < x}) < Cardinality({y \in S : y < z})
                              <=> x < z
         /\ \A x \in S : Cardinality({y \in S : y < x}) \in 0 .. Cardinality(S) - 1
<1> DEFINE below(x) == {y \in S : y < x}
           rank == [x \in S |-> Cardinality(below(x))]
           R == 0 .. Cardinality(S) - 1
<1>1. Cardinality(S) \in Nat
  BY FS_CardinalityType
<1>2. \A x \in S : IsFiniteSet(below(x)) /\ Cardinality(below(x)) \in Nat
  <2>1. \A x \in S : below(x) \in SUBSET S
    OBVIOUS
  <2> HIDE DEF below
  <2> QED
    BY <2>1, FS_Subset, FS_CardinalityType
<1>3. ASSUME NEW x \in S, NEW z \in S, x < z
      PROVE  Cardinality(below(x)) < Cardinality(below(z))
  <2>1. /\ below(x) \in SUBSET below(z)
        /\ x \in below(z) /\ x \notin below(x)
    <3>1. \A n \in Nat : ~(n < n)
      OBVIOUS
    <3>2. ~(x < x)
      BY <3>1
    <3>3. \A y \in S : y < x => y < z
      <4> SUFFICES ASSUME NEW y \in S, y < x PROVE y < z
        OBVIOUS
      <4>1. x \in Nat /\ y \in Nat /\ z \in Nat
        OBVIOUS
      <4> QED
        BY <1>3, <4>1
    <3> QED
      BY <1>3, <3>2, <3>3
  <2>2. Cardinality(below(x)) <= Cardinality(below(z)) /\ Cardinality(below(z)) # Cardinality(below(x))
    <3>1. below(z) # below(x)
      BY <2>1
    <3> HIDE DEF below
    <3> QED
      BY <1>2, <2>1, <3>1, FS_Subset
  <2> HIDE DEF below
  <2> QED
    BY <1>2, <2>2
<1>4. ASSUME NEW x \in S PROVE Cardinality(below(x)) \in R
  <2>1. below(x) \in SUBSET S /\ x \notin below(x)
    OBVIOUS
  <2>2. Cardinality(below(x)) <= Cardinality(S) /\ Cardinality(S) # Cardinality(below(x))
    <3> HIDE DEF below
    <3> QED
      BY <2>1, FS_Subset
  <2> HIDE DEF below
  <2> QED
    BY <1>1, <1>2, <2>2
<1>5. \A x, z \in S : Cardinality(below(x)) < Cardinality(below(z)) <=> x < z
  <2> SUFFICES ASSUME NEW x \in S, NEW z \in S
               PROVE  Cardinality(below(x)) < Cardinality(below(z)) <=> x < z
    OBVIOUS
  <2>1. x \in Nat /\ z \in Nat
    OBVIOUS
  <2>2. CASE x = z
    <3> HIDE DEF below
    <3> QED
      BY <1>2, <2>2
  <2>3. CASE x < z
    BY <1>3, <2>3
  <2>4. CASE z < x
    <3>1. Cardinality(below(z)) < Cardinality(below(x))
      BY <1>3, <2>4
    <3> HIDE DEF below
    <3> QED
      BY <1>2, <2>1, <2>4, <3>1
  <2> QED
    BY <2>1, <2>2, <2>3, <2>4
<1>6. rank \in Injection(S, R)
  <2>1. \A x, z \in S : x # z => Cardinality(below(x)) # Cardinality(below(z))
    <3> SUFFICES ASSUME NEW x \in S, NEW z \in S, x # z
                 PROVE  Cardinality(below(x)) # Cardinality(below(z))
      OBVIOUS
    <3>1. x < z \/ z < x
      OBVIOUS
    <3>2. Cardinality(below(x)) \in Nat /\ Cardinality(below(z)) \in Nat
      BY <1>2
    <3> HIDE DEF below
    <3> QED
      BY <1>5, <3>1, <3>2
  <2> HIDE DEF below
  <2> QED
    BY <1>4, <2>1 DEF Injection, IsInjective
<1>7. IsFiniteSet(R) /\ Cardinality(R) = Cardinality(S)
  <2>1. 0 \in Int /\ Cardinality(S) - 1 \in Int
    BY <1>1
  <2>2. IsFiniteSet(R)
    BY <2>1, FS_Interval
  <2>3. Cardinality(R) = IF 0 > Cardinality(S) - 1 THEN 0 ELSE Cardinality(S) - 1 - 0 + 1
    BY <2>1, FS_Interval
  <2> HIDE DEF R
  <2> QED
    BY <1>1, <2>2, <2>3
<1>8. \A r \in R : \E x \in S : rank[x] = r
  <2> HIDE DEF rank, R
  <2>1. rank \in Surjection(S, R)
    BY <1>6, <1>7, FS_Injection
  <2> QED
    BY <2>1 DEF Surjection
<1>9. \A i \in 1 .. Cardinality(S) : i - 1 \in R
  BY <1>1
<1> QED
  BY <1>4, <1>5, <1>8, <1>9

-----------------------------------------------------------------------------
(* The equation of the fold                                                *)

First(T) == CHOOSE x \in T : TRUE

LEMMA FirstIn == \A T : T # {} => First(T) \in T
BY DEF First

\* g is the function that the fold over S is read off from.
Folds(f, S, g) ==
  g = [T \in SUBSET S |-> IF T = {} THEN 0 ELSE f[First(T)] + g[T \ {First(T)}]]

LEMMA SumIsChosen ==
  ASSUME NEW f, NEW S
  PROVE  SumOver(f, S) = (CHOOSE g : Folds(f, S, g))[S]
BY DEF SumOver, MapThenSumSet, MapThenFoldSet, Folds, First

LEMMA FoldValue ==
  ASSUME NEW f, NEW S, NEW g, Folds(f, S, g), NEW T \in SUBSET S
  PROVE  g[T] = IF T = {} THEN 0 ELSE f[First(T)] + g[T \ {First(T)}]
<1> DEFINE G == [U \in SUBSET S |-> IF U = {} THEN 0 ELSE f[First(U)] + g[U \ {First(U)}]]
<1>1. g = G
  BY DEF Folds
<1>2. G[T] = IF T = {} THEN 0 ELSE f[First(T)] + g[T \ {First(T)}]
  OBVIOUS
<1> HIDE DEF G
<1> QED
  BY <1>1, <1>2

LEMMA FoldsAgree ==
  ASSUME NEW f, NEW S, IsFiniteSet(S), NEW V, NEW g, NEW h,
         Folds(f, S, g), Folds(f, V, h)
  PROVE  \A T \in SUBSET S : T \in SUBSET V => g[T] = h[T]
<1> DEFINE Good == {T \in SUBSET S : T \in SUBSET V => g[T] = h[T]}
<1>1. ASSUME NEW T \in SUBSET S, \A U \in SUBSET T : U # T => U \in Good
      PROVE  T \in Good
  <2> SUFFICES ASSUME T \in SUBSET V PROVE g[T] = h[T]
    OBVIOUS
  <2>1. CASE T = {}
    BY <2>1, FoldValue
  <2>2. CASE T # {}
    <3> DEFINE U == T \ {First(T)}
    <3>1. U \in SUBSET T /\ U # T /\ U \in SUBSET V
      BY <2>2, FirstIn
    <3>2. g[U] = h[U]
      BY <1>1, <3>1
    <3>3. g[T] = f[First(T)] + g[U] /\ h[T] = f[First(T)] + h[U]
      BY <2>2, FoldValue
    <3> QED
      BY <3>2, <3>3
  <2> QED
    BY <2>1, <2>2
<1>2. \A T \in SUBSET S : T \in Good
  <2> HIDE DEF Good
  <2> QED
    BY <1>1, SubsetInduction
<1> QED
  BY <1>2

LEMMA FoldExists ==
  ASSUME NEW f, NEW S, IsFiniteSet(S)
  PROVE  \E g : Folds(f, S, g)
<1> DEFINE Good == {T \in SUBSET S : \E g : Folds(f, T, g)}
<1>1. ASSUME NEW T \in SUBSET S, \A U \in SUBSET T : U # T => U \in Good
      PROVE  T \in Good
  <2> DEFINE val(V) == IF V = {} THEN 0 ELSE f[First(V)] + SumOver(f, V \ {First(V)})
             G == [V \in SUBSET T |-> val(V)]
  <2>1. ASSUME NEW V \in SUBSET T, V # T
        PROVE  SumOver(f, V) = val(V)
    <3> DEFINE g == CHOOSE g : Folds(f, V, g)
               W == V \ {First(V)}
    <3>1. Folds(f, V, g)
      BY <1>1, <2>1
    <3>2. SumOver(f, V) = g[V]
      BY SumIsChosen
    <3>3. CASE V = {}
      BY <3>1, <3>2, <3>3, FoldValue
    <3>4. CASE V # {}
      <4> DEFINE h == CHOOSE h : Folds(f, W, h)
      <4>1. W \in SUBSET T /\ W # T /\ W \in SUBSET V
        BY <2>1
      <4>2. Folds(f, W, h)
        BY <1>1, <4>1
      <4>3. SumOver(f, W) = h[W]
        BY SumIsChosen
      <4>4. IsFiniteSet(V)
        BY FS_Subset
      <4>5. g[W] = h[W]
        <5> HIDE DEF g, h, W
        <5> QED
          BY <3>1, <4>1, <4>2, <4>4, FoldsAgree
      <4>6. g[V] = f[First(V)] + g[W]
        <5> HIDE DEF g
        <5> QED
          BY <3>1, <3>4, FoldValue
      <4> QED
        BY <3>2, <3>4, <4>3, <4>5, <4>6
    <3> QED
      BY <3>3, <3>4
  <2>2. ASSUME NEW V \in SUBSET T
        PROVE  val(V) = IF V = {} THEN 0 ELSE f[First(V)] + G[V \ {First(V)}]
    <3>1. CASE V = {}
      BY <3>1
    <3>2. CASE V # {}
      <4> DEFINE W == V \ {First(V)}
      <4>1. W \in SUBSET T /\ W # T
        BY <3>2, FirstIn
      <4>2. G[W] = val(W)
        BY <4>1
      <4>3. SumOver(f, W) = val(W)
        BY <2>1, <4>1
      <4> HIDE DEF G
      <4> QED
        BY <3>2, <4>2, <4>3
    <3> QED
      BY <3>1, <3>2
  <2>3. Folds(f, T, G)
    <3> DEFINE H == [V \in SUBSET T |-> IF V = {} THEN 0 ELSE f[First(V)] + G[V \ {First(V)}]]
    <3>1. \A V \in SUBSET T : G[V] = H[V]
      <4>1. \A V \in SUBSET T : G[V] = val(V)
        OBVIOUS
      <4>2. \A V \in SUBSET T : H[V] = IF V = {} THEN 0 ELSE f[First(V)] + G[V \ {First(V)}]
        OBVIOUS
      <4> HIDE DEF G, H, val
      <4> QED
        BY <2>2, <4>1, <4>2
    <3>2. G = [V \in SUBSET T |-> G[V]] /\ H = [V \in SUBSET T |-> H[V]]
      OBVIOUS
    <3>3. G = H
      <4> HIDE DEF G, H
      <4> QED
        BY <3>1, <3>2
    <3> HIDE DEF G
    <3> QED
      BY <3>3 DEF Folds
  <2> QED
    BY <2>3
<1>2. \A T \in SUBSET S : T \in Good
  <2> HIDE DEF Good
  <2> QED
    BY <1>1, SubsetInduction
<1> QED
  BY <1>2

\* The sum, one element after the other, in the order of the fold.
LEMMA SumUnfolds ==
  ASSUME NEW f, NEW S, IsFiniteSet(S)
  PROVE  SumOver(f, S) = IF S = {} THEN 0 ELSE f[First(S)] + SumOver(f, S \ {First(S)})
<1> DEFINE e == First(S)
           T == S \ {e}
           g == CHOOSE g : Folds(f, S, g)
           h == CHOOSE h : Folds(f, T, h)
<1>1. IsFiniteSet(T) /\ T \in SUBSET S
  BY FS_Subset
<1>2. Folds(f, S, g) /\ Folds(f, T, h)
  BY <1>1, FoldExists
<1>3. SumOver(f, S) = g[S] /\ SumOver(f, T) = h[T]
  BY SumIsChosen
<1> HIDE DEF g, h
<1>4. g[T] = h[T]
  BY <1>1, <1>2, FoldsAgree
<1>5. g[S] = IF S = {} THEN 0 ELSE f[First(S)] + g[S \ {First(S)}]
  <2>1. S \in SUBSET S
    OBVIOUS
  <2> HIDE DEF T
  <2> QED
    BY <1>2, <2>1, FoldValue
<1> QED
  BY <1>3, <1>4, <1>5

-----------------------------------------------------------------------------
(* What a sum is                                                           *)

LEMMA SumEmpty == \A f : SumOver(f, {}) = 0
BY SumUnfolds, FS_EmptySet

LEMMA SumIsNat ==
  ASSUME NEW S, IsFiniteSet(S), NEW f, \A x \in S : f[x] \in Nat
  PROVE  SumOver(f, S) \in Nat
<1> DEFINE Good == {T \in SUBSET S : SumOver(f, T) \in Nat}
<1>1. ASSUME NEW T \in SUBSET S, \A U \in SUBSET T : U # T => U \in Good
      PROVE  T \in Good
  <2>1. CASE T = {}
    BY <2>1, SumEmpty
  <2>2. CASE T # {}
    <3>1. IsFiniteSet(T) /\ First(T) \in T
      BY <2>2, FS_Subset, FirstIn
    <3>2. T \ {First(T)} \in Good
      BY <1>1, <3>1
    <3>3. SumOver(f, T) = f[First(T)] + SumOver(f, T \ {First(T)})
      BY <2>2, <3>1, SumUnfolds
    <3> QED
      BY <3>1, <3>2, <3>3
  <2> QED
    BY <2>1, <2>2
<1>2. \A T \in SUBSET S : T \in Good
  <2> HIDE DEF Good
  <2> QED
    BY <1>1, SubsetInduction
<1> QED
  BY <1>2

\* The order is of no account.
LEMMA SumRemove ==
  ASSUME NEW S, IsFiniteSet(S), NEW f, \A x \in S : f[x] \in Nat
  PROVE  \A e \in S : SumOver(f, S) = f[e] + SumOver(f, S \ {e})
<1> DEFINE Good == {T \in SUBSET S : \A e \in T : SumOver(f, T) = f[e] + SumOver(f, T \ {e})}
<1>1. ASSUME NEW T \in SUBSET S, \A U \in SUBSET T : U # T => U \in Good
      PROVE  T \in Good
  <2> SUFFICES ASSUME NEW e \in T PROVE SumOver(f, T) = f[e] + SumOver(f, T \ {e})
    OBVIOUS
  <2> DEFINE d == First(T)
             U == T \ {d}
             V == T \ {e}
             W == T \ {d, e}
  <2>1. IsFiniteSet(T) /\ d \in T
    BY FS_Subset, FirstIn
  <2>2. SumOver(f, T) = f[d] + SumOver(f, U)
    BY <2>1, SumUnfolds
  <2>3. CASE e = d
    BY <2>2, <2>3
  <2>4. CASE e # d
    <3>1. U \in Good /\ e \in U /\ V \in Good /\ d \in V
      BY <1>1, <2>1, <2>4
    <3>2. W = U \ {e} /\ W = V \ {d} /\ IsFiniteSet(W)
      BY <2>1, FS_Subset
    <3>3. SumOver(f, U) = f[e] + SumOver(f, W) /\ SumOver(f, V) = f[d] + SumOver(f, W)
      <4> HIDE DEF d
      <4> QED
        BY <3>1, <3>2
    <3>4. f[d] \in Nat /\ f[e] \in Nat /\ SumOver(f, W) \in Nat
      BY <2>1, <3>2, SumIsNat
    <3> HIDE DEF d, U, V, W
    <3>5. SumOver(f, T) = f[e] + SumOver(f, V)
      BY <2>2, <3>3, <3>4
    <3> QED
      BY <3>5 DEF V
  <2> QED
    BY <2>3, <2>4
<1>2. \A T \in SUBSET S : T \in Good
  <2> HIDE DEF Good
  <2> QED
    BY <1>1, SubsetInduction
<1> QED
  BY <1>2

LEMMA SumAdd ==
  ASSUME NEW S, IsFiniteSet(S), NEW f, NEW e, e \notin S,
         \A x \in S \cup {e} : f[x] \in Nat
  PROVE  SumOver(f, S \cup {e}) = f[e] + SumOver(f, S)
<1>1. IsFiniteSet(S \cup {e})
  BY FS_AddElement
<1>2. (S \cup {e}) \ {e} = S
  OBVIOUS
<1> QED
  BY <1>1, <1>2, SumRemove

LEMMA SumSame ==
  ASSUME NEW S, IsFiniteSet(S), NEW f, NEW g, \A x \in S : f[x] = g[x]
  PROVE  SumOver(f, S) = SumOver(g, S)
<1> DEFINE Good == {T \in SUBSET S : SumOver(f, T) = SumOver(g, T)}
<1>1. ASSUME NEW T \in SUBSET S, \A U \in SUBSET T : U # T => U \in Good
      PROVE  T \in Good
  <2>1. CASE T = {}
    BY <2>1, SumEmpty
  <2>2. CASE T # {}
    <3> DEFINE d == First(T)
               U == T \ {d}
    <3>1. IsFiniteSet(T) /\ d \in T /\ U \in Good
      BY <1>1, <2>2, FS_Subset, FirstIn
    <3>2. SumOver(f, T) = f[d] + SumOver(f, U) /\ SumOver(g, T) = g[d] + SumOver(g, U)
      BY <2>2, <3>1, SumUnfolds
    <3> QED
      BY <3>1, <3>2
  <2> QED
    BY <2>1, <2>2
<1>2. \A T \in SUBSET S : T \in Good
  <2> HIDE DEF Good
  <2> QED
    BY <1>1, SubsetInduction
<1> QED
  BY <1>2

LEMMA SumMonotone ==
  ASSUME NEW S, IsFiniteSet(S), NEW f, NEW g,
         \A x \in S : f[x] \in Nat /\ g[x] \in Nat /\ f[x] <= g[x]
  PROVE  SumOver(f, S) <= SumOver(g, S)
<1> DEFINE Good == {T \in SUBSET S : SumOver(f, T) <= SumOver(g, T)}
<1>1. ASSUME NEW T \in SUBSET S, \A U \in SUBSET T : U # T => U \in Good
      PROVE  T \in Good
  <2>1. CASE T = {}
    BY <2>1, SumEmpty
  <2>2. CASE T # {}
    <3> DEFINE d == First(T)
               U == T \ {d}
    <3>1. IsFiniteSet(T) /\ d \in T /\ U \in Good /\ IsFiniteSet(U)
      BY <1>1, <2>2, FS_Subset, FirstIn
    <3>2. SumOver(f, T) = f[d] + SumOver(f, U) /\ SumOver(g, T) = g[d] + SumOver(g, U)
      BY <2>2, <3>1, SumUnfolds
    <3>3. SumOver(f, U) \in Nat /\ SumOver(g, U) \in Nat
      BY <3>1, SumIsNat
    <3> QED
      BY <3>1, <3>2, <3>3
  <2> QED
    BY <2>1, <2>2
<1>2. \A T \in SUBSET S : T \in Good
  <2> HIDE DEF Good
  <2> QED
    BY <1>1, SubsetInduction
<1> QED
  BY <1>2

\* The names of what is summed up do not matter.
LEMMA SumRenamed ==
  ASSUME NEW S, IsFiniteSet(S), NEW f, NEW g, NEW h,
         \A x, y \in S : h[x] = h[y] => x = y,
         \A x \in S : f[x] \in Nat /\ g[h[x]] = f[x]
  PROVE  SumOver(f, S) = SumOver(g, {h[x] : x \in S})
<1> DEFINE Image(T) == {h[x] : x \in T}
           Good == {T \in SUBSET S : IsFiniteSet(Image(T)) /\ SumOver(f, T) = SumOver(g, Image(T))}
<1>1. ASSUME NEW T \in SUBSET S, \A U \in SUBSET T : U # T => U \in Good
      PROVE  T \in Good
  <2>1. CASE T = {}
    <3>1. Image(T) = {}
      BY <2>1
    <3> HIDE DEF Image
    <3>2. SumOver(g, Image(T)) = SumOver(g, {}) /\ SumOver(f, T) = SumOver(f, {})
      BY <2>1, <3>1, Zenon
    <3>3. IsFiniteSet(Image(T))
      BY <3>1, FS_EmptySet
    <3> QED
      BY <3>2, <3>3, SumEmpty
  <2>2. CASE T # {}
    <3> DEFINE d == First(T)
               U == T \ {d}
    <3>1. IsFiniteSet(T) /\ d \in T /\ U \in Good
      BY <1>1, <2>2, FS_Subset, FirstIn
    <3>2. SumOver(f, T) = f[d] + SumOver(f, U)
      BY <2>2, <3>1, SumUnfolds
    <3>3. /\ Image(T) = Image(U) \cup {h[d]}
          /\ h[d] \notin Image(U)
          /\ \A y \in Image(U) \cup {h[d]} : g[y] \in Nat
          /\ g[h[d]] = f[d]
      BY <3>1
    <3>4. IsFiniteSet(Image(U)) /\ SumOver(f, U) = SumOver(g, Image(U))
      BY <3>1
    <3> HIDE DEF d, U, Image, Good
    <3>5. SumOver(g, Image(U) \cup {h[d]}) = g[h[d]] + SumOver(g, Image(U))
      BY <3>3, <3>4, SumAdd
    <3>6. IsFiniteSet(Image(T))
      BY <3>3, <3>4, FS_AddElement
    <3>7. SumOver(g, Image(T)) = SumOver(g, Image(U) \cup {h[d]})
      BY <3>3, Zenon
    <3>8. SumOver(f, T) = SumOver(g, Image(T))
      BY <3>2, <3>3, <3>4, <3>5, <3>7
    <3> QED
      BY <3>6, <3>8 DEF Good
  <2> QED
    BY <2>1, <2>2
<1>2. \A T \in SUBSET S : T \in Good
  <2> HIDE DEF Good
  <2> QED
    BY <1>1, SubsetInduction
<1> QED
  BY <1>2

\* A set is summed up in two parts.
LEMMA SumSplit ==
  ASSUME NEW S, IsFiniteSet(S), NEW f, \A x \in S : f[x] \in Nat, NEW P
  PROVE  /\ SumOver(f, S \cap P) \in Nat /\ SumOver(f, S \ P) \in Nat
         /\ SumOver(f, S) = SumOver(f, S \cap P) + SumOver(f, S \ P)
<1> DEFINE Good == {T \in SUBSET S : SumOver(f, T) = SumOver(f, T \cap P) + SumOver(f, T \ P)}
<1>0. \A T \in SUBSET S : IsFiniteSet(T) /\ SumOver(f, T) \in Nat
  <2>1. \A T \in SUBSET S : IsFiniteSet(T)
    BY FS_Subset
  <2> QED
    BY <2>1, SumIsNat
<1>1. ASSUME NEW T \in SUBSET S, \A U \in SUBSET T : U # T => U \in Good
      PROVE  T \in Good
  <2>1. CASE T = {}
    <3>1. T \cap P = {} /\ T \ P = {}
      BY <2>1
    <3> QED
      BY <2>1, <3>1, SumEmpty
  <2>2. CASE T # {}
    <3> DEFINE d == First(T)
               U == T \ {d}
    <3>1. d \in T /\ U \in Good
      BY <1>1, <2>2, FirstIn
    <3>2. SumOver(f, T) = f[d] + SumOver(f, U)
      BY <1>0, <3>1, SumRemove
    <3>3. SumOver(f, U \cap P) \in Nat /\ SumOver(f, U \ P) \in Nat /\ f[d] \in Nat
      <4>1. U \cap P \in SUBSET S /\ U \ P \in SUBSET S
        OBVIOUS
      <4> QED
        BY <1>0, <3>1, <4>1
    <3>0. SumOver(f, U) = SumOver(f, U \cap P) + SumOver(f, U \ P)
      BY <3>1
    <3> SUFFICES SumOver(f, T) = SumOver(f, T \cap P) + SumOver(f, T \ P)
      OBVIOUS
    <3>4. CASE d \in P
      <4>1. U \cap P = (T \cap P) \ {d} /\ U \ P = T \ P
        BY <3>4
      <4>2. SumOver(f, T \cap P) = f[d] + SumOver(f, U \cap P)
        <5>1. T \cap P \in SUBSET S /\ d \in T \cap P
          BY <3>1, <3>4
        <5> HIDE DEF d, U
        <5> QED
          BY <1>0, <4>1, <5>1, SumRemove
      <4> HIDE DEF d, U
      <4>3. SumOver(f, U \ P) = SumOver(f, T \ P)
        BY <4>1, Zenon
      <4> QED
        BY <3>0, <3>2, <3>3, <4>2, <4>3
    <3>5. CASE d \notin P
      <4>1. U \ P = (T \ P) \ {d} /\ U \cap P = T \cap P
        BY <3>5
      <4>2. SumOver(f, T \ P) = f[d] + SumOver(f, U \ P)
        <5>1. T \ P \in SUBSET S /\ d \in T \ P
          BY <3>1, <3>5
        <5> HIDE DEF d, U
        <5> QED
          BY <1>0, <4>1, <5>1, SumRemove
      <4> HIDE DEF d, U
      <4>3. SumOver(f, U \cap P) = SumOver(f, T \cap P)
        BY <4>1, Zenon
      <4> QED
        BY <3>0, <3>2, <3>3, <4>2, <4>3
    <3> QED
      BY <3>4, <3>5
  <2> QED
    BY <2>1, <2>2
<1>2. \A T \in SUBSET S : T \in Good
  <2> HIDE DEF Good
  <2> QED
    BY <1>1, SubsetInduction
<1>3. S \cap P \in SUBSET S /\ S \ P \in SUBSET S
  OBVIOUS
<1> QED
  BY <1>0, <1>2, <1>3
LEMMA SumOfConstant ==
  ASSUME NEW S, IsFiniteSet(S), NEW f, NEW c \in Nat, \A x \in S : f[x] = c
  PROVE  SumOver(f, S) = Cardinality(S) * c
<1> DEFINE Good == {T \in SUBSET S : SumOver(f, T) = Cardinality(T) * c}
<1>1. ASSUME NEW T \in SUBSET S, \A U \in SUBSET T : U # T => U \in Good
      PROVE  T \in Good
  <2>1. CASE T = {}
    BY <2>1, SumEmpty, FS_EmptySet
  <2>2. CASE T # {}
    <3> DEFINE d == First(T)
               U == T \ {d}
    <3>1. IsFiniteSet(T) /\ d \in T /\ U \in Good
      BY <1>1, <2>2, FS_Subset, FirstIn
    <3>2. SumOver(f, T) = c + SumOver(f, U)
      BY <2>2, <3>1, SumUnfolds
    <3>3. Cardinality(T) \in Nat /\ Cardinality(U) = Cardinality(T) - 1
      BY <3>1, FS_CardinalityType, FS_RemoveElement
    <3>4. SumOver(f, U) = (Cardinality(T) - 1) * c
      BY <3>1, <3>3
    <3>5. SumOver(f, T) = Cardinality(T) * c
      BY <3>2, <3>3, <3>4
    <3> QED
      BY <3>5
  <2> QED
    BY <2>1, <2>2
<1>2. \A T \in SUBSET S : T \in Good
  <2> HIDE DEF Good
  <2> QED
    BY <1>1, SubsetInduction
<1> QED
  BY <1>2

\* A value that is put into f replaces the one before it in the sum.
LEMMA SumPut ==
  ASSUME NEW f, IsFiniteSet(DOMAIN f), \A x \in DOMAIN f : f[x] \in Nat,
         NEW k, NEW value \in Nat
  PROVE  /\ SumOver(f, DOMAIN f) \in Nat
         /\ SumOver(Put(f, k, value), DOMAIN f \cup {k})
              = value + SumOver(f, DOMAIN f) - (IF k \in DOMAIN f THEN f[k] ELSE 0)
<1> DEFINE g == Put(f, k, value)
           S == DOMAIN f
           T == S \cup {k}
           U == S \ {k}
<1>1. /\ IsFiniteSet(T) /\ IsFiniteSet(U)
      /\ T \ {k} = U
  BY FS_AddElement, FS_Subset
<1>2. (\A x \in T : g[x] \in Nat) /\ g[k] = value /\ \A x \in U : g[x] = f[x]
  BY DEF Put
<1>3. SumOver(f, S) \in Nat /\ SumOver(f, U) \in Nat
  BY <1>1, SumIsNat
<1>4. SumOver(g, T) = value + SumOver(g, U)
  <2>1. SumOver(g, T) = g[k] + SumOver(g, T \ {k})
    <3> HIDE DEF g
    <3> QED
      BY <1>1, <1>2, SumRemove
  <2> HIDE DEF g, T, U
  <2> QED
    BY <1>1, <1>2, <2>1, Zenon
<1>5. SumOver(g, U) = SumOver(f, U)
  <2> HIDE DEF g, U
  <2> QED
    BY <1>1, <1>2, SumSame
<1>6. CASE k \in S
  <2>1. SumOver(f, S) = f[k] + SumOver(f, U)
    BY <1>6, SumRemove
  <2> HIDE DEF g, T, U
  <2>2. SumOver(g, T) = value + SumOver(f, S) - f[k]
    BY <1>3, <1>4, <1>5, <1>6, <2>1
  <2> QED
    BY <1>3, <1>6, <2>2 DEF g, T
<1>7. CASE k \notin S
  <2>1. SumOver(f, S) = SumOver(f, U)
    <3>1. S = U
      BY <1>7
    <3> HIDE DEF S, U
    <3> QED
      BY <3>1, Zenon
  <2> HIDE DEF g, T, U
  <2>2. SumOver(g, T) = value + SumOver(f, S)
    BY <1>4, <1>5, <2>1
  <2> QED
    BY <1>3, <1>7, <2>2 DEF g, T
<1> QED
  BY <1>6, <1>7

-----------------------------------------------------------------------------
(* Sequences without some elements                                         *)

Elements(seq) == {seq[i] : i \in 1 .. Len(seq)}
Distinct(seq) == \A i, j \in 1 .. Len(seq) : seq[i] = seq[j] => i = j

\* k is the function that Without is read off from.
Keeps(seq, gone, n, k) ==
  k = [m \in 0 .. n |->
         IF m = 0 THEN <<>>
         ELSE IF seq[m] \in gone THEN k[m - 1] ELSE Append(k[m - 1], seq[m])]

LEMMA KeepsExists ==
  ASSUME NEW seq, NEW gone, NEW n \in Nat
  PROVE  \E k : Keeps(seq, gone, n, k)
<1> DEFINE Good == {m \in 0 .. n : \E k : Keeps(seq, gone, m, k)}
<1>1. 0 \in Good
  <2> DEFINE k == [m \in 0 .. 0 |-> <<>>]
  <2>1. Keeps(seq, gone, 0, k)
    BY DEF Keeps
  <2> QED
    BY <2>1
<1>2. ASSUME NEW m \in 0 .. n - 1, m \in Good
      PROVE  m + 1 \in Good
  <2>1. PICK k : Keeps(seq, gone, m, k)
    BY <1>2
  <2> DEFINE last == IF seq[m + 1] \in gone THEN k[m] ELSE Append(k[m], seq[m + 1])
             h == [i \in 0 .. m + 1 |-> IF i = m + 1 THEN last ELSE k[i]]
             H == [i \in 0 .. m + 1 |->
                     IF i = 0 THEN <<>>
                     ELSE IF seq[i] \in gone THEN h[i - 1] ELSE Append(h[i - 1], seq[i])]
  <2>2. ASSUME NEW i \in 0 .. m + 1
        PROVE  h[i] = H[i]
    <3>1. CASE i = m + 1
      <4>1. h[i] = last /\ h[m] = k[m]
        BY <3>1
      <4> HIDE DEF h
      <4> QED
        BY <3>1, <4>1
    <3>2. CASE i \in 0 .. m
      <4>1. h[i] = k[i] /\ (i # 0 => h[i - 1] = k[i - 1])
        BY <3>2
      <4>2. k[i] = IF i = 0 THEN <<>>
                   ELSE IF seq[i] \in gone THEN k[i - 1] ELSE Append(k[i - 1], seq[i])
        BY <2>1, <3>2 DEF Keeps
      <4> HIDE DEF h
      <4> QED
        BY <3>2, <4>1, <4>2
    <3> QED
      BY <3>1, <3>2
  <2>3. h = H
    <3>1. h = [i \in 0 .. m + 1 |-> h[i]] /\ H = [i \in 0 .. m + 1 |-> H[i]]
      OBVIOUS
    <3> HIDE DEF h, H
    <3> QED
      BY <2>2, <3>1
  <2>4. Keeps(seq, gone, m + 1, h)
    <3> HIDE DEF h
    <3> QED
      BY <2>3 DEF Keeps
  <2> QED
    BY <2>4
<1>3. \A m \in 0 .. n : m \in Good
  <2> HIDE DEF Good
  <2> QED
    BY <1>1, <1>2, CountingInduction
<1> QED
  BY <1>3

\* What stays is what is not gone, once each if it was there once each, and the
\* last one is still the last.
LEMMA WithoutKeeps ==
  ASSUME NEW S, NEW seq \in Seq(S), NEW gone
  PROVE  /\ Without(seq, gone) \in Seq(S)
         /\ Elements(Without(seq, gone)) = Elements(seq) \ gone
         /\ Distinct(seq) => Distinct(Without(seq, gone))
         /\ seq # <<>> /\ seq[Len(seq)] \notin gone =>
              /\ Without(seq, gone) # <<>>
              /\ Without(seq, gone)[Len(Without(seq, gone))] = seq[Len(seq)]
<1> DEFINE N == Len(seq)
           k == CHOOSE k : Keeps(seq, gone, N, k)
           Up(m) == {seq[i] : i \in 1 .. m}
           Once(m) == \A i, j \in 1 .. m : seq[i] = seq[j] => i = j
           Good == {m \in 0 .. N : /\ k[m] \in Seq(S)
                                   /\ Elements(k[m]) = Up(m) \ gone
                                   /\ Once(m) => Distinct(k[m])}
<1>0. N \in Nat /\ \A i \in 1 .. N : seq[i] \in S
  OBVIOUS
<1>1. Keeps(seq, gone, N, k)
  BY <1>0, KeepsExists
<1>2. Without(seq, gone) = k[N]
  BY DEF Without, Keeps
<1> HIDE DEF k, N
<1>3. \A m \in 0 .. N : k[m] = IF m = 0 THEN <<>>
                             ELSE IF seq[m] \in gone THEN k[m - 1]
                             ELSE Append(k[m - 1], seq[m])
  BY <1>1 DEF Keeps
<1>4. 0 \in Good
  <2>1. k[0] = <<>> /\ 0 \in 0 .. N
    BY <1>0, <1>3
  <2>2. Up(0) = {}
    OBVIOUS
  <2>3. Elements(<<>>) = {} /\ Distinct(<<>>) /\ <<>> \in Seq(S)
    BY DEF Elements, Distinct
  <2> QED
    BY <2>1, <2>2, <2>3
<1>5. ASSUME NEW m \in 0 .. N - 1, m \in Good
      PROVE  m + 1 \in Good
  <2> DEFINE n == m + 1
             e == seq[n]
             q == k[m]
  <2>1. n \in 1 .. N /\ n \in 0 .. N /\ n - 1 = m /\ e \in S /\ n # 0
    BY <1>0
  <2>2. k[n] = IF e \in gone THEN q ELSE Append(q, e)
    BY <1>3, <2>1
  <2>3. /\ q \in Seq(S)
        /\ Elements(q) = Up(m) \ gone
        /\ Once(m) => Distinct(q)
    BY <1>5
  <2>4. Up(n) = Up(m) \cup {e} /\ (Once(n) => Once(m) /\ e \notin Up(m))
    BY <2>1
  <2> SUFFICES /\ k[n] \in Seq(S)
               /\ Elements(k[n]) = Up(n) \ gone
               /\ Once(n) => Distinct(k[n])
    BY <2>1
  <2>5. CASE e \in gone
    BY <2>2, <2>3, <2>4, <2>5
  <2>6. CASE e \notin gone
    <3>1. k[n] = Append(q, e) /\ Append(q, e) \in Seq(S)
      BY <2>1, <2>2, <2>3, <2>6
    <3> HIDE DEF q, e
    <3>2. Elements(Append(q, e)) = Elements(q) \cup {e}
      <4>1. /\ Len(Append(q, e)) = Len(q) + 1 /\ Len(q) \in Nat
            /\ \A i \in 1 .. Len(q) : Append(q, e)[i] = q[i]
            /\ Append(q, e)[Len(q) + 1] = e
        BY <2>3
      <4> QED
        BY <4>1 DEF Elements
    <3>3. Distinct(q) /\ e \notin Elements(q) => Distinct(Append(q, e))
      BY <2>3 DEF Elements, Distinct
    <3> HIDE DEF Up, Once
    <3> QED
      BY <2>3, <2>4, <2>6, <3>1, <3>2, <3>3
  <2> QED
    BY <2>5, <2>6
<1>6. N \in Good /\ (N # 0 => N - 1 \in Good)
  <2>1. N \in 0 .. N /\ (N # 0 => N - 1 \in 0 .. N)
    BY <1>0
  <2> HIDE DEF Good
  <2>2. \A m \in 0 .. N : m \in Good
    BY <1>0, <1>4, <1>5, CountingInduction
  <2> QED
    BY <2>1, <2>2
<1>7. ASSUME seq # <<>>, seq[N] \notin gone
      PROVE  k[N] # <<>> /\ k[N][Len(k[N])] = seq[N]
  <2>1. N # 0 /\ N \in 0 .. N /\ seq[N] \in S
    BY <1>0, <1>7 DEF N
  <2>2. k[N - 1] \in Seq(S)
    BY <1>6, <2>1
  <2>3. k[N] = Append(k[N - 1], seq[N])
    <3> HIDE DEF Good
    <3> QED
      BY <1>3, <1>7, <2>1
  <2> DEFINE q == k[N - 1]
             e == seq[N]
  <2>4. q \in Seq(S) /\ e \in S /\ k[N] = Append(q, e)
    BY <2>1, <2>2, <2>3
  <2> HIDE DEF q, Good
  <2>5. Append(q, e) # <<>> /\ Append(q, e)[Len(Append(q, e))] = e
    <3> HIDE DEF e
    <3> QED
      BY <2>4
  <2> QED
    BY <2>4, <2>5
<1>8. Up(N) = Elements(seq) /\ (Once(N) <=> Distinct(seq))
  BY DEF N, Elements, Distinct
<1>9. /\ k[N] \in Seq(S)
      /\ Elements(k[N]) = Elements(seq) \ gone
      /\ Distinct(seq) => Distinct(k[N])
  BY <1>6, <1>8
<1> QED
  BY <1>2, <1>7, <1>9 DEF N

\* What stays leads as it did.
LEMMA WithoutHead ==
  ASSUME NEW S, NEW seq \in Seq(S), NEW gone, seq # <<>>, Head(seq) \notin gone
  PROVE  Without(seq, gone) # <<>> /\ Head(Without(seq, gone)) = Head(seq)
<1> DEFINE N == Len(seq)
           k == CHOOSE k : Keeps(seq, gone, N, k)
           Led(m) == m # 0 => k[m] # <<>> /\ Head(k[m]) = seq[1]
           Good == {m \in 0 .. N : k[m] \in Seq(S) /\ Led(m)}
<1>0. /\ N \in Nat /\ N > 0 /\ Head(seq) = seq[1]
      /\ \A i \in 1 .. N : seq[i] \in S
  OBVIOUS
<1>1. Keeps(seq, gone, N, k)
  BY <1>0, KeepsExists
<1>2. Without(seq, gone) = k[N]
  BY DEF Without, Keeps
<1> HIDE DEF k, N
<1>3. \A m \in 0 .. N : k[m] = IF m = 0 THEN <<>>
                             ELSE IF seq[m] \in gone THEN k[m - 1]
                             ELSE Append(k[m - 1], seq[m])
  BY <1>1 DEF Keeps
<1>4. 0 \in Good
  <2>1. k[0] = <<>> /\ 0 \in 0 .. N
    BY <1>0, <1>3
  <2>2. <<>> \in Seq(S)
    OBVIOUS
  <2> QED
    BY <2>1, <2>2
<1>5. ASSUME NEW m \in 0 .. N - 1, m \in Good
      PROVE  m + 1 \in Good
  <2> DEFINE n == m + 1
             e == seq[n]
             q == k[m]
  <2>1. n \in 1 .. N /\ n \in 0 .. N /\ n - 1 = m /\ e \in S /\ n # 0
    BY <1>0
  <2>2. k[n] = IF e \in gone THEN q ELSE Append(q, e)
    BY <1>3, <2>1
  <2>3. q \in Seq(S) /\ (m # 0 => q # <<>> /\ Head(q) = seq[1])
    BY <1>5
  <2>4. m = 0 => q = <<>> /\ e = seq[1]
    <3>1. 0 \in 0 .. N
      BY <1>0
    <3> QED
      BY <1>3, <3>1
  <2> SUFFICES k[n] \in Seq(S) /\ k[n] # <<>> /\ Head(k[n]) = seq[1]
    BY <2>1
  <2>5. CASE e \in gone
    BY <1>0, <2>2, <2>3, <2>4, <2>5
  <2>6. CASE e \notin gone
    <3> HIDE DEF q, e
    <3>1. /\ Append(q, e) \in Seq(S) /\ Append(q, e) # <<>>
          /\ Head(Append(q, e)) = IF q = <<>> THEN e ELSE Head(q)
      <4>1. /\ Append(q, e) \in Seq(S) /\ Len(Append(q, e)) = Len(q) + 1 /\ Len(q) \in Nat
            /\ \A i \in 1 .. Len(q) : Append(q, e)[i] = q[i]
            /\ Append(q, e)[Len(q) + 1] = e
        BY <2>1, <2>3
      <4>2. Append(q, e) # <<>> /\ Head(Append(q, e)) = Append(q, e)[1]
        BY <4>1
      <4>3. CASE q = <<>>
        BY <4>1, <4>2, <4>3
      <4>4. CASE q # <<>>
        <5>1. Head(q) = q[1] /\ 1 \in 1 .. Len(q)
          BY <2>3, <4>4
        <5> QED
          BY <4>1, <4>2, <4>4, <5>1
      <4> QED
        BY <4>1, <4>2, <4>3, <4>4
    <3> QED
      BY <2>2, <2>3, <2>4, <2>6, <3>1
  <2> QED
    BY <2>5, <2>6
<1>6. N \in Good
  <2>1. N \in 0 .. N
    BY <1>0
  <2> HIDE DEF Good
  <2>2. \A m \in 0 .. N : m \in Good
    BY <1>0, <1>4, <1>5, CountingInduction
  <2> QED
    BY <2>1, <2>2
<1> QED
  BY <1>0, <1>2, <1>6

\* Names that are as many as the places they take are all different.
LEMMA DistinctCount ==
  ASSUME NEW S, NEW seq \in Seq(S)
  PROVE  /\ IsFiniteSet(Elements(seq))
         /\ Len(seq) = Cardinality(Elements(seq)) <=> Distinct(seq)
<1> DEFINE I == 1 .. Len(seq)
           E == Elements(seq)
<1>1. IsFiniteSet(I) /\ Cardinality(I) = Len(seq) /\ Len(seq) \in Nat
  <2>1. Len(seq) \in Nat /\ 1 \in Int
    OBVIOUS
  <2>2. Cardinality(I) = IF 1 > Len(seq) THEN 0 ELSE Len(seq) - 1 + 1
    BY <2>1, FS_Interval
  <2>3. IsFiniteSet(I)
    BY <2>1, FS_Interval
  <2> QED
    BY <2>1, <2>2, <2>3
<1>2. seq \in Surjection(I, E)
  BY DEF Surjection, Elements
<1>3. /\ IsFiniteSet(E)
      /\ Cardinality(E) = Cardinality(I) <=> seq \in Injection(I, E)
  <2> HIDE DEF I, E
  <2> QED
    BY <1>1, <1>2, FS_Surjection
<1>4. seq \in Injection(I, E) <=> Distinct(seq)
  BY <1>2 DEF Surjection, Injection, IsInjective, Distinct
<1> QED
  BY <1>1, <1>3, <1>4

\* The end of a queue of different names.
LEMMA DistinctTail ==
  ASSUME NEW S, NEW seq \in Seq(S), Distinct(seq), NEW n \in 0 .. Len(seq)
  PROVE  LET rest == SubSeq(seq, n + 1, Len(seq))
         IN  /\ rest \in Seq(S) /\ Distinct(rest) /\ Len(rest) = Len(seq) - n
             /\ Elements(rest) = Elements(seq) \ {seq[i] : i \in 1 .. n}
             /\ n < Len(seq) => rest[Len(rest)] = seq[Len(seq)]
<1> DEFINE rest == SubSeq(seq, n + 1, Len(seq))
<1>1. Len(seq) \in Nat /\ \A i \in 1 .. Len(seq) : seq[i] \in S
  OBVIOUS
<1>2. /\ rest \in Seq(S)
      /\ Len(rest) = Len(seq) - n
      /\ \A i \in 1 .. Len(seq) - n : rest[i] = seq[n + i]
  BY <1>1
<1> HIDE DEF rest
<1>3. Distinct(rest)
  BY <1>1, <1>2 DEF Distinct
<1>4. Elements(rest) = Elements(seq) \ {seq[i] : i \in 1 .. n}
  <2>1. ASSUME NEW e \in Elements(rest)
        PROVE  e \in Elements(seq) \ {seq[i] : i \in 1 .. n}
    <3>1. PICK i \in 1 .. Len(seq) - n : e = rest[i]
      BY <1>2 DEF Elements
    <3>2. n + i \in 1 .. Len(seq) /\ e = seq[n + i] /\ n + i > n
      BY <1>1, <1>2, <3>1
    <3>3. e \in Elements(seq)
      BY <3>2 DEF Elements
    <3>4. ASSUME NEW j \in 1 .. n, e = seq[j] PROVE FALSE
      <4>1. j \in 1 .. Len(seq) /\ j # n + i
        BY <1>1, <3>2
      <4> QED
        BY <3>2, <3>4, <4>1 DEF Distinct
    <3> QED
      BY <3>3, <3>4
  <2>2. ASSUME NEW e \in Elements(seq) \ {seq[i] : i \in 1 .. n}
        PROVE  e \in Elements(rest)
    <3>1. PICK i \in 1 .. Len(seq) : e = seq[i]
      BY DEF Elements
    <3>2. i - n \in 1 .. Len(seq) - n /\ rest[i - n] = e
      BY <1>1, <1>2, <2>2, <3>1
    <3> QED
      BY <1>1, <1>2, <3>2 DEF Elements
  <2> QED
    BY <2>1, <2>2
<1>5. n < Len(seq) => rest[Len(rest)] = seq[Len(seq)]
  BY <1>1, <1>2
<1> QED
  BY <1>2, <1>3, <1>4, <1>5 DEF rest
-----------------------------------------------------------------------------
(* Positions                                                               *)

\* If g counts the positions from below, Chosen takes the elements in that order.
LEMMA ChosenIs ==
  ASSUME NEW seq, NEW P \in SUBSET Nat, NEW K \in Nat, NEW g \in [1 .. K -> P],
         \A i, j \in 1 .. K : i < j => g[i] < g[j],
         \A n \in P : \E i \in 1 .. K : g[i] = n
  PROVE  Chosen(seq, P) = [i \in 1 .. K |-> seq[g[i]]]
<1> DEFINE up(m) == {g[j] : j \in 1 .. m}
           below(n) == {m \in P : m < n}
           Good == {m \in 0 .. K : IsFiniteSet(up(m)) /\ Cardinality(up(m)) = m}
<1>0. \A i \in 1 .. K : g[i] \in P /\ g[i] \in Nat
  OBVIOUS
<1>1. 0 \in Good
  <2>1. up(0) = {}
    OBVIOUS
  <2> QED
    BY <2>1, FS_EmptySet
<1>2. ASSUME NEW m \in 0 .. K - 1, m \in Good
      PROVE  m + 1 \in Good
  <2>1. m + 1 \in 1 .. K /\ m \in Nat /\ IsFiniteSet(up(m)) /\ Cardinality(up(m)) = m
    BY <1>2
  <2>2. up(m + 1) = up(m) \cup {g[m + 1]}
    <3>1. \A j : j \in 1 .. m + 1 <=> j \in 1 .. m \/ j = m + 1
      BY <2>1
    <3> QED
      BY <3>1
  <2>3. g[m + 1] \notin up(m)
    <3> SUFFICES ASSUME NEW j \in 1 .. m, g[j] = g[m + 1] PROVE FALSE
      OBVIOUS
    <3>1. j \in 1 .. K /\ j < m + 1
      BY <2>1
    <3>2. g[j] < g[m + 1] /\ g[j] \in Nat
      BY <1>0, <2>1, <3>1
    <3> QED
      BY <3>2
  <2> DEFINE U == up(m)
             V == up(m + 1)
             e == g[m + 1]
  <2>4. /\ IsFiniteSet(U) /\ Cardinality(U) = m
        /\ V = U \cup {e} /\ e \notin U
    BY <2>1, <2>2, <2>3
  <2>5. IsFiniteSet(V) /\ Cardinality(V) = m + 1
    <3> HIDE DEF U, V, e
    <3> QED
      BY <2>1, <2>4, FS_AddElement
  <2> HIDE DEF up
  <2> QED
    BY <2>1, <2>5
<1>3. \A m \in 0 .. K : IsFiniteSet(up(m)) /\ Cardinality(up(m)) = m
  <2> HIDE DEF Good
  <2>1. \A m \in 0 .. K : m \in Good
    BY <1>1, <1>2, CountingInduction
  <2> QED
    BY <2>1 DEF Good
<1>4. P = up(K)
  <2>1. \A n \in P : n \in up(K)
    OBVIOUS
  <2>2. \A n \in up(K) : n \in P
    BY <1>0
  <2> QED
    BY <2>1, <2>2
<1>5. Cardinality(P) = K
  <2>1. K \in 0 .. K
    OBVIOUS
  <2> HIDE DEF up
  <2> QED
    BY <1>3, <1>4, <2>1
<1>6. ASSUME NEW i \in 1 .. K
      PROVE  Cardinality(below(g[i])) = i - 1
  <2>1. i - 1 \in 0 .. K
    OBVIOUS
  <2>2. ASSUME NEW n \in below(g[i]) PROVE n \in up(i - 1)
    <3>1. PICK j \in 1 .. K : g[j] = n
      BY <2>2
    <3>2. g[j] < g[i] /\ g[j] \in Nat /\ g[i] \in Nat
      BY <1>0, <2>2, <3>1
    <3>3. j < i
      <4>1. CASE j = i
        BY <3>2, <4>1
      <4>2. CASE j > i
        <5>1. g[i] < g[j]
          BY <4>2
        <5> QED
          BY <3>2, <5>1
      <4> QED
        BY <4>1, <4>2
    <3>4. j \in 1 .. i - 1
      BY <3>3
    <3> QED
      BY <3>1, <3>4
  <2>3. ASSUME NEW n \in up(i - 1) PROVE n \in below(g[i])
    <3>1. PICK j \in 1 .. i - 1 : g[j] = n
      BY <2>3
    <3>2. j \in 1 .. K /\ j < i
      OBVIOUS
    <3>3. g[j] < g[i] /\ g[j] \in P
      BY <1>0, <3>2
    <3> QED
      BY <3>1, <3>3
  <2>4. below(g[i]) = up(i - 1)
    <3> HIDE DEF below, up
    <3> QED
      BY <2>2, <2>3
  <2> HIDE DEF below, up
  <2> QED
    BY <1>3, <2>1, <2>4
<1>7. ASSUME NEW i \in 1 .. K
      PROVE  (CHOOSE n \in P : Cardinality(below(n)) = i - 1) = g[i]
  <2>1. g[i] \in P /\ Cardinality(below(g[i])) = i - 1
    BY <1>0, <1>6
  <2>2. ASSUME NEW n \in P, Cardinality(below(n)) = i - 1 PROVE n = g[i]
    <3>1. PICK j \in 1 .. K : g[j] = n
      OBVIOUS
    <3>2. Cardinality(below(n)) = j - 1
      BY <1>6, <3>1
    <3>3. j = i
      BY <2>2, <3>2
    <3> QED
      BY <3>1, <3>3
  <2> HIDE DEF below
  <2> QED
    BY <2>1, <2>2
<1> DEFINE pick(i) == CHOOSE n \in P : Cardinality({m \in P : m < n}) = i - 1
<1>8. \A i \in 1 .. K : pick(i) = g[i]
  BY <1>7
<1>9. Chosen(seq, P) = [i \in 1 .. K |-> seq[pick(i)]]
  BY <1>5 DEF Chosen
<1> HIDE DEF up, Good, pick, below
<1> QED
  BY <1>8, <1>9

\* Nothing is chosen from no positions, one element from one.
LEMMA ChosenFew ==
  ASSUME NEW seq
  PROVE  /\ Chosen(seq, {}) = <<>>
         /\ \A n \in Nat : Chosen(seq, {n}) = <<seq[n]>>
<1>1. Chosen(seq, {}) = <<>>
  <2>1. Cardinality({}) = 0
    BY FS_EmptySet
  <2>2. Chosen(seq, {}) \in Seq({}) /\ Len(Chosen(seq, {})) = 0
    BY <2>1 DEF Chosen
  <2> QED
    BY <2>2
<1>2. ASSUME NEW n \in Nat
      PROVE  Chosen(seq, {n}) = <<seq[n]>>
  <2> DEFINE g == [i \in 1 .. 1 |-> n]
  <2>1. /\ {n} \in SUBSET Nat /\ 1 \in Nat /\ g \in [1 .. 1 -> {n}]
        /\ \A i, j \in 1 .. 1 : i < j => g[i] < g[j]
        /\ \A m \in {n} : \E i \in 1 .. 1 : g[i] = m
        /\ \A i \in 1 .. 1 : g[i] = n
    OBVIOUS
  <2> HIDE DEF g
  <2> DEFINE P == {n}
             K == 1
  <2>2. Chosen(seq, P) = [i \in 1 .. K |-> seq[g[i]]]
    <3>1. /\ P \in SUBSET Nat /\ K \in Nat /\ g \in [1 .. K -> P]
          /\ \A i, j \in 1 .. K : i < j => g[i] < g[j]
          /\ \A m \in P : \E i \in 1 .. K : g[i] = m
      BY <2>1
    <3> HIDE DEF P, K
    <3> QED
      BY <3>1, ChosenIs
  <2>3. [i \in 1 .. 1 |-> seq[g[i]]] = <<seq[n]>>
    BY <2>1
  <2> QED
    BY <2>2, <2>3
<1> QED
  BY <1>1, <1>2

-----------------------------------------------------------------------------
(* Paths                                                                   *)

\* The events of a sequence lead from u to w, each by a step that R allows.
Path(R, events, u, w) ==
  \E t : /\ t[0] = u /\ t[Len(events)] = w
         /\ \A k \in 1 .. Len(events) : <<t[k - 1], events[k], t[k]>> \in R

LEMMA PathEmpty ==
  ASSUME NEW R, NEW u, NEW w
  PROVE  Path(R, <<>>, u, w) <=> u = w
<1>1. ASSUME Path(R, <<>>, u, w) PROVE u = w
  BY <1>1 DEF Path
<1>2. ASSUME u = w PROVE Path(R, <<>>, u, w)
  <2> DEFINE t == [k \in 0 .. 0 |-> u]
  <2>1. t[0] = u /\ t[Len(<<>>)] = w /\ \A k \in 1 .. Len(<<>>) : FALSE
    BY <1>2
  <2> HIDE DEF t
  <2> QED
    BY <2>1 DEF Path
<1> QED
  BY <1>1, <1>2

LEMMA PathOne ==
  ASSUME NEW R, NEW u, NEW e, NEW w, <<u, e, w>> \in R
  PROVE  Path(R, <<e>>, u, w)
<1> DEFINE t == [k \in 0 .. 1 |-> IF k = 0 THEN u ELSE w]
<1>1. /\ t[0] = u /\ t[1] = w /\ Len(<<e>>) = 1 /\ <<e>>[1] = e
      /\ \A k \in 1 .. 1 : k = 1 /\ k - 1 = 0
  OBVIOUS
<1> HIDE DEF t
<1>2. \A k \in 1 .. 1 : <<t[k - 1], <<e>>[k], t[k]>> \in R
  BY <1>1
<1> QED
  BY <1>1, <1>2 DEF Path

LEMMA PathJoin ==
  ASSUME NEW R, NEW S, NEW a \in Seq(S), NEW b \in Seq(S), NEW u, NEW v, NEW w,
         Path(R, a, u, v), Path(R, b, v, w)
  PROVE  Path(R, a \o b, u, w)
<1>1. PICK f : /\ f[0] = u /\ f[Len(a)] = v
               /\ \A k \in 1 .. Len(a) : <<f[k - 1], a[k], f[k]>> \in R
  BY DEF Path
<1>2. PICK g : /\ g[0] = v /\ g[Len(b)] = w
               /\ \A k \in 1 .. Len(b) : <<g[k - 1], b[k], g[k]>> \in R
  BY DEF Path
<1> DEFINE c == a \o b
           m == Len(a)
           n == Len(b)
           t == [k \in 0 .. m + n |-> IF k <= m THEN f[k] ELSE g[k - m]]
<1>3. /\ m \in Nat /\ n \in Nat /\ Len(c) = m + n
      /\ \A k \in 1 .. m : c[k] = a[k]
      /\ \A k \in 1 .. n : c[m + k] = b[k]
  <2>1. /\ m \in Nat /\ n \in Nat /\ Len(c) = m + n
        /\ \A k \in 1 .. m + n : c[k] = IF k <= m THEN a[k] ELSE b[k - m]
    BY ConcatProperties
  <2> HIDE DEF c, m, n
  <2>2. ASSUME NEW k \in 1 .. n PROVE c[m + k] = b[k]
    <3>1. m + k \in 1 .. m + n /\ ~(m + k <= m) /\ (m + k) - m = k
      BY <2>1
    <3> QED
      BY <2>1, <3>1
  <2> QED
    BY <2>1, <2>2
<1>4. /\ \A k \in 0 .. m : t[k] = f[k]
      /\ \A k \in 1 .. n : t[m + k] = g[k]
  BY <1>3
<1>5. \A k \in 0 .. n : t[m + k] = g[k]
  <2>1. m \in 0 .. m /\ m + 0 = m
    BY <1>3
  <2>2. t[m] = g[0]
    BY <1>1, <1>2, <1>4, <2>1
  <2> HIDE DEF t, m, n
  <2> SUFFICES ASSUME NEW k \in 0 .. n PROVE t[m + k] = g[k]
    OBVIOUS
  <2>3. CASE k = 0
    BY <2>1, <2>2, <2>3
  <2>4. CASE k # 0
    <3>1. k \in 1 .. n
      BY <1>3, <2>4
    <3> QED
      BY <1>4, <3>1
  <2> QED
    BY <2>3, <2>4
<1> HIDE DEF t, c, m, n
<1>6. ASSUME NEW k \in 1 .. m + n
      PROVE  <<t[k - 1], c[k], t[k]>> \in R
  <2>1. CASE k \in 1 .. m
    <3>1. t[k - 1] = f[k - 1] /\ t[k] = f[k] /\ c[k] = a[k]
      BY <1>3, <1>4, <2>1
    <3> QED
      BY <1>1, <2>1, <3>1 DEF m
  <2>2. CASE k > m
    <3>1. PICK j \in 1 .. n : k = m + j
      <4>1. k - m \in 1 .. n /\ k = m + (k - m)
        BY <1>3, <2>2
      <4> QED
        BY <4>1
    <3>2. k - 1 = m + (j - 1) /\ j - 1 \in 0 .. n /\ j \in 0 .. n
      BY <1>3, <3>1
    <3>3. t[k - 1] = g[j - 1] /\ t[k] = g[j] /\ c[k] = b[j]
      BY <1>3, <1>5, <3>1, <3>2
    <3> QED
      BY <1>2, <3>1, <3>3 DEF n
  <2> QED
    BY <1>3, <2>1, <2>2
<1>7. t[0] = u /\ t[m + n] = w
  <2>1. 0 \in 0 .. m /\ n \in 0 .. n
    BY <1>3
  <2> QED
    BY <1>1, <1>2, <1>4, <1>5, <2>1 DEF n
<1> QED
  BY <1>3, <1>6, <1>7 DEF Path, c

\* The first event leads to where the others begin.
LEMMA PathFirst ==
  ASSUME NEW R, NEW S, NEW events \in Seq(S), events # <<>>, NEW u, NEW w,
         Path(R, events, u, w)
  PROVE  \E v : <<u, Head(events), v>> \in R /\ Path(R, Tail(events), v, w)
<1>1. PICK f : /\ f[0] = u /\ f[Len(events)] = w
               /\ \A k \in 1 .. Len(events) : <<f[k - 1], events[k], f[k]>> \in R
  BY DEF Path
<1> DEFINE n == Len(events)
           rest == Tail(events)
           t == [k \in 0 .. n - 1 |-> f[k + 1]]
<1>2. /\ n \in Nat \ {0} /\ Len(rest) = n - 1 /\ Head(events) = events[1]
      /\ \A k \in 1 .. n - 1 : rest[k] = events[k + 1]
  OBVIOUS
<1>3. \A k \in 0 .. n - 1 : t[k] = f[k + 1]
  OBVIOUS
<1> HIDE DEF t, n, rest
<1>4. <<u, Head(events), f[1]>> \in R
  <2>1. 1 \in 1 .. n /\ 1 - 1 = 0
    BY <1>2
  <2> QED
    BY <1>1, <1>2, <2>1 DEF n
<1>5. t[0] = f[1] /\ t[n - 1] = w
  <2>1. 0 \in 0 .. n - 1 /\ n - 1 \in 0 .. n - 1 /\ n - 1 + 1 = n /\ 0 + 1 = 1
    BY <1>2
  <2> QED
    BY <1>1, <1>3, <2>1 DEF n
<1>6. ASSUME NEW k \in 1 .. n - 1
      PROVE  <<t[k - 1], rest[k], t[k]>> \in R
  <2>1. /\ k - 1 \in 0 .. n - 1 /\ k \in 0 .. n - 1 /\ k - 1 + 1 = k
        /\ k + 1 \in 1 .. n /\ (k + 1) - 1 = k
    BY <1>2
  <2>2. t[k - 1] = f[k] /\ t[k] = f[k + 1] /\ rest[k] = events[k + 1]
    BY <1>2, <1>3, <2>1
  <2>3. <<f[(k + 1) - 1], events[k + 1], f[k + 1]>> \in R
    BY <1>1, <2>1 DEF n
  <2> QED
    BY <2>1, <2>2, <2>3
<1>7. Path(R, rest, f[1], w)
  BY <1>2, <1>5, <1>6 DEF Path
<1> QED
  BY <1>4, <1>7 DEF rest
==============================================================================

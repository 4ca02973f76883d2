------------------------------ MODULE StateProofs ------------------------------
(***************************************************************************)
(* What every operation on the state of a Master (MasterState) keeps:      *)
(* types, quota accounting, leases; and what the operations of the DRAM    *)
(* arena of a Store node (StoreState) preserve. These facts hold wherever  *)
(* the operations are used; the proofs about Master, MasterHA, AdminApi,   *)
(* StoreNode and CacheFlow rest on them.                                   *)
(***************************************************************************)
EXTENDS MasterState, StoreState, FiniteSetTheorems, WellFoundedInduction, TLAPS

-----------------------------------------------------------------------------
(* What the sum of a function over a finite set is, in the form the proofs *)
(* about quotas and counters need. The library defines the sum by          *)
(* recursion over the subsets of the set; its induction theorems have      *)
(* operator parameters and cannot be used, so induction is by a minimal    *)
(* counterexample, which is an element of a set.                           *)

\* Among sets of subsets of a finite set, some set is minimal.
LEMMA MinimalSubset ==
  ASSUME NEW S, NEW B, IsFiniteSet(S), B \subseteq SUBSET S, B # {}
  PROVE  \E s \in B : \A u \in B : u \subseteq s => u = s
<1>1. B \subseteq FiniteSubsetsOf(S)
  BY FS_Subset DEF FiniteSubsetsOf
<1>2. PICK s \in B : \A u \in B : ~(<<u, s>> \in StrictSubsetOrdering(S))
  BY <1>1, FS_StrictSubsetOrderingWellFounded, WFMin
<1>3. \A u \in B : u \subseteq s => u = s
  BY <1>2 DEF StrictSubsetOrdering
<1> QED
  BY <1>3

\* A set of numbers that is not empty has a smallest one.
LEMMA MinimalNat ==
  ASSUME NEW B, B \subseteq Nat, B # {}
  PROVE  \E n \in B : \A m \in B : n <= m
<1>1. PICK n \in B : \A m \in B : ~(<<m, n>> \in OpToRel(<, Nat))
  BY NatLessThanWellFounded, WFMin
<1>2. \A m \in B : ~(m < n)
  BY <1>1 DEF OpToRel
<1>3. \A m \in B : n <= m
  BY <1>2
<1> QED
  BY <1>3

-----------------------------------------------------------------------------
(* The recursion behind a sum. *)

Pick(s) == CHOOSE x \in s : TRUE

\* g gives the sums of f over the subsets of S that are in D.
IsFold(g, f, D) ==
  g = [s \in D |-> IF s = {} THEN 0 ELSE f[Pick(s)] + g[s \ {Pick(s)}]]

\* The library's definition, spelled out.
LEMMA SumIsFold ==
  ASSUME NEW f, NEW S
  PROVE  SumFunctionOnSet(f, S) = (CHOOSE g : IsFold(g, f, SUBSET S))[S]
BY DEF SumFunctionOnSet, FoldFunctionOnSet, MapThenFoldSet, IsFold, Pick

\* What is chosen from a set that is not empty is one of its elements.
LEMMA PickIn ==
  ASSUME NEW s, s # {}
  PROVE  Pick(s) \in s
BY DEF Pick

Upto(S, n) == {s \in SUBSET S : Cardinality(s) <= n}

\* The recursion has a solution: one for the sets of n + 1 elements follows from
\* one for the sets of n elements.
LEMMA FoldExists ==
  ASSUME NEW f, NEW S, IsFiniteSet(S)
  PROVE  \E g : IsFold(g, f, SUBSET S)
<1> DEFINE B == {n \in Nat : ~\E g : IsFold(g, f, Upto(S, n))}
<1>1. \A s \in SUBSET S : IsFiniteSet(s) /\ Cardinality(s) \in Nat /\ Cardinality(s) <= Cardinality(S)
  BY FS_Subset, FS_CardinalityType
<1>2. B = {}
  <2> SUFFICES ASSUME B # {}
               PROVE  FALSE
    OBVIOUS
  <2>1. PICK n \in B : \A m \in B : n <= m
    BY MinimalNat
  <2>2. n \in Nat /\ ~\E g : IsFold(g, f, Upto(S, n))
    OBVIOUS
  <2>3. CASE n = 0
    <3>1. \A s \in Upto(S, 0) : s = {}
      BY <1>1, FS_EmptySet DEF Upto
    <3>2. IsFold([s \in Upto(S, 0) |-> 0], f, Upto(S, 0))
      BY <3>1 DEF IsFold
    <3> QED
      BY <2>2, <2>3, <3>2
  <2>4. CASE n # 0
    <3>1. n - 1 \in Nat /\ n - 1 \notin B
      BY <2>1, <2>2, <2>4
    <3>2. PICK g : IsFold(g, f, Upto(S, n - 1))
      BY <3>1
    <3> DEFINE h == [s \in Upto(S, n) |-> IF s = {} THEN 0 ELSE f[Pick(s)] + g[s \ {Pick(s)}]]
    <3>3. ASSUME NEW s \in Upto(S, n), s # {}
          PROVE  s \ {Pick(s)} \in Upto(S, n - 1)
      <4>1. Pick(s) \in s /\ s \in SUBSET S /\ Cardinality(s) <= n
        BY <3>3, PickIn DEF Upto
      <4>2. Cardinality(s \ {Pick(s)}) = Cardinality(s) - 1
        BY <4>1, <1>1, FS_RemoveElement
      <4> QED
        BY <4>1, <4>2, <1>1, <2>2 DEF Upto
    <3>4. ASSUME NEW s \in Upto(S, n - 1)
          PROVE  h[s] = g[s]
      <4>1. s \in Upto(S, n)
        BY <1>1, <2>2 DEF Upto
      <4> QED
        BY <4>1, <3>2 DEF IsFold
    <3>5. ASSUME NEW s \in Upto(S, n), s # {}
          PROVE  h[s \ {Pick(s)}] = g[s \ {Pick(s)}]
      BY <3>3, <3>4, <3>5
    <3>6. h = [s \in Upto(S, n) |-> IF s = {} THEN 0 ELSE f[Pick(s)] + h[s \ {Pick(s)}]]
      BY <3>5
    <3> QED
      BY <3>6, <2>2 DEF IsFold
  <2> QED
    BY <2>3, <2>4
<1>3. SUBSET S = Upto(S, Cardinality(S))
  BY <1>1 DEF Upto
<1>4. Cardinality(S) \in Nat
  BY FS_CardinalityType
<1>5. \E g : IsFold(g, f, Upto(S, Cardinality(S)))
  BY <1>2, <1>4
<1> QED
  BY <1>3, <1>5, Zenon

\* Two solutions agree where both are defined.
LEMMA FoldUnique ==
  ASSUME NEW f, NEW S, NEW T \in SUBSET S, NEW g, NEW h, IsFiniteSet(S),
         IsFold(g, f, SUBSET S), IsFold(h, f, SUBSET T)
  PROVE  g[T] = h[T]
<1> DEFINE B == {s \in SUBSET T : g[s] # h[s]}
<1> SUFFICES ASSUME B # {}
             PROVE  FALSE
  OBVIOUS
<1>0. B \subseteq SUBSET S
  OBVIOUS
<1>1. PICK s \in B : \A u \in B : u \subseteq s => u = s
  <2> HIDE DEF B
  <2> QED
    BY <1>0, MinimalSubset
<1>2. s # {}
  BY DEF IsFold
<1>3. Pick(s) \in s
  BY <1>2, PickIn
<1>4. g[s \ {Pick(s)}] = h[s \ {Pick(s)}]
  BY <1>1, <1>3
<1> QED
  BY <1>2, <1>4 DEF IsFold

-----------------------------------------------------------------------------
(* Facts about sums. What they ask of functions has names, so that the     *)
(* provers find the instances.                                             *)

NatOn(f, S) == \A x \in S : f[x] \in Nat
SameOn(f, g, S) == \A x \in S : f[x] = g[x]
ZeroOn(f, S) == \A x \in S : f[x] = 0
BelowOn(f, g, S) == \A x \in S : f[x] <= g[x]

\* The sum over a subset is what the recursion for the whole set gives.
LEMMA SumOfSubset ==
  ASSUME NEW f, NEW S, NEW T \in SUBSET S, NEW g, IsFiniteSet(S), IsFold(g, f, SUBSET S)
  PROVE  SumFunctionOnSet(f, T) = g[T]
<1>1. \E r : IsFold(r, f, SUBSET T)
  BY FoldExists, FS_Subset
<1>2. PICK h : h = CHOOSE r : IsFold(r, f, SUBSET T)
  OBVIOUS
<1>3. IsFold(h, f, SUBSET T)
  BY <1>1, <1>2
<1>4. SumFunctionOnSet(f, T) = h[T]
  BY <1>2, SumIsFold
<1>5. g[T] = h[T]
  BY <1>3, FoldUnique
<1> QED
  BY <1>4, <1>5

\* The empty sum.
LEMMA SumEmpty ==
  ASSUME NEW f
  PROVE  SumFunctionOnSet(f, {}) = 0
<1>1. PICK g : IsFold(g, f, SUBSET {})
  BY FoldExists, FS_EmptySet
<1>2. SumFunctionOnSet(f, {}) = g[{}]
  <2>1. IsFiniteSet({}) /\ {} \in SUBSET {}
    BY FS_EmptySet
  <2> QED
    BY <1>1, <2>1, SumOfSubset, ZenonT(30)
<1> QED
  BY <1>1, <1>2 DEF IsFold

\* The sum without the element that is chosen first.
LEMMA SumRecursion ==
  ASSUME NEW f, NEW S, IsFiniteSet(S), S # {}
  PROVE  SumFunctionOnSet(f, S) = f[Pick(S)] + SumFunctionOnSet(f, S \ {Pick(S)})
<1>1. PICK g : IsFold(g, f, SUBSET S)
  BY FoldExists
<1>2. SumFunctionOnSet(f, S) = g[S]
  BY <1>1, SumOfSubset
<1>3. SumFunctionOnSet(f, S \ {Pick(S)}) = g[S \ {Pick(S)}]
  BY <1>1, SumOfSubset
<1>4. g[S] = f[Pick(S)] + g[S \ {Pick(S)}]
  BY <1>1 DEF IsFold
<1> QED
  BY <1>2, <1>3, <1>4

\* The sum of numbers is a number.
LEMMA SumType ==
  ASSUME NEW f, NEW S, IsFiniteSet(S), NatOn(f, S)
  PROVE  SumFunctionOnSet(f, S) \in Nat
<1> USE DEF NatOn
<1> DEFINE B == {T \in SUBSET S : SumFunctionOnSet(f, T) \notin Nat}
<1> SUFFICES ASSUME B # {}
             PROVE  FALSE
  OBVIOUS
<1>1. PICK T \in B : \A U \in B : U \subseteq T => U = T
  <2>1. B \subseteq SUBSET S
    OBVIOUS
  <2> HIDE DEF B
  <2> QED
    BY <2>1, MinimalSubset
<1>2. IsFiniteSet(T)
  BY FS_Subset
<1>3. T # {}
  BY SumEmpty
<1>4. Pick(T) \in T /\ SumFunctionOnSet(f, T) = f[Pick(T)] + SumFunctionOnSet(f, T \ {Pick(T)})
  BY <1>2, <1>3, PickIn, SumRecursion
<1>5. SumFunctionOnSet(f, T \ {Pick(T)}) \in Nat
  BY <1>1, <1>4
<1> QED
  BY <1>4, <1>5

\* Any element can be taken out of a sum.
LEMMA SumRemove ==
  ASSUME NEW f, NEW S, NEW x \in S, IsFiniteSet(S), NatOn(f, S)
  PROVE  SumFunctionOnSet(f, S) = f[x] + SumFunctionOnSet(f, S \ {x})
<1> USE DEF NatOn
<1> DEFINE Bad(T) == \E y \in T : SumFunctionOnSet(f, T) # f[y] + SumFunctionOnSet(f, T \ {y})
           B == {T \in SUBSET S : Bad(T)}
<1> SUFFICES ASSUME B # {}
             PROVE  FALSE
  OBVIOUS
<1>1. PICK T \in B : \A U \in B : U \subseteq T => U = T
  <2>1. B \subseteq SUBSET S
    OBVIOUS
  <2> HIDE DEF B
  <2> QED
    BY <2>1, MinimalSubset
<1>2. PICK y \in T : SumFunctionOnSet(f, T) # f[y] + SumFunctionOnSet(f, T \ {y})
  OBVIOUS
<1> DEFINE z == Pick(T)
<1>3. IsFiniteSet(T) /\ T \subseteq S
  BY FS_Subset
<1>4. z \in T /\ SumFunctionOnSet(f, T) = f[z] + SumFunctionOnSet(f, T \ {z})
  BY <1>3, PickIn, SumRecursion
<1> HIDE DEF z
<1>5. z # y
  BY <1>2, <1>4
<1>6. ~Bad(T \ {z}) /\ ~Bad(T \ {y})
  <2>1. \A U \in SUBSET T : U # T => ~Bad(U)
    BY <1>1, <1>3
  <2> HIDE DEF Bad
  <2> QED
    BY <1>4, <2>1
<1>7. SumFunctionOnSet(f, T \ {z}) = f[y] + SumFunctionOnSet(f, (T \ {z}) \ {y})
  BY <1>5, <1>6
<1>8. SumFunctionOnSet(f, T \ {y}) = f[z] + SumFunctionOnSet(f, (T \ {y}) \ {z})
  BY <1>4, <1>5, <1>6
<1>9. (T \ {z}) \ {y} = (T \ {y}) \ {z}
  OBVIOUS
<1>10. SumFunctionOnSet(f, (T \ {y}) \ {z}) \in Nat /\ f[y] \in Nat /\ f[z] \in Nat
  BY <1>3, <1>4, SumType, FS_RemoveElement
<1>11. SumFunctionOnSet(f, (T \ {z}) \ {y}) = SumFunctionOnSet(f, (T \ {y}) \ {z})
  BY <1>9
<1> HIDE DEF B, Bad
<1> QED
  BY <1>2, <1>4, <1>7, <1>8, <1>10, <1>11

\* A sum depends on the values at its arguments only.
LEMMA SumSame ==
  ASSUME NEW f, NEW g, NEW S, IsFiniteSet(S), SameOn(f, g, S)
  PROVE  SumFunctionOnSet(f, S) = SumFunctionOnSet(g, S)
<1> USE DEF SameOn
<1> DEFINE B == {T \in SUBSET S : SumFunctionOnSet(f, T) # SumFunctionOnSet(g, T)}
<1> SUFFICES ASSUME B # {}
             PROVE  FALSE
  OBVIOUS
<1>1. PICK T \in B : \A U \in B : U \subseteq T => U = T
  <2>1. B \subseteq SUBSET S
    OBVIOUS
  <2> HIDE DEF B
  <2> QED
    BY <2>1, MinimalSubset
<1>2. IsFiniteSet(T)
  BY FS_Subset
<1>3. T # {}
  BY SumEmpty
<1>4. /\ Pick(T) \in T
      /\ SumFunctionOnSet(f, T) = f[Pick(T)] + SumFunctionOnSet(f, T \ {Pick(T)})
      /\ SumFunctionOnSet(g, T) = g[Pick(T)] + SumFunctionOnSet(g, T \ {Pick(T)})
  BY <1>2, <1>3, PickIn, SumRecursion
<1>5. SumFunctionOnSet(f, T \ {Pick(T)}) = SumFunctionOnSet(g, T \ {Pick(T)})
  BY <1>1, <1>4
<1> QED
  BY <1>4, <1>5

\* A sum of zeros.
LEMMA SumZero ==
  ASSUME NEW f, NEW S, IsFiniteSet(S), ZeroOn(f, S)
  PROVE  SumFunctionOnSet(f, S) = 0
<1> USE DEF ZeroOn
<1> DEFINE B == {T \in SUBSET S : SumFunctionOnSet(f, T) # 0}
<1> SUFFICES ASSUME B # {}
             PROVE  FALSE
  OBVIOUS
<1>1. PICK T \in B : \A U \in B : U \subseteq T => U = T
  <2>1. B \subseteq SUBSET S
    OBVIOUS
  <2> HIDE DEF B
  <2> QED
    BY <2>1, MinimalSubset
<1>2. IsFiniteSet(T)
  BY FS_Subset
<1>3. T # {}
  BY SumEmpty
<1>4. Pick(T) \in T /\ SumFunctionOnSet(f, T) = f[Pick(T)] + SumFunctionOnSet(f, T \ {Pick(T)})
  BY <1>2, <1>3, PickIn, SumRecursion
<1>5. SumFunctionOnSet(f, T \ {Pick(T)}) = 0
  BY <1>1, <1>4
<1> QED
  BY <1>4, <1>5

\* A sum of values of at least 1 is at least the number of its arguments.
LEMMA SumAtLeast ==
  ASSUME NEW f, NEW S, IsFiniteSet(S), NatOn(f, S), \A x \in S : f[x] >= 1
  PROVE  Cardinality(S) <= SumFunctionOnSet(f, S)
<1> USE DEF NatOn
<1> DEFINE B == {T \in SUBSET S : ~(Cardinality(T) <= SumFunctionOnSet(f, T))}
<1> SUFFICES ASSUME B # {}
             PROVE  FALSE
  OBVIOUS
<1>1. PICK T \in B : \A U \in B : U \subseteq T => U = T
  <2>1. B \subseteq SUBSET S
    OBVIOUS
  <2> HIDE DEF B
  <2> QED
    BY <2>1, MinimalSubset
<1>2. IsFiniteSet(T) /\ Cardinality(T) \in Nat
  BY FS_Subset, FS_CardinalityType
<1>3. T # {}
  BY SumEmpty, FS_EmptySet
<1>4. Pick(T) \in T /\ SumFunctionOnSet(f, T) = f[Pick(T)] + SumFunctionOnSet(f, T \ {Pick(T)})
  BY <1>2, <1>3, PickIn, SumRecursion
<1>5. Cardinality(T \ {Pick(T)}) = Cardinality(T) - 1
  BY <1>2, <1>4, FS_RemoveElement
<1>6. Cardinality(T \ {Pick(T)}) <= SumFunctionOnSet(f, T \ {Pick(T)})
  BY <1>1, <1>4
<1>7. SumFunctionOnSet(f, T \ {Pick(T)}) \in Nat
  <2>1. IsFiniteSet(T \ {Pick(T)}) /\ \A x \in T \ {Pick(T)} : f[x] \in Nat
    BY <1>2, FS_RemoveElement
  <2> QED
    BY <2>1, SumType
<1>8. f[Pick(T)] \in Nat /\ f[Pick(T)] >= 1 /\ ~(Cardinality(T) <= SumFunctionOnSet(f, T))
  BY <1>4
<1> HIDE DEF B
<1> QED
  BY <1>2, <1>4, <1>5, <1>6, <1>7, <1>8

\* A sum grows with its values, and a bound on each value bounds it.
LEMMA SumAtMost ==
  ASSUME NEW f, NEW g, NEW S, IsFiniteSet(S),
         NatOn(f, S), NatOn(g, S), BelowOn(f, g, S)
  PROVE  SumFunctionOnSet(f, S) <= SumFunctionOnSet(g, S)
<1> USE DEF NatOn, BelowOn
<1> DEFINE B == {T \in SUBSET S : ~(SumFunctionOnSet(f, T) <= SumFunctionOnSet(g, T))}
<1> SUFFICES ASSUME B # {}
             PROVE  FALSE
  OBVIOUS
<1>1. PICK T \in B : \A U \in B : U \subseteq T => U = T
  <2>1. B \subseteq SUBSET S
    OBVIOUS
  <2> HIDE DEF B
  <2> QED
    BY <2>1, MinimalSubset
<1>2. IsFiniteSet(T)
  BY FS_Subset
<1>3. T # {}
  BY SumEmpty
<1>4. /\ Pick(T) \in T
      /\ SumFunctionOnSet(f, T) = f[Pick(T)] + SumFunctionOnSet(f, T \ {Pick(T)})
      /\ SumFunctionOnSet(g, T) = g[Pick(T)] + SumFunctionOnSet(g, T \ {Pick(T)})
  BY <1>2, <1>3, PickIn, SumRecursion
<1>5. SumFunctionOnSet(f, T \ {Pick(T)}) <= SumFunctionOnSet(g, T \ {Pick(T)})
  BY <1>1, <1>4
<1>6. SumFunctionOnSet(f, T \ {Pick(T)}) \in Nat /\ SumFunctionOnSet(g, T \ {Pick(T)}) \in Nat
  <2>1. /\ IsFiniteSet(T \ {Pick(T)})
        /\ \A x \in T \ {Pick(T)} : f[x] \in Nat
        /\ \A x \in T \ {Pick(T)} : g[x] \in Nat
    BY <1>2, FS_RemoveElement
  <2> QED
    BY <2>1, SumType
<1>7. /\ f[Pick(T)] \in Nat /\ g[Pick(T)] \in Nat /\ f[Pick(T)] <= g[Pick(T)]
      /\ ~(SumFunctionOnSet(f, T) <= SumFunctionOnSet(g, T))
  BY <1>4
<1> HIDE DEF B
<1> QED
  BY <1>4, <1>5, <1>6, <1>7

\* A sum splits along a subset.
LEMMA SumSplit ==
  ASSUME NEW f, NEW S, NEW E \in SUBSET S, IsFiniteSet(S), NatOn(f, S)
  PROVE  SumFunctionOnSet(f, S) = SumFunctionOnSet(f, E) + SumFunctionOnSet(f, S \ E)
<1> USE DEF NatOn
<1> DEFINE B == {T \in SUBSET E : SumFunctionOnSet(f, S) # SumFunctionOnSet(f, T) + SumFunctionOnSet(f, S \ T)}
<1> SUFFICES ASSUME B # {}
             PROVE  FALSE
  OBVIOUS
<1>1. PICK T \in B : \A U \in B : U \subseteq T => U = T
  <2>1. B \subseteq SUBSET S
    OBVIOUS
  <2> HIDE DEF B
  <2> QED
    BY <2>1, MinimalSubset
<1>2. IsFiniteSet(T) /\ T \subseteq S
  BY FS_Subset
<1>3. SumFunctionOnSet(f, S) \in Nat
  BY SumType
<1>4. T # {}
  <2>1. S \ {} = S
    OBVIOUS
  <2> QED
    BY <1>3, <2>1, SumEmpty
<1>5. PICK x : x \in T
  BY <1>4
<1> DEFINE U == T \ {x}
<1>6. SumFunctionOnSet(f, S) = SumFunctionOnSet(f, U) + SumFunctionOnSet(f, S \ U)
  BY <1>1, <1>5
<1>7. SumFunctionOnSet(f, T) = f[x] + SumFunctionOnSet(f, U)
  <2>1. NatOn(f, T)
    BY <1>2
  <2> HIDE DEF NatOn, B
  <2> QED
    BY <1>2, <1>5, <2>1, SumRemove
<1>8. SumFunctionOnSet(f, S \ U) = f[x] + SumFunctionOnSet(f, S \ T)
  <2>1. IsFiniteSet(S \ U) /\ x \in S \ U /\ (S \ U) \ {x} = S \ T
    BY <1>2, <1>5, FS_Difference
  <2>2. SumFunctionOnSet(f, S \ U) = f[x] + SumFunctionOnSet(f, (S \ U) \ {x})
    <3> DEFINE V == S \ U
    <3>1. IsFiniteSet(V) /\ x \in V /\ \A y \in V : f[y] \in Nat
      BY <2>1
    <3> HIDE DEF V, U, B
    <3>2. SumFunctionOnSet(f, V) = f[x] + SumFunctionOnSet(f, V \ {x})
      BY <3>1, SumRemove
    <3> QED
      BY <3>2 DEF V
  <2> QED
    BY <2>1, <2>2
<1>9. SumFunctionOnSet(f, U) \in Nat /\ SumFunctionOnSet(f, S \ T) \in Nat /\ f[x] \in Nat
  <2>1. IsFiniteSet(U) /\ IsFiniteSet(S \ T)
    BY <1>2, FS_Difference
  <2>2. SumFunctionOnSet(f, U) \in Nat
    BY <1>2, <2>1, SumType
  <2>3. SumFunctionOnSet(f, S \ T) \in Nat
    BY <2>1, SumType
  <2> QED
    BY <1>2, <1>5, <2>2, <2>3
<1>10. SumFunctionOnSet(f, S) # SumFunctionOnSet(f, T) + SumFunctionOnSet(f, S \ T)
  OBVIOUS
<1> HIDE DEF B, U
<1> QED
  BY <1>6, <1>7, <1>8, <1>9, <1>10

\* Changing one value changes the sum by the difference.
LEMMA SumUpdate ==
  ASSUME NEW f, NEW g, NEW S, NEW x \in S, IsFiniteSet(S),
         NatOn(f, S), NatOn(g, S), SameOn(f, g, S \ {x})
  PROVE  SumFunctionOnSet(g, S) = (SumFunctionOnSet(f, S) - f[x]) + g[x] /\ f[x] <= SumFunctionOnSet(f, S)
<1>1. SumFunctionOnSet(f, S) = f[x] + SumFunctionOnSet(f, S \ {x})
  BY SumRemove
<1>2. SumFunctionOnSet(g, S) = g[x] + SumFunctionOnSet(g, S \ {x})
  BY SumRemove
<1>3. IsFiniteSet(S \ {x})
  BY FS_RemoveElement
<1>4. SumFunctionOnSet(f, S \ {x}) = SumFunctionOnSet(g, S \ {x})
  BY <1>3, SumSame
<1>5. SumFunctionOnSet(f, S \ {x}) \in Nat
  <2>1. NatOn(f, S \ {x})
    BY DEF NatOn
  <2> QED
    BY <1>3, <2>1, SumType
<1>6. f[x] \in Nat /\ g[x] \in Nat
  BY DEF NatOn
<1> QED
  BY <1>1, <1>2, <1>4, <1>5, <1>6

\* Setting a part of the values to 0 takes their sum away.
LEMMA SumDrop ==
  ASSUME NEW f, NEW g, NEW S, NEW E \in SUBSET S, IsFiniteSet(S),
         NatOn(f, S), SameOn(f, g, S \ E), ZeroOn(g, E)
  PROVE  /\ SumFunctionOnSet(g, S) = SumFunctionOnSet(f, S) - SumFunctionOnSet(f, E)
         /\ SumFunctionOnSet(f, E) <= SumFunctionOnSet(f, S)
<1>0. NatOn(g, S)
  BY DEF NatOn, SameOn, ZeroOn
<1>1. SumFunctionOnSet(f, S) = SumFunctionOnSet(f, E) + SumFunctionOnSet(f, S \ E)
  BY SumSplit
<1>2. SumFunctionOnSet(g, S) = SumFunctionOnSet(g, E) + SumFunctionOnSet(g, S \ E)
  BY <1>0, SumSplit
<1>3. IsFiniteSet(E) /\ IsFiniteSet(S \ E)
  BY FS_Subset, FS_Difference
<1>4. SumFunctionOnSet(f, S \ E) = SumFunctionOnSet(g, S \ E)
  BY <1>3, SumSame
<1>5. SumFunctionOnSet(g, E) = 0
  BY <1>3, SumZero
<1>6. SumFunctionOnSet(f, E) \in Nat /\ SumFunctionOnSet(f, S \ E) \in Nat
  <2>1. NatOn(f, E) /\ NatOn(f, S \ E)
    BY DEF NatOn
  <2> QED
    BY <1>3, <2>1, SumType
<1> QED
  BY <1>1, <1>2, <1>4, <1>5, <1>6

UpTo(f, S, q) == \A x \in S : f[x] <= q

\* A sum is at most the number of its arguments times a bound on its values.
LEMMA SumBounded ==
  ASSUME NEW f, NEW S, NEW q \in Nat, IsFiniteSet(S), NatOn(f, S), UpTo(f, S, q)
  PROVE  SumFunctionOnSet(f, S) <= Cardinality(S) * q
<1> USE DEF NatOn, UpTo
<1> DEFINE B == {T \in SUBSET S : ~(SumFunctionOnSet(f, T) <= Cardinality(T) * q)}
<1> SUFFICES ASSUME B # {}
             PROVE  FALSE
  OBVIOUS
<1>1. PICK T \in B : \A U \in B : U \subseteq T => U = T
  <2>1. B \subseteq SUBSET S
    OBVIOUS
  <2> HIDE DEF B
  <2> QED
    BY <2>1, MinimalSubset
<1>2. IsFiniteSet(T) /\ Cardinality(T) \in Nat
  BY FS_Subset, FS_CardinalityType
<1>3. T # {}
  <2>1. 0 * q = 0
    OBVIOUS
  <2> QED
    BY <2>1, SumEmpty, FS_EmptySet
<1>4. Pick(T) \in T /\ SumFunctionOnSet(f, T) = f[Pick(T)] + SumFunctionOnSet(f, T \ {Pick(T)})
  BY <1>2, <1>3, PickIn, SumRecursion
<1>5. Cardinality(T \ {Pick(T)}) = Cardinality(T) - 1
  BY <1>2, <1>4, FS_RemoveElement
<1>6. SumFunctionOnSet(f, T \ {Pick(T)}) <= Cardinality(T \ {Pick(T)}) * q
  BY <1>1, <1>4
<1>7. SumFunctionOnSet(f, T \ {Pick(T)}) \in Nat
  <2>1. IsFiniteSet(T \ {Pick(T)}) /\ NatOn(f, T \ {Pick(T)})
    BY <1>2, FS_RemoveElement
  <2> HIDE DEF NatOn, B
  <2> QED
    BY <2>1, SumType
<1>8. f[Pick(T)] \in Nat /\ f[Pick(T)] <= q /\ ~(SumFunctionOnSet(f, T) <= Cardinality(T) * q)
  BY <1>4
<1>9. (Cardinality(T) - 1) * q = Cardinality(T) * q - q /\ Cardinality(T) * q \in Int
  BY <1>2
<1> DEFINE c == Cardinality(T) * q
<1>10. SumFunctionOnSet(f, T \ {Pick(T)}) <= c - q /\ c \in Int /\ ~(SumFunctionOnSet(f, T) <= c)
  BY <1>5, <1>6, <1>8, <1>9
<1> HIDE DEF B, c
<1> QED
  BY <1>4, <1>7, <1>8, <1>10

\* Adding to one of the values, and taking from none, adds that much to the sum.
LEMMA SumGrows ==
  ASSUME NEW f, NEW h, NEW S, NEW x \in S, NEW n \in Nat, IsFiniteSet(S),
         NatOn(f, S), NatOn(h, S), BelowOn(f, h, S), f[x] + n <= h[x]
  PROVE  SumFunctionOnSet(f, S) + n <= SumFunctionOnSet(h, S)
<1>1. SumFunctionOnSet(f, S) = f[x] + SumFunctionOnSet(f, S \ {x})
  BY SumRemove
<1>2. SumFunctionOnSet(h, S) = h[x] + SumFunctionOnSet(h, S \ {x})
  BY SumRemove
<1>3. /\ IsFiniteSet(S \ {x})
      /\ NatOn(f, S \ {x}) /\ NatOn(h, S \ {x}) /\ BelowOn(f, h, S \ {x})
  BY FS_RemoveElement DEF NatOn, BelowOn
<1>4. SumFunctionOnSet(f, S \ {x}) <= SumFunctionOnSet(h, S \ {x})
  BY <1>3, SumAtMost
<1>5. SumFunctionOnSet(f, S \ {x}) \in Nat /\ SumFunctionOnSet(h, S \ {x}) \in Nat
  BY <1>3, SumType
<1>6. f[x] \in Nat /\ h[x] \in Nat
  BY DEF NatOn
<1> QED
  BY <1>1, <1>2, <1>4, <1>5, <1>6

-----------------------------------------------------------------------------
(* Every operation maps a well-typed MasterState to a well-typed one. *)

\* Saturating arithmetic stays within u64, whatever its arguments add up to.
LEMMA SaturationType ==
  ASSUME NEW objs, NEW ids, NEW a \in U64, NEW b \in U64, NEW c
  PROVE  /\ ReservedTotal(objs, ids) \in U64
         /\ SatAdd(a, c) \in U64
         /\ SatSub(a, b) \in U64
  BY U64MaxAssumption DEF ReservedTotal, SatAdd, SatSub, U64

\* An object reserves at most its length.
LEMMA ReservedBytesType ==
  ASSUME NEW o \in ObjectMeta
  PROVE  ReservedBytes(o) \in U64
  BY U64MaxAssumption DEF ObjectMeta, ReservedBytes, U64

\* The id of an object names one of the tenants.
LEMMA IdType ==
  ASSUME NEW id \in Ids
  PROVE  id[1] \in Tenants
  BY DEF Ids

\* The empty Master is well typed.
LEMMA NewMasterType == NewMaster \in MasterStates
  BY U64MaxAssumption
     DEF NewMaster, MasterStates, NoObject, NoQuota, ObjectMeta, Quota, Statuses, U64, Replica

\* A mounted segment starts empty and its length is a u64.
LEMMA MountSegmentType ==
  ASSUME NEW ms \in MasterStates, NEW node \in Nodes, NEW len \in U64
  PROVE  MountSegment(ms, node, len) \in MasterStates
  <1>1. [node |-> node, len |-> len, next |-> 0] \in Segment
    BY U64MaxAssumption DEF Segment, U64
  <1>2. Append(ms.segments, [node |-> node, len |-> len, next |-> 0]) \in Seq(Segment)
    BY <1>1 DEF MasterStates
  <1> QED
    BY <1>2 DEF MountSegment, MasterStates

\* Another number of used bytes keeps the rest of a quota.
LEMMA UsedType ==
  ASSUME NEW ms \in MasterStates, NEW t \in Tenants, NEW used \in U64
  PROVE  [ms EXCEPT !.quotas[t].used = used] \in MasterStates
  <1> DEFINE quota == [ms.quotas[t] EXCEPT !.used = used]
             quotas == [ms.quotas EXCEPT ![t] = quota]
  <1>1. ms.quotas \in [Tenants -> Quota]
    BY DEF MasterStates
  <1>2. quota \in Quota
    BY <1>1 DEF Quota
  <1>3. quotas \in [Tenants -> Quota]
    <2> HIDE DEF quota
    <2> QED BY <1>1, <1>2
  <1>4. [ms EXCEPT !.quotas[t].used = used] = [ms EXCEPT !.quotas = quotas]
    OBVIOUS
  <1> HIDE DEF quotas
  <1>5. [ms EXCEPT !.quotas = quotas] \in MasterStates
    BY <1>3 DEF MasterStates
  <1> QED
    BY <1>4, <1>5

\* Releasing saturates at 0.
LEMMA ReleaseQuotaType ==
  ASSUME NEW ms \in MasterStates, NEW t \in Tenants, NEW bytes \in U64
  PROVE  ReleaseQuota(ms, t, bytes) \in MasterStates
  <1> DEFINE used == IF ms.quotas[t].set THEN SatSub(ms.quotas[t].used, bytes) ELSE ms.quotas[t].used
  <1>1. used \in U64
    BY SaturationType DEF MasterStates, Quota
  <1>2. ReleaseQuota(ms, t, bytes) = [ms EXCEPT !.quotas[t].used = used]
    BY DEF ReleaseQuota
  <1> HIDE DEF used
  <1> QED
    BY <1>1, <1>2, UsedType

\* Reserving within a u64 limit cannot overflow.
LEMMA ReserveQuotaType ==
  ASSUME NEW ms \in MasterStates, NEW t \in Tenants, NEW bytes \in U64, CanReserve(ms, t, bytes)
  PROVE  ReserveQuota(ms, t, bytes) \in MasterStates
  <1>1. ms.quotas[t].set => ms.quotas[t].used + bytes \in U64
    BY U64MaxAssumption DEF CanReserve, MasterStates, Quota, U64
  <1> DEFINE used == IF ms.quotas[t].set THEN ms.quotas[t].used + bytes ELSE ms.quotas[t].used
  <1>2. used \in U64
    BY <1>1 DEF MasterStates, Quota
  <1>3. ReserveQuota(ms, t, bytes) = [ms EXCEPT !.quotas[t].used = used]
    BY DEF ReserveQuota
  <1> HIDE DEF used
  <1> QED
    BY <1>2, <1>3, UsedType

\* Dropping a lease changes the lease map only.
LEMMA DropLeaseType ==
  ASSUME NEW ms \in MasterStates, NEW id \in Ids
  PROVE  DropLease(ms, id) \in MasterStates
  <1>1. 0 \in U64
    BY U64MaxAssumption DEF U64
  <1> QED
    BY <1>1 DEF DropLease, MasterStates

\* A status change keeps the other fields of the object.
LEMMA StatusType ==
  ASSUME NEW ms \in MasterStates, NEW id \in Ids, NEW st \in Statuses
  PROVE  [ms EXCEPT !.objects[id].status = st] \in MasterStates
  <1> DEFINE object == [ms.objects[id] EXCEPT !.status = st]
             objects == [ms.objects EXCEPT ![id] = object]
  <1>1. ms.objects \in [Ids -> ObjectMeta]
    BY DEF MasterStates
  <1>2. object \in ObjectMeta
    BY <1>1 DEF ObjectMeta
  <1>3. objects \in [Ids -> ObjectMeta]
    <2> HIDE DEF object
    <2> QED BY <1>1, <1>2
  <1>4. [ms EXCEPT !.objects[id].status = st] = [ms EXCEPT !.objects = objects]
    OBVIOUS
  <1> HIDE DEF objects
  <1>5. [ms EXCEPT !.objects = objects] \in MasterStates
    BY <1>3 DEF MasterStates
  <1> QED
    BY <1>4, <1>5

\* A new quota is limited to u64, its used bytes saturate.
LEMMA SetTenantQuotaType ==
  ASSUME NEW ms \in MasterStates, NEW t \in Tenants, NEW dram \in U64
  PROVE  SetTenantQuota(ms, t, dram) \in MasterStates
  <1>1. ReservedTotal(ms.objects, TenantIds(t)) \in U64
    BY SaturationType
  <1>2. [set |-> TRUE, dram |-> dram, used |-> ReservedTotal(ms.objects, TenantIds(t))] \in Quota
    BY <1>1 DEF Quota
  <1> QED
    BY <1>2 DEF SetTenantQuota, MasterStates

\* put_start: reserve quota, place the replicas, record the reservation.
LEMMA PutStartType ==
  ASSUME NEW ms \in MasterStates, NEW id \in Ids, NEW len \in U64, NEW n \in Nat
  PROVE  PutStart(ms, id, len, n) \in MasterStates
  <1> DEFINE reserved == ReserveQuota(ms, id[1], len)
             object == [status |-> "Reserving", len |-> len,
                        replicas |-> NewReplicas(ms.segments, len, n),
                        hardPinned |-> FALSE, softPinnedUntil |-> 0]
             segments == AdvanceSegments(ms.segments, len, n)
  <1>1. CASE PutStartOk(ms, id, len, n)
    <2>1. reserved \in MasterStates
      BY <1>1, IdType, ReserveQuotaType DEF PutStartOk
    <2>2. reserved.segments = ms.segments
      BY DEF ReserveQuota, MasterStates
    <2>3. ASSUME NEW i \in Picked(ms.segments, len, n)
          PROVE  /\ i \in DOMAIN ms.segments
                 /\ ms.segments[i] \in Segment
                 /\ ms.segments[i].next + len \in U64
      <3>1. i \in DOMAIN ms.segments /\ CanFit(ms.segments[i], len)
        BY DEF Picked
      <3>2. ms.segments[i] \in Segment
        BY <3>1 DEF MasterStates
      <3>3. ms.segments[i].next + len \in U64
        BY <3>1, <3>2, U64MaxAssumption DEF CanFit, Segment, U64
      <3> QED
        BY <3>1, <3>2, <3>3
    <2>4. object \in ObjectMeta
      <3>1. NewReplicas(ms.segments, len, n) \subseteq Replica
        BY <2>3 DEF NewReplicas, Replica, Segment, MasterStates
      <3>2. 0 \in U64
        BY U64MaxAssumption DEF U64
      <3> QED
        BY <3>1, <3>2 DEF ObjectMeta, Statuses
    <2>5. segments \in Seq(Segment)
      <3>1. ASSUME NEW i \in DOMAIN ms.segments
            PROVE  segments[i] \in Segment
        <4>1. ms.segments[i] \in Segment
          BY DEF MasterStates
        <4>2. CASE i \in Picked(ms.segments, len, n)
          BY <2>3, <4>1, <4>2 DEF AdvanceSegments, Segment
        <4>3. CASE i \notin Picked(ms.segments, len, n)
          BY <4>1, <4>3 DEF AdvanceSegments
        <4> QED
          BY <4>2, <4>3
      <3>2. DOMAIN segments = 1..Len(ms.segments) /\ Len(ms.segments) \in Nat
        BY DEF AdvanceSegments, MasterStates
      <3>3. segments = [i \in 1..Len(ms.segments) |-> segments[i]]
        BY <3>2 DEF AdvanceSegments, MasterStates
      <3> QED
        BY <3>1, <3>2, <3>3, SMTT(20) DEF MasterStates
    <2>6. PutStart(ms, id, len, n) = [reserved EXCEPT !.objects[id] = object, !.segments = segments]
      BY <1>1, <2>2 DEF PutStart
    <2> HIDE DEF reserved, object, segments
    <2>7. [reserved.objects EXCEPT ![id] = object] \in [Ids -> ObjectMeta]
      BY <2>1, <2>4 DEF MasterStates
    <2>8. PutStart(ms, id, len, n) =
            [reserved EXCEPT !.objects = [reserved.objects EXCEPT ![id] = object],
                             !.segments = segments]
      BY <2>6, Zenon
    <2> QED
      BY <2>1, <2>5, <2>7, <2>8 DEF MasterStates
  <1>2. CASE ~PutStartOk(ms, id, len, n) /\ ms.objects[id].status = "Absent" /\ CanReserve(ms, id[1], len)
    <2>1. reserved \in MasterStates
      BY <1>2, IdType, ReserveQuotaType
    <2>2. ReleaseQuota(reserved, id[1], len) \in MasterStates
      BY <2>1, IdType, ReleaseQuotaType
    <2> QED
      BY <1>2, <2>2 DEF PutStart
  <1>3. CASE ~PutStartOk(ms, id, len, n) /\ ~(ms.objects[id].status = "Absent" /\ CanReserve(ms, id[1], len))
    BY <1>3 DEF PutStart
  <1> QED
    BY <1>1, <1>2, <1>3

\* put_end changes the status only.
LEMMA PutEndType ==
  ASSUME NEW ms \in MasterStates, NEW id \in Ids
  PROVE  PutEnd(ms, id) \in MasterStates
  BY StatusType DEF PutEnd, Statuses

\* put_revoke: mark revoked, release the quota, drop the lease.
LEMMA PutRevokeType ==
  ASSUME NEW ms \in MasterStates, NEW id \in Ids
  PROVE  PutRevoke(ms, id) \in MasterStates
  <1> DEFINE revoked == [ms EXCEPT !.objects[id].status = "Revoked"]
             bytes == ReservedBytes(ms.objects[id])
  <1>1. revoked \in MasterStates
    BY StatusType DEF Statuses
  <1>2. bytes \in U64
    BY ReservedBytesType DEF MasterStates
  <1>3. ReleaseQuota(revoked, id[1], bytes) \in MasterStates
    BY <1>1, <1>2, IdType, ReleaseQuotaType
  <1>4. DropLease(ReleaseQuota(revoked, id[1], bytes), id) \in MasterStates
    BY <1>3, DropLeaseType
  <1> QED
    BY <1>4 DEF PutRevoke

\* get_replica_list records a lease that saturates at u64::MAX.
LEMMA GetReplicaListType ==
  ASSUME NEW ms \in MasterStates, NEW id \in Ids, NEW time \in U64
  PROVE  GetReplicaList(ms, id, time) \in MasterStates
  <1>1. SatAdd(time, LeaseTTL) \in U64
    BY SaturationType, U64MaxAssumption DEF U64
  <1> QED
    BY <1>1 DEF GetReplicaList, MasterStates

\* remove: release, forget the object, drop its lease.
LEMMA RemoveType ==
  ASSUME NEW ms \in MasterStates, NEW id \in Ids
  PROVE  Remove(ms, id) \in MasterStates
  <1> DEFINE removed == [ms EXCEPT !.objects[id] = NoObject]
             bytes == ReservedBytes(ms.objects[id])
  <1>1. NoObject \in ObjectMeta
    BY U64MaxAssumption DEF NoObject, ObjectMeta, Statuses, U64
  <1>2. removed \in MasterStates
    BY <1>1 DEF MasterStates
  <1>3. bytes \in U64
    BY ReservedBytesType DEF MasterStates
  <1>4. ReleaseQuota(removed, id[1], bytes) \in MasterStates
    BY <1>2, <1>3, IdType, ReleaseQuotaType
  <1>5. DropLease(ReleaseQuota(removed, id[1], bytes), id) \in MasterStates
    BY <1>4, DropLeaseType
  <1> QED
    BY <1>5 DEF Remove

\* Evicting any batch of objects of a tenant.
LEMMA EvictBatchType ==
  ASSUME NEW ms \in MasterStates, NEW t \in Tenants, NEW E
  PROVE  EvictBatch(ms, t, E) \in MasterStates
  <1> DEFINE released == ReleaseQuota(ms, t, ReservedTotal(ms.objects, E))
             objects == [id \in Ids |-> IF id \in E THEN [ms.objects[id] EXCEPT !.status = "Evicted"]
                                                    ELSE ms.objects[id]]
             leases == [id \in Ids |-> IF id \in E THEN 0 ELSE ms.leases[id]]
             evictions == SatAdd(released.evictions, Cardinality(E))
  <1>1. released \in MasterStates
    <2>1. ReservedTotal(ms.objects, E) \in U64
      BY SaturationType, U64MaxAssumption DEF U64
    <2> QED
      BY <2>1, ReleaseQuotaType
  <1>2. objects \in [Ids -> ObjectMeta]
    BY SMTT(20) DEF MasterStates, ObjectMeta, Statuses
  <1>3. 0 \in U64
    BY U64MaxAssumption DEF U64
  <1>4. leases \in [Ids -> U64]
    BY <1>3 DEF MasterStates
  <1>5. evictions \in U64
    BY <1>1, SaturationType DEF MasterStates
  <1>6. EvictBatch(ms, t, E) =
          [released EXCEPT !.objects = objects, !.leases = leases, !.evictions = evictions]
    BY DEF EvictBatch
  <1> HIDE DEF released, objects, leases, evictions
  <1> QED
    BY <1>1, <1>2, <1>4, <1>5, <1>6 DEF MasterStates

\* Whatever evict_for_tenant leaves comes from one batch of normal candidates
\* and one batch of soft-pinned candidates.
LEMMA EvictForTenantBatches ==
  ASSUME NEW ms, NEW t, NEW target, NEW time, NEW new \in EvictForTenant(ms, t, target, time)
  PROVE  \E N \in SUBSET NormalCandidates(ms, t, time), S \in SUBSET SoftCandidates(ms, t, time) :
           new = EvictBatch(EvictBatch(ms, t, N), t, S)
  BY DEF EvictForTenant, Batches

\* evict_for_tenant with or without a tie among the candidates.
LEMMA EvictForTenantType ==
  ASSUME NEW ms \in MasterStates, NEW t \in Tenants, NEW target, NEW time,
         NEW new \in EvictForTenant(ms, t, target, time)
  PROVE  new \in MasterStates
  <1>1. PICK N, S : new = EvictBatch(EvictBatch(ms, t, N), t, S)
    BY EvictForTenantBatches
  <1>2. EvictBatch(ms, t, N) \in MasterStates
    BY EvictBatchType
  <1> QED
    BY <1>1, <1>2, EvictBatchType

-----------------------------------------------------------------------------
(* What each operation does to objects, leases and segments; the quotas play *)
(* no part in the invariants below.                                          *)

\* Releasing touches neither objects nor segments nor leases.
LEMMA ReleaseQuotaFrame ==
  ASSUME NEW ms \in MasterStates, NEW t \in Tenants, NEW bytes
  PROVE  /\ ReleaseQuota(ms, t, bytes).objects = ms.objects
         /\ ReleaseQuota(ms, t, bytes).leases = ms.leases
         /\ ReleaseQuota(ms, t, bytes).segments = ms.segments
  BY DEF ReleaseQuota, MasterStates

\* Setting a quota touches nothing but the quota.
LEMMA SetTenantQuotaFrame ==
  ASSUME NEW ms \in MasterStates, NEW t \in Tenants, NEW dram
  PROVE  /\ SetTenantQuota(ms, t, dram).objects = ms.objects
         /\ SetTenantQuota(ms, t, dram).leases = ms.leases
         /\ SetTenantQuota(ms, t, dram).segments = ms.segments
  BY DEF SetTenantQuota, MasterStates

\* Mounting appends a segment and touches nothing else.
LEMMA MountSegmentFrame ==
  ASSUME NEW ms \in MasterStates, NEW node, NEW len
  PROVE  /\ MountSegment(ms, node, len).objects = ms.objects
         /\ MountSegment(ms, node, len).leases = ms.leases
         /\ MountSegment(ms, node, len).segments =
              Append(ms.segments, [node |-> node, len |-> len, next |-> 0])
  BY DEF MountSegment, MasterStates

\* A put_start that fails, for whatever reason, changes nothing but used bytes.
LEMMA PutStartFailed ==
  ASSUME NEW ms \in MasterStates, NEW id \in Ids, NEW len \in U64, NEW n \in Nat,
         ~PutStartOk(ms, id, len, n)
  PROVE  /\ PutStart(ms, id, len, n).objects = ms.objects
         /\ PutStart(ms, id, len, n).leases = ms.leases
         /\ PutStart(ms, id, len, n).segments = ms.segments
  <1> DEFINE reserved == ReserveQuota(ms, id[1], len)
  <1>1. CASE ms.objects[id].status = "Absent" /\ CanReserve(ms, id[1], len)
    <2>1. /\ reserved.objects = ms.objects
          /\ reserved.leases = ms.leases
          /\ reserved.segments = ms.segments
      BY DEF ReserveQuota, MasterStates
    <2>2. reserved \in MasterStates
      BY <1>1, IdType, ReserveQuotaType
    <2>3. PutStart(ms, id, len, n) = ReleaseQuota(reserved, id[1], len)
      BY <1>1 DEF PutStart
    <2> HIDE DEF reserved
    <2> QED
      BY <2>1, <2>2, <2>3, IdType, ReleaseQuotaFrame
  <1>2. CASE ~(ms.objects[id].status = "Absent" /\ CanReserve(ms, id[1], len))
    BY <1>2 DEF PutStart
  <1> QED
    BY <1>1, <1>2

\* The object a successful put_start inserts.
Reservation(ms, len, n) ==
  [status |-> "Reserving", len |-> len, replicas |-> NewReplicas(ms.segments, len, n),
   hardPinned |-> FALSE, softPinnedUntil |-> 0]

\* What a successful put_start leaves behind, as facts.
LEMMA PutStartSucceeded ==
  ASSUME NEW ms \in MasterStates, NEW id \in Ids, NEW len \in U64, NEW n \in Nat,
         PutStartOk(ms, id, len, n)
  PROVE  /\ PutStart(ms, id, len, n).objects = [ms.objects EXCEPT ![id] = Reservation(ms, len, n)]
         /\ PutStart(ms, id, len, n).leases = ms.leases
         /\ PutStart(ms, id, len, n).segments = AdvanceSegments(ms.segments, len, n)
  <1> DEFINE reserved == ReserveQuota(ms, id[1], len)
  <1>1. /\ reserved.objects = ms.objects
        /\ reserved.leases = ms.leases
        /\ reserved.segments = ms.segments
        /\ DOMAIN reserved = DOMAIN ms
    BY DEF ReserveQuota, MasterStates
  <1>2. PutStart(ms, id, len, n) =
          [reserved EXCEPT !.objects[id] = Reservation(ms, len, n),
                           !.segments = AdvanceSegments(@, len, n)]
    BY DEF PutStart, Reservation
  <1> HIDE DEF reserved
  <1> QED
    BY <1>1, <1>2 DEF MasterStates

\* put_end leaves segments and every other object alone.
LEMMA PutEndFrame ==
  ASSUME NEW ms \in MasterStates, NEW id \in Ids
  PROVE  /\ PutEnd(ms, id).leases = ms.leases
         /\ PutEnd(ms, id).segments = ms.segments
         /\ PutEndOk(ms, id) => PutEnd(ms, id).objects = [ms.objects EXCEPT ![id].status = "Committed"]
         /\ ~PutEndOk(ms, id) => PutEnd(ms, id).objects = ms.objects
  BY DEF PutEnd, MasterStates

\* put_revoke leaves segments and every other object alone.
LEMMA PutRevokeFrame ==
  ASSUME NEW ms \in MasterStates, NEW id \in Ids
  PROVE  /\ PutRevoke(ms, id).segments = ms.segments
         /\ PutRevokeOk(ms, id) =>
              /\ PutRevoke(ms, id).objects = [ms.objects EXCEPT ![id].status = "Revoked"]
              /\ PutRevoke(ms, id).leases = [ms.leases EXCEPT ![id] = 0]
         /\ ~PutRevokeOk(ms, id) => PutRevoke(ms, id) = ms
  <1> DEFINE revoked == [ms EXCEPT !.objects[id].status = "Revoked"]
             freed == ReleaseQuota(revoked, id[1], ReservedBytes(ms.objects[id]))
  <1>1. /\ revoked \in MasterStates
        /\ revoked.objects = [ms.objects EXCEPT ![id].status = "Revoked"]
        /\ revoked.leases = ms.leases
        /\ revoked.segments = ms.segments
    BY StatusType DEF MasterStates, Statuses
  <1>2. /\ freed \in MasterStates
        /\ freed.objects = revoked.objects
        /\ freed.leases = revoked.leases
        /\ freed.segments = revoked.segments
    <2>1. ReservedBytes(ms.objects[id]) \in U64
      BY ReservedBytesType DEF MasterStates
    <2> HIDE DEF revoked
    <2> QED
      BY <1>1, <2>1, IdType, ReleaseQuotaFrame, ReleaseQuotaType
  <1>3. /\ DropLease(freed, id).objects = freed.objects
        /\ DropLease(freed, id).leases = [freed.leases EXCEPT ![id] = 0]
        /\ DropLease(freed, id).segments = freed.segments
    BY <1>2 DEF DropLease, MasterStates
  <1> QED
    BY <1>1, <1>2, <1>3 DEF PutRevoke

\* get_replica_list leaves objects and segments alone.
LEMMA GetReplicaListFrame ==
  ASSUME NEW ms \in MasterStates, NEW id \in Ids, NEW time
  PROVE  /\ GetReplicaList(ms, id, time).objects = ms.objects
         /\ GetReplicaList(ms, id, time).segments = ms.segments
         /\ GetReplicaListOk(ms, id) =>
              GetReplicaList(ms, id, time).leases = [ms.leases EXCEPT ![id] = SatAdd(time, LeaseTTL)]
         /\ ~GetReplicaListOk(ms, id) => GetReplicaList(ms, id, time) = ms
  BY DEF GetReplicaList, MasterStates

\* remove leaves segments and every other object alone.
LEMMA RemoveFrame ==
  ASSUME NEW ms \in MasterStates, NEW id \in Ids
  PROVE  /\ Remove(ms, id).segments = ms.segments
         /\ RemoveOk(ms, id) =>
              /\ Remove(ms, id).objects = [ms.objects EXCEPT ![id] = NoObject]
              /\ Remove(ms, id).leases = [ms.leases EXCEPT ![id] = 0]
         /\ ~RemoveOk(ms, id) => Remove(ms, id) = ms
  <1> DEFINE removed == [ms EXCEPT !.objects[id] = NoObject]
             freed == ReleaseQuota(removed, id[1], ReservedBytes(ms.objects[id]))
  <1>0. NoObject \in ObjectMeta
    BY U64MaxAssumption DEF NoObject, ObjectMeta, Statuses, U64
  <1>1. /\ removed \in MasterStates
        /\ removed.objects = [ms.objects EXCEPT ![id] = NoObject]
        /\ removed.leases = ms.leases
        /\ removed.segments = ms.segments
    BY <1>0 DEF MasterStates
  <1>2. /\ freed \in MasterStates
        /\ freed.objects = removed.objects
        /\ freed.leases = removed.leases
        /\ freed.segments = removed.segments
    <2>1. ReservedBytes(ms.objects[id]) \in U64
      BY ReservedBytesType DEF MasterStates
    <2> HIDE DEF removed
    <2> QED
      BY <1>1, <2>1, IdType, ReleaseQuotaFrame, ReleaseQuotaType
  <1>3. /\ DropLease(freed, id).objects = freed.objects
        /\ DropLease(freed, id).leases = [freed.leases EXCEPT ![id] = 0]
        /\ DropLease(freed, id).segments = freed.segments
    BY <1>2 DEF DropLease, MasterStates
  <1> QED
    BY <1>1, <1>2, <1>3 DEF Remove

\* Eviction only forgets objects; it never changes one it keeps.
LEMMA EvictBatchFrame ==
  ASSUME NEW ms \in MasterStates, NEW t \in Tenants, NEW E
  PROVE  /\ EvictBatch(ms, t, E).objects =
              [id \in Ids |-> IF id \in E THEN [ms.objects[id] EXCEPT !.status = "Evicted"]
                                          ELSE ms.objects[id]]
         /\ EvictBatch(ms, t, E).leases = [id \in Ids |-> IF id \in E THEN 0 ELSE ms.leases[id]]
         /\ EvictBatch(ms, t, E).segments = ms.segments
  <1> DEFINE released == ReleaseQuota(ms, t, ReservedTotal(ms.objects, E))
  <1>1. released.segments = ms.segments
    BY ReleaseQuotaFrame
  <1>2. released \in MasterStates
    <2>1. ReservedTotal(ms.objects, E) \in U64
      BY SaturationType, U64MaxAssumption DEF U64
    <2> QED
      BY <2>1, ReleaseQuotaType
  <1>3. EvictBatch(ms, t, E) =
         [released EXCEPT
           !.objects = [id \in Ids |-> IF id \in E THEN [ms.objects[id] EXCEPT !.status = "Evicted"]
                                                 ELSE ms.objects[id]],
           !.leases = [id \in Ids |-> IF id \in E THEN 0 ELSE ms.leases[id]],
           !.evictions = SatAdd(@, Cardinality(E))]
    BY DEF EvictBatch
  <1> HIDE DEF released
  <1> QED
    BY <1>1, <1>2, <1>3 DEF MasterStates

\* new differs from ms in the ids of E being evicted, as far as objects and leases go.
EvictedFrom(ms, new, E) ==
  /\ new.objects = [id \in Ids |-> IF id \in E THEN [ms.objects[id] EXCEPT !.status = "Evicted"]
                                               ELSE ms.objects[id]]
  /\ new.leases = [id \in Ids |-> IF id \in E THEN 0 ELSE ms.leases[id]]

\* evict_for_tenant only forgets objects.
LEMMA EvictForTenantFrame ==
  ASSUME NEW ms \in MasterStates, NEW t \in Tenants, NEW target, NEW time,
         NEW new \in EvictForTenant(ms, t, target, time)
  PROVE  /\ new.segments = ms.segments
         /\ \E E \in SUBSET TenantIds(t) :
              /\ \A id \in E : IsCandidate(ms, id, time)
              /\ EvictedFrom(ms, new, E)
  <1>1. PICK N \in SUBSET NormalCandidates(ms, t, time), S \in SUBSET SoftCandidates(ms, t, time) :
          new = EvictBatch(EvictBatch(ms, t, N), t, S)
    BY EvictForTenantBatches
  <1> DEFINE mid == EvictBatch(ms, t, N)
             E == N \cup S
  <1>2. mid \in MasterStates
    BY EvictBatchType
  <1>3. E \in SUBSET TenantIds(t) /\ \A id \in E : IsCandidate(ms, id, time)
    BY DEF NormalCandidates, SoftCandidates
  <1>4. /\ mid.objects = [id \in Ids |-> IF id \in N THEN [ms.objects[id] EXCEPT !.status = "Evicted"]
                                                     ELSE ms.objects[id]]
        /\ mid.leases = [id \in Ids |-> IF id \in N THEN 0 ELSE ms.leases[id]]
        /\ mid.segments = ms.segments
    BY EvictBatchFrame
  <1>5. new = EvictBatch(mid, t, S)
    BY <1>1
  <1> HIDE DEF mid
  <1>6. /\ new.objects = [id \in Ids |-> IF id \in S THEN [mid.objects[id] EXCEPT !.status = "Evicted"]
                                                     ELSE mid.objects[id]]
        /\ new.leases = [id \in Ids |-> IF id \in S THEN 0 ELSE mid.leases[id]]
        /\ new.segments = mid.segments
    BY <1>2, <1>5, EvictBatchFrame
  <1>7. new.leases = [id \in Ids |-> IF id \in E THEN 0 ELSE ms.leases[id]]
    BY <1>4, <1>6
  <1>8. ASSUME NEW id \in Ids
        PROVE  new.objects[id] = IF id \in E THEN [ms.objects[id] EXCEPT !.status = "Evicted"]
                                             ELSE ms.objects[id]
    <2>1. ms.objects[id] \in ObjectMeta
      BY DEF MasterStates
    <2>2. [[ms.objects[id] EXCEPT !.status = "Evicted"] EXCEPT !.status = "Evicted"]
            = [ms.objects[id] EXCEPT !.status = "Evicted"]
      BY <2>1 DEF ObjectMeta
    <2> QED
      BY <1>4, <1>6, <2>2
  <1>9. new.objects = [id \in Ids |-> IF id \in E THEN [ms.objects[id] EXCEPT !.status = "Evicted"]
                                                  ELSE ms.objects[id]]
    BY <1>6, <1>8
  <1>10. EvictedFrom(ms, new, E)
    BY <1>7, <1>9 DEF EvictedFrom
  <1> QED
    BY <1>3, <1>4, <1>6, <1>10

-----------------------------------------------------------------------------
(* Leases. *)

LeasedCommitted(ms) == \A id \in Ids : ms.leases[id] # 0 => ms.objects[id].status = "Committed"

(* No operation leaves a lease on an object that is not committed. *)

\* Mounting keeps leases on committed objects only.
LEMMA KeepLeasesMountSegment ==
  ASSUME NEW ms \in MasterStates, LeasedCommitted(ms), NEW node \in Nodes, NEW len \in U64
  PROVE  LeasedCommitted(MountSegment(ms, node, len))
  <1>1. /\ MountSegment(ms, node, len).objects = ms.objects
        /\ MountSegment(ms, node, len).leases = ms.leases
    BY MountSegmentFrame, ZenonT(30)
  <1> QED
    BY <1>1 DEF LeasedCommitted

\* Setting a quota keeps leases on committed objects only.
LEMMA KeepLeasesSetTenantQuota ==
  ASSUME NEW ms \in MasterStates, LeasedCommitted(ms), NEW t \in Tenants, NEW len \in U64
  PROVE  LeasedCommitted(SetTenantQuota(ms, t, len))
  BY SetTenantQuotaFrame DEF LeasedCommitted

\* put_start reserves absent objects only, and those have no lease.
LEMMA KeepLeasesPutStart ==
  ASSUME NEW ms \in MasterStates, LeasedCommitted(ms), NEW id \in Ids, NEW len \in U64, NEW n \in Nat
  PROVE  LeasedCommitted(PutStart(ms, id, len, n))
  <1>1. CASE PutStartOk(ms, id, len, n)
    <2>1. /\ PutStart(ms, id, len, n).objects = [ms.objects EXCEPT ![id] = Reservation(ms, len, n)]
          /\ PutStart(ms, id, len, n).leases = ms.leases
      BY <1>1, PutStartSucceeded
    <2>2. ms.objects[id].status = "Absent"
      BY <1>1 DEF PutStartOk
    <2> QED
      BY <2>1, <2>2 DEF LeasedCommitted, MasterStates
  <1>2. CASE ~PutStartOk(ms, id, len, n)
    BY <1>2, PutStartFailed DEF LeasedCommitted
  <1> QED
    BY <1>1, <1>2

\* put_end commits; it leaves no lease on an uncommitted object.
LEMMA KeepLeasesPutEnd ==
  ASSUME NEW ms \in MasterStates, LeasedCommitted(ms), NEW id \in Ids
  PROVE  LeasedCommitted(PutEnd(ms, id))
  <1>1. CASE PutEndOk(ms, id)
    <2>1. /\ PutEnd(ms, id).objects = [ms.objects EXCEPT ![id].status = "Committed"]
          /\ PutEnd(ms, id).leases = ms.leases
      BY <1>1, PutEndFrame
    <2> QED
      BY <2>1 DEF LeasedCommitted, MasterStates, ObjectMeta
  <1>2. CASE ~PutEndOk(ms, id)
    BY <1>2, PutEndFrame DEF LeasedCommitted
  <1> QED
    BY <1>1, <1>2

\* put_revoke drops the lease of the object it revokes.
LEMMA KeepLeasesPutRevoke ==
  ASSUME NEW ms \in MasterStates, LeasedCommitted(ms), NEW id \in Ids
  PROVE  LeasedCommitted(PutRevoke(ms, id))
  <1>1. CASE PutRevokeOk(ms, id)
    <2>1. /\ PutRevoke(ms, id).objects = [ms.objects EXCEPT ![id].status = "Revoked"]
          /\ PutRevoke(ms, id).leases = [ms.leases EXCEPT ![id] = 0]
      BY <1>1, PutRevokeFrame, Zenon
    <2> QED
      BY <2>1 DEF LeasedCommitted, MasterStates
  <1>2. CASE ~PutRevokeOk(ms, id)
    BY <1>2, PutRevokeFrame DEF LeasedCommitted
  <1> QED
    BY <1>1, <1>2

\* get_replica_list leases committed objects only.
LEMMA KeepLeasesGetReplicaList ==
  ASSUME NEW ms \in MasterStates, LeasedCommitted(ms), NEW id \in Ids, NEW time \in U64
  PROVE  LeasedCommitted(GetReplicaList(ms, id, time))
  <1>1. CASE GetReplicaListOk(ms, id)
    <2>1. /\ GetReplicaList(ms, id, time).objects = ms.objects
          /\ GetReplicaList(ms, id, time).leases = [ms.leases EXCEPT ![id] = SatAdd(time, LeaseTTL)]
      BY <1>1, GetReplicaListFrame, ZenonT(30)
    <2> QED
      BY <1>1, <2>1 DEF LeasedCommitted, GetReplicaListOk, MasterStates
  <1>2. CASE ~GetReplicaListOk(ms, id)
    <2>1. GetReplicaList(ms, id, time) = ms
      BY <1>2, GetReplicaListFrame, ZenonT(30)
    <2> QED
      BY <2>1
  <1> QED
    BY <1>1, <1>2

\* remove drops the lease with the object.
LEMMA KeepLeasesRemove ==
  ASSUME NEW ms \in MasterStates, LeasedCommitted(ms), NEW id \in Ids
  PROVE  LeasedCommitted(Remove(ms, id))
  <1>1. CASE RemoveOk(ms, id)
    <2>1. /\ Remove(ms, id).objects = [ms.objects EXCEPT ![id] = NoObject]
          /\ Remove(ms, id).leases = [ms.leases EXCEPT ![id] = 0]
      BY <1>1, RemoveFrame, Zenon
    <2> QED
      BY <2>1 DEF LeasedCommitted, MasterStates
  <1>2. CASE ~RemoveOk(ms, id)
    BY <1>2, RemoveFrame DEF LeasedCommitted
  <1> QED
    BY <1>1, <1>2

\* Eviction drops the lease of every object it forgets.
LEMMA KeepLeasesEvictForTenant ==
  ASSUME NEW ms \in MasterStates, LeasedCommitted(ms), NEW t \in Tenants, NEW target, NEW time,
         NEW new \in EvictForTenant(ms, t, target, time)
  PROVE  LeasedCommitted(new)
  <1>1. PICK E \in SUBSET TenantIds(t) : EvictedFrom(ms, new, E)
    BY EvictForTenantFrame
  <1> QED
    BY <1>1 DEF LeasedCommitted, EvictedFrom

-----------------------------------------------------------------------------
(* Accounting: the used bytes of a quota are the sum of what the tenant's  *)
(* objects reserve.                                                        *)

UsedExact(ms) ==
  \A t \in Tenants : ms.quotas[t].set =>
    ms.quotas[t].used = SumFunctionOnSet(Reserved(ms.objects), TenantIds(t))

\* new differs from ms in the object id and the used bytes of its tenant at most.
OnlyTouches(ms, new, id) ==
  /\ SameOn(new.objects, ms.objects, Ids \ {id})
  /\ \A t \in Tenants \ {id[1]} : new.quotas[t] = ms.quotas[t]
  /\ new.quotas[id[1]].set = ms.quotas[id[1]].set
  /\ new.quotas[id[1]].dram = ms.quotas[id[1]].dram

\* There are finitely many objects.
LEMMA IdsFinite ==
  /\ IsFiniteSet(Ids)
  /\ \A t \in Tenants : IsFiniteSet(TenantIds(t)) /\ TenantIds(t) \subseteq Ids
<1>1. IsFiniteSet(Ids)
  BY FiniteAssumption, FS_Product DEF Ids
<1>2. \A t \in Tenants : TenantIds(t) \subseteq Ids
  BY DEF TenantIds, Ids
<1> QED
  BY <1>1, <1>2, FS_Subset

\* What objects reserve are numbers.
LEMMA ReservedType ==
  ASSUME NEW ms \in MasterStates
  PROVE  /\ NatOn(Reserved(ms.objects), Ids)
         /\ \A t \in Tenants : NatOn(Reserved(ms.objects), TenantIds(t))
         /\ \A id \in Ids : Reserved(ms.objects)[id] = ReservedBytes(ms.objects[id])
<1>1. ms.objects \in [Ids -> ObjectMeta]
  BY DEF MasterStates
<1>2. \A id \in Ids : Reserved(ms.objects)[id] = ReservedBytes(ms.objects[id])
  BY <1>1 DEF Reserved
<1>3. \A id \in Ids : ReservedBytes(ms.objects[id]) \in Nat
  BY <1>1, ReservedBytesType, U64MaxAssumption DEF U64
<1> QED
  BY <1>2, <1>3, IdsFinite DEF NatOn

\* A sum over some of the ids is a number, and no larger than over more of them.
LEMMA ReservedSums ==
  ASSUME NEW ms \in MasterStates, NEW F \in SUBSET Ids, NEW E \in SUBSET F
  PROVE  /\ SumFunctionOnSet(Reserved(ms.objects), F) \in Nat
         /\ SumFunctionOnSet(Reserved(ms.objects), E) \in Nat
         /\ SumFunctionOnSet(Reserved(ms.objects), E) <= SumFunctionOnSet(Reserved(ms.objects), F)
<1> DEFINE f == Reserved(ms.objects)
<1>1. NatOn(f, F) /\ NatOn(f, E) /\ NatOn(f, F \ E)
  BY ReservedType DEF NatOn
<1>2. IsFiniteSet(F) /\ IsFiniteSet(E) /\ IsFiniteSet(F \ E)
  BY IdsFinite, FS_Subset
<1> HIDE DEF f
<1>3. /\ SumFunctionOnSet(f, F) \in Nat
      /\ SumFunctionOnSet(f, E) \in Nat
      /\ SumFunctionOnSet(f, F \ E) \in Nat
  BY <1>1, <1>2, SumType
<1>4. SumFunctionOnSet(f, F) = SumFunctionOnSet(f, E) + SumFunctionOnSet(f, F \ E)
  BY <1>1, <1>2, SumSplit
<1> QED
  BY <1>3, <1>4 DEF f

\* The saturating total is the sum as long as the sum fits.
LEMMA TotalExact ==
  ASSUME NEW ms \in MasterStates, NEW E \in SUBSET Ids,
         SumFunctionOnSet(Reserved(ms.objects), E) <= U64Max
  PROVE  ReservedTotal(ms.objects, E) = SumFunctionOnSet(Reserved(ms.objects), E)
BY ReservedSums, U64MaxAssumption DEF ReservedTotal, U64

\* While used bytes are exact, no object reserves more than its tenant uses, so
\* that releasing it does not saturate.
LEMMA ReservedWithinUsed ==
  ASSUME NEW ms \in MasterStates, NEW id \in Ids, UsedExact(ms), ms.quotas[id[1]].set
  PROVE  ReservedBytes(ms.objects[id]) <= ms.quotas[id[1]].used
<1> DEFINE f == Reserved(ms.objects)
           T == TenantIds(id[1])
<1>1. id \in T /\ id[1] \in Tenants
  BY DEF Ids, TenantIds
<1>2. NatOn(f, T) /\ IsFiniteSet(T) /\ f[id] = ReservedBytes(ms.objects[id])
  BY <1>1, ReservedType, IdsFinite
<1>3. ms.quotas[id[1]].used = SumFunctionOnSet(f, T)
  BY <1>1 DEF UsedExact
<1> HIDE DEF f, T
<1>4. SameOn(f, f, T \ {id})
  BY DEF SameOn
<1>5. f[id] <= SumFunctionOnSet(f, T)
  BY <1>1, <1>2, <1>4, SumUpdate
<1> QED
  BY <1>2, <1>3, <1>5

\* What changing one object does to the sum over a set of ids.
LEMMA OneObjectSum ==
  ASSUME NEW ms \in MasterStates, NEW new \in MasterStates, NEW id \in Ids, NEW T \in SUBSET Ids,
         SameOn(new.objects, ms.objects, Ids \ {id})
  PROVE  /\ id \in T => SumFunctionOnSet(Reserved(new.objects), T)
                          = (SumFunctionOnSet(Reserved(ms.objects), T) - ReservedBytes(ms.objects[id]))
                            + ReservedBytes(new.objects[id])
         /\ id \notin T => SumFunctionOnSet(Reserved(new.objects), T)
                             = SumFunctionOnSet(Reserved(ms.objects), T)
<1> DEFINE f == Reserved(ms.objects)
           g == Reserved(new.objects)
<1>1. /\ NatOn(f, T) /\ NatOn(g, T) /\ IsFiniteSet(T)
      /\ f[id] = ReservedBytes(ms.objects[id]) /\ g[id] = ReservedBytes(new.objects[id])
  BY ReservedType, IdsFinite, FS_Subset DEF NatOn
<1>2. SameOn(f, g, T \ {id})
  BY ReservedType DEF SameOn
<1> HIDE DEF f, g
<1>3. CASE id \in T
  <2>1. SumFunctionOnSet(g, T) = (SumFunctionOnSet(f, T) - f[id]) + g[id]
    BY <1>1, <1>2, <1>3, SumUpdate
  <2> QED
    BY <1>1, <1>3, <2>1 DEF f, g
<1>4. CASE id \notin T
  <2>1. SameOn(f, g, T)
    BY <1>2, <1>4 DEF SameOn
  <2> QED
    BY <1>1, <1>4, <2>1, SumSame DEF f, g
<1> QED
  BY <1>3, <1>4

\* A call that changes one object, and the used bytes of its tenant by the same
\* amount, keeps the accounting of every tenant.
LEMMA OneObjectAccounting ==
  ASSUME NEW ms \in MasterStates, NEW new \in MasterStates, NEW id \in Ids,
         UsedExact(ms), OnlyTouches(ms, new, id),
         ms.quotas[id[1]].set =>
           new.quotas[id[1]].used = (ms.quotas[id[1]].used - ReservedBytes(ms.objects[id]))
                                    + ReservedBytes(new.objects[id])
  PROVE  UsedExact(new)
<1> SUFFICES ASSUME NEW t \in Tenants, new.quotas[t].set
             PROVE  new.quotas[t].used = SumFunctionOnSet(Reserved(new.objects), TenantIds(t))
  BY DEF UsedExact
<1>1. TenantIds(t) \in SUBSET Ids /\ (id \in TenantIds(t) <=> t = id[1])
  BY IdsFinite DEF TenantIds, Ids
<1>2. ms.quotas[t].set /\ ms.quotas[t].used = SumFunctionOnSet(Reserved(ms.objects), TenantIds(t))
  BY DEF UsedExact, OnlyTouches
<1> DEFINE T == TenantIds(t)
           before == SumFunctionOnSet(Reserved(ms.objects), T)
           after == SumFunctionOnSet(Reserved(new.objects), T)
<1>3. /\ id \in T => after = (before - ReservedBytes(ms.objects[id])) + ReservedBytes(new.objects[id])
      /\ id \notin T => after = before
  <2>1. SameOn(new.objects, ms.objects, Ids \ {id}) /\ T \in SUBSET Ids
    BY <1>1 DEF OnlyTouches
  <2> HIDE DEF T
  <2> QED
    BY <2>1, OneObjectSum
<1> HIDE DEF before, after
<1>4. CASE t = id[1]
  BY <1>1, <1>2, <1>3, <1>4 DEF before, after
<1>5. CASE t # id[1]
  BY <1>1, <1>2, <1>3, <1>5 DEF before, after, OnlyTouches
<1> QED
  BY <1>4, <1>5

\* Whoever changes neither objects nor quotas keeps the accounting.
LEMMA SameAccounting ==
  ASSUME NEW ms, NEW new, UsedExact(ms), new.objects = ms.objects, new.quotas = ms.quotas
  PROVE  UsedExact(new)
BY DEF UsedExact

\* Releasing changes the used bytes of one tenant.
LEMMA ReleaseQuotaUsed ==
  ASSUME NEW ms \in MasterStates, NEW t \in Tenants, NEW bytes \in U64
  PROVE  LET new == ReleaseQuota(ms, t, bytes)
         IN  /\ \A u \in Tenants \ {t} : new.quotas[u] = ms.quotas[u]
             /\ new.quotas[t].set = ms.quotas[t].set
             /\ new.quotas[t].dram = ms.quotas[t].dram
             /\ ms.quotas[t].set => new.quotas[t].used = SatSub(ms.quotas[t].used, bytes)
             /\ new.evictions = ms.evictions
BY DEF ReleaseQuota, MasterStates, Quota

\* Reserving changes the used bytes of one tenant.
LEMMA ReserveQuotaUsed ==
  ASSUME NEW ms \in MasterStates, NEW t \in Tenants, NEW bytes \in U64
  PROVE  LET new == ReserveQuota(ms, t, bytes)
         IN  /\ \A u \in Tenants \ {t} : new.quotas[u] = ms.quotas[u]
             /\ new.quotas[t].set = ms.quotas[t].set
             /\ new.quotas[t].dram = ms.quotas[t].dram
             /\ ms.quotas[t].set => new.quotas[t].used = ms.quotas[t].used + bytes
             /\ new.evictions = ms.evictions
BY DEF ReserveQuota, MasterStates, Quota

\* put_start: a reservation adds its length, a failed one nothing.
LEMMA PutStartUsed ==
  ASSUME NEW ms \in MasterStates, NEW id \in Ids, NEW len \in U64, NEW n \in Nat
  PROVE  LET new == PutStart(ms, id, len, n)
         IN  /\ OnlyTouches(ms, new, id)
             /\ ms.quotas[id[1]].set =>
                  new.quotas[id[1]].used = ms.quotas[id[1]].used
                                           + (IF PutStartOk(ms, id, len, n) THEN len ELSE 0)
             /\ new.evictions = ms.evictions
<1> DEFINE new == PutStart(ms, id, len, n)
           t == id[1]
           reserved == ReserveQuota(ms, t, len)
<1>1. t \in Tenants /\ ms.quotas[t].used \in Nat /\ len \in Nat
  BY IdType, U64MaxAssumption DEF MasterStates, Quota, U64
<1>2. /\ \A u \in Tenants \ {t} : reserved.quotas[u] = ms.quotas[u]
      /\ reserved.quotas[t].set = ms.quotas[t].set
      /\ reserved.quotas[t].dram = ms.quotas[t].dram
      /\ ms.quotas[t].set => reserved.quotas[t].used = ms.quotas[t].used + len
      /\ reserved.evictions = ms.evictions
  BY <1>1, ReserveQuotaUsed
<1>3. CASE PutStartOk(ms, id, len, n)
  <2>1. new = [reserved EXCEPT !.objects[id] = Reservation(ms, len, n),
                               !.segments = AdvanceSegments(@, len, n)]
    BY <1>3 DEF PutStart, Reservation
  <2>2. DOMAIN reserved = DOMAIN ms
    BY DEF ReserveQuota, MasterStates
  <2>3. new.quotas = reserved.quotas /\ new.evictions = reserved.evictions
    <3> HIDE DEF reserved, new
    <3> QED
      BY <2>1, <2>2 DEF MasterStates
  <2>4. SameOn(new.objects, ms.objects, Ids \ {id})
    <3>1. new.objects = [ms.objects EXCEPT ![id] = Reservation(ms, len, n)]
      BY <1>3, PutStartSucceeded
    <3> HIDE DEF new
    <3> QED
      BY <3>1 DEF MasterStates, SameOn
  <2> HIDE DEF reserved, new
  <2> QED
    BY <1>2, <1>3, <2>3, <2>4 DEF OnlyTouches, new
<1>4. CASE ~PutStartOk(ms, id, len, n) /\ ms.objects[id].status = "Absent" /\ CanReserve(ms, t, len)
  <2>1. new = ReleaseQuota(reserved, t, len)
    BY <1>4 DEF PutStart
  <2>2. reserved \in MasterStates
    BY <1>1, <1>4, ReserveQuotaType
  <2>3. new.objects = ms.objects
    BY <1>4, PutStartFailed
  <2> HIDE DEF reserved, new
  <2>4. /\ \A u \in Tenants \ {t} : new.quotas[u] = reserved.quotas[u]
        /\ new.quotas[t].set = reserved.quotas[t].set
        /\ new.quotas[t].dram = reserved.quotas[t].dram
        /\ reserved.quotas[t].set => new.quotas[t].used = SatSub(reserved.quotas[t].used, len)
        /\ new.evictions = reserved.evictions
    BY <1>1, <2>1, <2>2, ReleaseQuotaUsed
  <2>5. SatSub(ms.quotas[t].used + len, len) = ms.quotas[t].used
    BY <1>1 DEF SatSub
  <2>6. OnlyTouches(ms, new, id)
    BY <1>2, <2>3, <2>4 DEF OnlyTouches, SameOn
  <2> QED
    BY <1>1, <1>2, <1>4, <2>4, <2>5, <2>6 DEF new
<1>5. CASE ~PutStartOk(ms, id, len, n) /\ ~(ms.objects[id].status = "Absent" /\ CanReserve(ms, t, len))
  BY <1>1, <1>5 DEF PutStart, OnlyTouches, SameOn
<1> QED
  BY <1>3, <1>4, <1>5

\* Revoking or removing an object releases what it reserves.
LEMMA FreeUsed ==
  ASSUME NEW ms \in MasterStates, NEW id \in Ids, NEW o \in ObjectMeta
  PROVE  LET new == DropLease(ReleaseQuota([ms EXCEPT !.objects[id] = o],
                                           id[1], ReservedBytes(ms.objects[id])), id)
         IN  /\ OnlyTouches(ms, new, id)
             /\ ms.quotas[id[1]].set =>
                  new.quotas[id[1]].used = SatSub(ms.quotas[id[1]].used, ReservedBytes(ms.objects[id]))
             /\ new.evictions = ms.evictions
             /\ new.objects[id] = o
<1> DEFINE mid == [ms EXCEPT !.objects[id] = o]
           bytes == ReservedBytes(ms.objects[id])
           freed == ReleaseQuota(mid, id[1], bytes)
           new == DropLease(freed, id)
<1>1. /\ mid \in MasterStates
      /\ mid.quotas = ms.quotas
      /\ mid.evictions = ms.evictions
      /\ mid.objects = [ms.objects EXCEPT ![id] = o]
  BY DEF MasterStates
<1>2. bytes \in U64 /\ id[1] \in Tenants
  BY ReservedBytesType, IdType DEF MasterStates
<1> HIDE DEF mid, bytes
<1>3. freed \in MasterStates /\ freed.objects = mid.objects
  BY <1>1, <1>2, ReleaseQuotaType, ReleaseQuotaFrame
<1>4. /\ \A u \in Tenants \ {id[1]} : freed.quotas[u] = mid.quotas[u]
      /\ freed.quotas[id[1]].set = mid.quotas[id[1]].set
      /\ freed.quotas[id[1]].dram = mid.quotas[id[1]].dram
      /\ mid.quotas[id[1]].set => freed.quotas[id[1]].used = SatSub(mid.quotas[id[1]].used, bytes)
      /\ freed.evictions = mid.evictions
  BY <1>1, <1>2, ReleaseQuotaUsed
<1> HIDE DEF freed
<1>5. new.quotas = freed.quotas /\ new.evictions = freed.evictions /\ new.objects = freed.objects
  BY <1>3 DEF DropLease, MasterStates
<1> HIDE DEF new
<1>6. SameOn(new.objects, ms.objects, Ids \ {id}) /\ new.objects[id] = o
  BY <1>1, <1>3, <1>5 DEF SameOn, MasterStates
<1>7. OnlyTouches(ms, new, id)
  BY <1>1, <1>4, <1>5, <1>6 DEF OnlyTouches
<1> QED
  BY <1>1, <1>4, <1>5, <1>6, <1>7 DEF new, freed, mid, bytes

(* No operation breaks the accounting. *)

\* put_start reserves exactly the length of the object it inserts.
LEMMA ExactPutStart ==
  ASSUME NEW ms \in MasterStates, UsedExact(ms), NEW id \in Ids, NEW len \in U64, NEW n \in Nat
  PROVE  UsedExact(PutStart(ms, id, len, n))
<1> DEFINE new == PutStart(ms, id, len, n)
<1>1. /\ OnlyTouches(ms, new, id)
      /\ ms.quotas[id[1]].set =>
           new.quotas[id[1]].used = ms.quotas[id[1]].used + (IF PutStartOk(ms, id, len, n) THEN len ELSE 0)
  BY PutStartUsed
<1>2. new \in MasterStates
  BY PutStartType
<1>3. ReservedBytes(new.objects[id]) = ReservedBytes(ms.objects[id])
                                       + (IF PutStartOk(ms, id, len, n) THEN len ELSE 0)
  <2>1. CASE PutStartOk(ms, id, len, n)
    <3>1. new.objects = [ms.objects EXCEPT ![id] = Reservation(ms, len, n)]
      BY <2>1, PutStartSucceeded
    <3>2. ms.objects[id].status = "Absent"
      BY <2>1 DEF PutStartOk
    <3> HIDE DEF new
    <3>3. new.objects[id] = Reservation(ms, len, n)
      BY <3>1 DEF MasterStates
    <3> QED
      BY <2>1, <3>2, <3>3, U64MaxAssumption DEF ReservedBytes, Reservation, U64
  <2>2. CASE ~PutStartOk(ms, id, len, n)
    <3>1. new.objects[id] = ms.objects[id]
      BY <2>2, PutStartFailed
    <3>2. ReservedBytes(ms.objects[id]) \in Nat
      BY ReservedBytesType, U64MaxAssumption DEF MasterStates, U64
    <3> QED
      BY <2>2, <3>1, <3>2
  <2> QED
    BY <2>1, <2>2
<1>4. ReservedBytes(ms.objects[id]) \in Nat /\ len \in Nat /\ ms.quotas[id[1]].used \in Nat
  BY ReservedBytesType, IdType, U64MaxAssumption DEF MasterStates, Quota, U64
<1> HIDE DEF new
<1>5. ms.quotas[id[1]].set =>
        new.quotas[id[1]].used = (ms.quotas[id[1]].used - ReservedBytes(ms.objects[id]))
                                 + ReservedBytes(new.objects[id])
  BY <1>1, <1>3, <1>4
<1>6. UsedExact(new)
  BY <1>1, <1>2, <1>5, OneObjectAccounting
<1> QED
  BY <1>6 DEF new

\* A reservation and the commit of it count the same.
LEMMA ExactPutEnd ==
  ASSUME NEW ms \in MasterStates, UsedExact(ms), NEW id \in Ids
  PROVE  UsedExact(PutEnd(ms, id))
<1> DEFINE new == PutEnd(ms, id)
<1>1. CASE PutEndOk(ms, id)
  <2>1. new.objects = [ms.objects EXCEPT ![id].status = "Committed"] /\ new \in MasterStates
    BY <1>1, PutEndFrame, PutEndType
  <2>2. new.quotas = ms.quotas
    BY <1>1 DEF PutEnd, MasterStates
  <2> HIDE DEF new
  <2>3. OnlyTouches(ms, new, id)
    BY <2>1, <2>2 DEF OnlyTouches, SameOn, MasterStates
  <2>4. ReservedBytes(new.objects[id]) = ReservedBytes(ms.objects[id])
    BY <1>1, <2>1 DEF ReservedBytes, PutEndOk, MasterStates, ObjectMeta
  <2>5. ReservedBytes(ms.objects[id]) \in Nat /\ ms.quotas[id[1]].used \in Nat
    BY ReservedBytesType, IdType, U64MaxAssumption DEF MasterStates, Quota, U64
  <2>6. new.quotas[id[1]].used = (ms.quotas[id[1]].used - ReservedBytes(ms.objects[id]))
                                 + ReservedBytes(new.objects[id])
    BY <2>2, <2>4, <2>5
  <2>7. UsedExact(new)
    BY <2>1, <2>3, <2>6, OneObjectAccounting
  <2> QED
    BY <2>7 DEF new
<1>2. CASE ~PutEndOk(ms, id)
  BY <1>2 DEF PutEnd
<1> QED
  BY <1>1, <1>2

\* Freeing an object that then reserves nothing.
LEMMA ExactFree ==
  ASSUME NEW ms \in MasterStates, NEW new \in MasterStates, NEW id \in Ids, UsedExact(ms),
         OnlyTouches(ms, new, id),
         ms.quotas[id[1]].set =>
           new.quotas[id[1]].used = SatSub(ms.quotas[id[1]].used, ReservedBytes(ms.objects[id])),
         ReservedBytes(new.objects[id]) = 0
  PROVE  UsedExact(new)
<1>1. ReservedBytes(ms.objects[id]) \in Nat /\ ms.quotas[id[1]].used \in Nat
  BY ReservedBytesType, IdType, U64MaxAssumption DEF MasterStates, Quota, U64
<1>2. ms.quotas[id[1]].set => ReservedBytes(ms.objects[id]) <= ms.quotas[id[1]].used
  BY ReservedWithinUsed
<1>3. ms.quotas[id[1]].set =>
        new.quotas[id[1]].used = (ms.quotas[id[1]].used - ReservedBytes(ms.objects[id]))
                                 + ReservedBytes(new.objects[id])
  BY <1>1, <1>2 DEF SatSub
<1> QED
  BY <1>3, OneObjectAccounting

\* put_revoke releases what the object reserved, nothing when it is called twice.
LEMMA ExactPutRevoke ==
  ASSUME NEW ms \in MasterStates, UsedExact(ms), NEW id \in Ids
  PROVE  UsedExact(PutRevoke(ms, id))
<1>1. CASE PutRevokeOk(ms, id)
  <2> DEFINE new == PutRevoke(ms, id)
  <2>1. [ms.objects[id] EXCEPT !.status = "Revoked"] \in ObjectMeta
    BY DEF MasterStates, ObjectMeta, Statuses
  <2>2. [ms EXCEPT !.objects[id].status = "Revoked"] =
          [ms EXCEPT !.objects[id] = [ms.objects[id] EXCEPT !.status = "Revoked"]]
    OBVIOUS
  <2>3. new = DropLease(ReleaseQuota([ms EXCEPT !.objects[id] = [ms.objects[id] EXCEPT !.status = "Revoked"]],
                                     id[1], ReservedBytes(ms.objects[id])), id)
    BY <1>1, <2>2 DEF PutRevoke
  <2>4. /\ OnlyTouches(ms, new, id)
        /\ ms.quotas[id[1]].set =>
             new.quotas[id[1]].used = SatSub(ms.quotas[id[1]].used, ReservedBytes(ms.objects[id]))
        /\ new.objects[id] = [ms.objects[id] EXCEPT !.status = "Revoked"]
    BY <2>1, <2>3, FreeUsed
  <2>5. ReservedBytes(new.objects[id]) = 0
    BY <2>1, <2>4 DEF ReservedBytes, ObjectMeta, MasterStates
  <2>6. new \in MasterStates
    BY PutRevokeType
  <2> HIDE DEF new
  <2>7. UsedExact(new)
    BY <2>4, <2>5, <2>6, ExactFree
  <2> QED
    BY <2>7 DEF new
<1>2. CASE ~PutRevokeOk(ms, id)
  BY <1>2 DEF PutRevoke
<1> QED
  BY <1>1, <1>2

\* remove releases what the object reserved.
LEMMA ExactRemove ==
  ASSUME NEW ms \in MasterStates, UsedExact(ms), NEW id \in Ids
  PROVE  UsedExact(Remove(ms, id))
<1>1. CASE RemoveOk(ms, id)
  <2> DEFINE new == Remove(ms, id)
  <2>1. NoObject \in ObjectMeta
    BY U64MaxAssumption DEF NoObject, ObjectMeta, Statuses, U64
  <2>2. new = DropLease(ReleaseQuota([ms EXCEPT !.objects[id] = NoObject],
                                     id[1], ReservedBytes(ms.objects[id])), id)
    BY <1>1 DEF Remove
  <2>3. /\ OnlyTouches(ms, new, id)
        /\ ms.quotas[id[1]].set =>
             new.quotas[id[1]].used = SatSub(ms.quotas[id[1]].used, ReservedBytes(ms.objects[id]))
        /\ new.objects[id] = NoObject
    BY <2>1, <2>2, FreeUsed
  <2>4. ReservedBytes(new.objects[id]) = 0
    BY <2>3 DEF ReservedBytes, NoObject
  <2>5. new \in MasterStates
    BY RemoveType
  <2> HIDE DEF new
  <2>6. UsedExact(new)
    BY <2>3, <2>4, <2>5, ExactFree
  <2> QED
    BY <2>6 DEF new
<1>2. CASE ~RemoveOk(ms, id)
  BY <1>2 DEF Remove
<1> QED
  BY <1>1, <1>2

\* A new quota starts from the sum, as long as the sum is a u64.
LEMMA ExactSetTenantQuota ==
  ASSUME NEW ms \in MasterStates, UsedExact(ms), NEW t \in Tenants, NEW limit \in U64,
         SumFunctionOnSet(Reserved(ms.objects), TenantIds(t)) <= U64Max
  PROVE  UsedExact(SetTenantQuota(ms, t, limit))
<1> DEFINE new == SetTenantQuota(ms, t, limit)
<1>1. new.objects = ms.objects
  BY SetTenantQuotaFrame
<1>2. /\ \A u \in Tenants \ {t} : new.quotas[u] = ms.quotas[u]
      /\ new.quotas[t].used = ReservedTotal(ms.objects, TenantIds(t))
  BY DEF SetTenantQuota, MasterStates
<1>3. ReservedTotal(ms.objects, TenantIds(t)) = SumFunctionOnSet(Reserved(ms.objects), TenantIds(t))
  BY IdsFinite, TotalExact
<1> HIDE DEF new
<1>4. UsedExact(new)
  BY <1>1, <1>2, <1>3 DEF UsedExact
<1> QED
  BY <1>4 DEF new

\* get_replica_list leaves objects and quotas alone.
LEMMA ExactGetReplicaList ==
  ASSUME NEW ms \in MasterStates, UsedExact(ms), NEW id \in Ids, NEW time \in U64
  PROVE  UsedExact(GetReplicaList(ms, id, time))
<1>1. /\ GetReplicaList(ms, id, time).objects = ms.objects
      /\ GetReplicaList(ms, id, time).quotas = ms.quotas
  BY GetReplicaListFrame DEF GetReplicaList, MasterStates
<1> QED
  BY <1>1, SameAccounting

\* mount_segment leaves objects and quotas alone.
LEMMA ExactMountSegment ==
  ASSUME NEW ms \in MasterStates, UsedExact(ms), NEW node \in Nodes, NEW len \in U64
  PROVE  UsedExact(MountSegment(ms, node, len))
<1>1. /\ MountSegment(ms, node, len).objects = ms.objects
      /\ MountSegment(ms, node, len).quotas = ms.quotas
  BY DEF MountSegment, MasterStates
<1> QED
  BY <1>1, SameAccounting

\* What evicting a batch does to sums of reserved bytes, used bytes and the counter.
LEMMA EvictBatchSums ==
  ASSUME NEW ms \in MasterStates, NEW t \in Tenants, NEW E \in SUBSET TenantIds(t), NEW T \in SUBSET Ids
  PROVE  /\ E \subseteq T => SumFunctionOnSet(Reserved(EvictBatch(ms, t, E).objects), T)
                               = SumFunctionOnSet(Reserved(ms.objects), T)
                                 - SumFunctionOnSet(Reserved(ms.objects), E)
         /\ E \cap T = {} => SumFunctionOnSet(Reserved(EvictBatch(ms, t, E).objects), T)
                               = SumFunctionOnSet(Reserved(ms.objects), T)
<1> DEFINE new == EvictBatch(ms, t, E)
           f == Reserved(ms.objects)
           g == Reserved(new.objects)
<1>1. new \in MasterStates
  BY EvictBatchType
<1>2. /\ new.objects = [id \in Ids |-> IF id \in E THEN [ms.objects[id] EXCEPT !.status = "Evicted"]
                                                   ELSE ms.objects[id]]
      /\ new.leases = [id \in Ids |-> IF id \in E THEN 0 ELSE ms.leases[id]]
      /\ new.segments = ms.segments
  BY EvictBatchFrame
<1>3. NatOn(f, T) /\ IsFiniteSet(T) /\ E \subseteq Ids
  BY ReservedType, IdsFinite, FS_Subset DEF NatOn
<1> HIDE DEF new
<1>4. ZeroOn(g, E)
  <2> SUFFICES ASSUME NEW id \in E
               PROVE  g[id] = 0
    BY DEF ZeroOn
  <2>1. id \in Ids /\ g[id] = ReservedBytes(new.objects[id])
    BY <1>1, <1>3, ReservedType
  <2>2. new.objects[id].status = "Evicted"
    BY <1>2, <2>1 DEF MasterStates, ObjectMeta
  <2> QED
    BY <2>1, <2>2 DEF ReservedBytes
<1>5. SameOn(f, g, T \ E)
  <2> SUFFICES ASSUME NEW id \in T \ E
               PROVE  f[id] = g[id]
    BY DEF SameOn
  <2>1. /\ id \in Ids
        /\ g[id] = ReservedBytes(new.objects[id])
        /\ f[id] = ReservedBytes(ms.objects[id])
    BY <1>1, ReservedType
  <2>2. new.objects[id] = ms.objects[id]
    BY <1>2, <2>1
  <2> QED
    BY <2>1, <2>2
<1> HIDE DEF f, g
<1>6. CASE E \subseteq T
  <2>1. SumFunctionOnSet(g, T) = SumFunctionOnSet(f, T) - SumFunctionOnSet(f, E)
    BY <1>3, <1>4, <1>5, <1>6, SumDrop
  <2>2. CASE E \cap T # {}
    BY <1>6, <2>1, <2>2 DEF f, g, new
  <2>3. CASE E \cap T = {}
    <3>1. SameOn(f, g, T)
      BY <1>5, <2>3 DEF SameOn
    <3>2. SumFunctionOnSet(g, T) = SumFunctionOnSet(f, T)
      BY <1>3, <3>1, SumSame
    <3> QED
      BY <1>6, <2>1, <3>2 DEF f, g, new
  <2> QED
    BY <2>2, <2>3
<1>7. CASE ~(E \subseteq T)
  <2>1. E \cap T = {} => SameOn(f, g, T)
    BY <1>5 DEF SameOn
  <2>2. E \cap T = {} => SumFunctionOnSet(g, T) = SumFunctionOnSet(f, T)
    BY <1>3, <2>1, SumSame
  <2> QED
    BY <1>7, <2>2 DEF f, g, new
<1> QED
  BY <1>6, <1>7

\* What evicting a batch does to quotas and the counter.
LEMMA EvictBatchUsed ==
  ASSUME NEW ms \in MasterStates, NEW t \in Tenants, NEW E
  PROVE  LET new == EvictBatch(ms, t, E)
         IN  /\ \A u \in Tenants \ {t} : new.quotas[u] = ms.quotas[u]
             /\ new.quotas[t].set = ms.quotas[t].set
             /\ new.quotas[t].dram = ms.quotas[t].dram
             /\ ms.quotas[t].set =>
                  new.quotas[t].used = SatSub(ms.quotas[t].used, ReservedTotal(ms.objects, E))
             /\ new.evictions = SatAdd(ms.evictions, Cardinality(E))
<1> DEFINE new == EvictBatch(ms, t, E)
           total == ReservedTotal(ms.objects, E)
           released == ReleaseQuota(ms, t, total)
<1>1. total \in U64
  BY SaturationType, U64MaxAssumption DEF U64
<1> HIDE DEF total
<1>2. released \in MasterStates
  BY <1>1, ReleaseQuotaType
<1>3. /\ \A u \in Tenants \ {t} : released.quotas[u] = ms.quotas[u]
      /\ released.quotas[t].set = ms.quotas[t].set
      /\ released.quotas[t].dram = ms.quotas[t].dram
      /\ ms.quotas[t].set => released.quotas[t].used = SatSub(ms.quotas[t].used, total)
      /\ released.evictions = ms.evictions
  BY <1>1, ReleaseQuotaUsed
<1>4. new = [released EXCEPT
           !.objects = [id \in Ids |-> IF id \in E THEN [ms.objects[id] EXCEPT !.status = "Evicted"]
                                                 ELSE ms.objects[id]],
           !.leases = [id \in Ids |-> IF id \in E THEN 0 ELSE ms.leases[id]],
           !.evictions = SatAdd(@, Cardinality(E))]
  BY DEF EvictBatch, total
<1> HIDE DEF released, new
<1>5. new.quotas = released.quotas /\ new.evictions = SatAdd(released.evictions, Cardinality(E))
  BY <1>2, <1>4 DEF MasterStates
<1> QED
  BY <1>3, <1>5 DEF new, total

\* Evicting a batch releases exactly what its objects reserved.
LEMMA ExactEvictBatch ==
  ASSUME NEW ms \in MasterStates, UsedExact(ms), NEW t \in Tenants, NEW E \in SUBSET TenantIds(t)
  PROVE  UsedExact(EvictBatch(ms, t, E))
<1> DEFINE new == EvictBatch(ms, t, E)
           before(u) == SumFunctionOnSet(Reserved(ms.objects), TenantIds(u))
           after(u) == SumFunctionOnSet(Reserved(new.objects), TenantIds(u))
           taken == SumFunctionOnSet(Reserved(ms.objects), E)
<1>1. /\ \A u \in Tenants \ {t} : new.quotas[u] = ms.quotas[u]
      /\ new.quotas[t].set = ms.quotas[t].set
      /\ ms.quotas[t].set =>
           new.quotas[t].used = SatSub(ms.quotas[t].used, ReservedTotal(ms.objects, E))
  BY EvictBatchUsed
<1>2. after(t) = before(t) - taken
  BY IdsFinite, EvictBatchSums
<1>3. \A u \in Tenants \ {t} : after(u) = before(u)
  <2> TAKE u \in Tenants \ {t}
  <2>1. TenantIds(u) \in SUBSET Ids /\ E \cap TenantIds(u) = {}
    BY IdsFinite DEF TenantIds
  <2> QED
    BY <2>1, EvictBatchSums
<1>4. before(t) \in Nat /\ taken \in Nat /\ taken <= before(t) /\ E \in SUBSET Ids
  BY IdsFinite, ReservedSums
<1>5. ms.quotas[t].set => ReservedTotal(ms.objects, E) = taken /\ ms.quotas[t].used = before(t)
  <2> SUFFICES ASSUME ms.quotas[t].set
               PROVE  ReservedTotal(ms.objects, E) = taken /\ ms.quotas[t].used = before(t)
    OBVIOUS
  <2>1. ms.quotas[t].used = before(t) /\ before(t) <= U64Max
    BY U64MaxAssumption DEF UsedExact, MasterStates, Quota, U64
  <2>2. taken <= U64Max
    BY <1>4, <2>1, U64MaxAssumption
  <2> QED
    BY <1>4, <2>1, <2>2, TotalExact
<1> HIDE DEF new, taken
<1>6. UsedExact(new)
  <2> SUFFICES ASSUME NEW u \in Tenants, new.quotas[u].set
               PROVE  new.quotas[u].used = after(u)
    BY DEF UsedExact
  <2>1. CASE u = t
    BY <1>1, <1>2, <1>4, <1>5, <2>1 DEF SatSub
  <2>2. CASE u # t
    BY <1>1, <1>3, <2>2 DEF UsedExact
  <2> QED
    BY <2>1, <2>2
<1> QED
  BY <1>6 DEF new

\* evict_for_tenant releases exactly what it evicts, in either pass.
LEMMA ExactEvictForTenant ==
  ASSUME NEW ms \in MasterStates, UsedExact(ms), NEW t \in Tenants, NEW target, NEW time,
         NEW new \in EvictForTenant(ms, t, target, time)
  PROVE  UsedExact(new)
<1>1. PICK N \in SUBSET NormalCandidates(ms, t, time), S \in SUBSET SoftCandidates(ms, t, time) :
        new = EvictBatch(EvictBatch(ms, t, N), t, S)
  BY EvictForTenantBatches
<1>2. N \in SUBSET TenantIds(t) /\ S \in SUBSET TenantIds(t)
  BY DEF NormalCandidates, SoftCandidates
<1>3. EvictBatch(ms, t, N) \in MasterStates /\ UsedExact(EvictBatch(ms, t, N))
  BY <1>2, EvictBatchType, ExactEvictBatch
<1> QED
  BY <1>1, <1>2, <1>3, ExactEvictBatch

-----------------------------------------------------------------------------
(* The operations of the DRAM arena, for every arena, every set of         *)
(* contents and every place.                                               *)

\* A chunk with a checksum is as long as the content the checksum is of.
Sealed(d) ==
  \A o \in Offsets : d.allocations[o].checksum # NoContent =>
    d.allocations[o].checksum.len = d.allocations[o].len

\* The chunk at a place was written with a content, and holds nothing else.
Holds(d, offset, len, content) ==
  /\ d.allocations[offset] = [len |-> len, checksum |-> content]
  /\ \A o \in Span(offset, len) : d.arena[o] = [of |-> content, at |-> o - offset]

\* The chunk at a place was allocated, or written; every other one is as before.
Placed(d, new, offset, len) ==
  /\ new.arena = d.arena
  /\ new.allocations[offset] = [len |-> len, checksum |-> NoContent]
  /\ \A o \in Offsets \ {offset} : new.allocations[o] = d.allocations[o]

WroteChunk(d, new, offset, len, content) ==
  /\ \A o \in Offsets : new.arena[o] = IF o \in Span(offset, len)
                                        THEN [of |-> content, at |-> o - offset] ELSE d.arena[o]
  /\ new.allocations[offset] = [len |-> len, checksum |-> content]
  /\ \A o \in Offsets \ {offset} : new.allocations[o] = d.allocations[o]

\* Contents and bytes are not NoContent.
Proper(contents) ==
  NoContent \notin contents /\ \A c \in contents, o \in Offsets : [of |-> c, at |-> o] # NoContent

\* Two spans have no byte in common.
Apart(o1, l1, o2, l2) == o1 + l1 <= o2 \/ o2 + l2 <= o1

\* The empty arena is a state of the MemoryStore in which nothing is written.
LEMMA EmptyDramType ==
  ASSUME NEW contents
  PROVE  EmptyDram \in Drams(contents) /\ Sealed(EmptyDram)
BY ArenaSizeAssumption DEF EmptyDram, Drams, Bytes, NoChunk, Sealed, Offsets

\* Allocating records the chunk, without a checksum.
LEMMA PlaceType ==
  ASSUME NEW contents, NEW d \in Drams(contents), NEW offset \in Offsets, NEW len \in 0..ArenaSize,
         NEW next \in 0..ArenaSize
  PROVE  LET new == [d EXCEPT !.allocations[offset] = [len |-> len, checksum |-> NoContent],
                              !.next = next]
         IN  new \in Drams(contents) /\ Placed(d, new, offset, len)
  BY DEF Drams, Placed

\* write_chunk on a valid handle records the bytes and their checksum.
LEMMA WriteChunkEffect ==
  ASSUME NEW contents, NEW d \in Drams(contents), NEW offset \in Nat, NEW len \in Nat,
         NEW content \in contents, offset + len <= ArenaSize, WriteChunkOk(d, offset, len, content)
  PROVE  /\ WriteChunk(d, offset, len, content) \in Drams(contents)
         /\ WroteChunk(d, WriteChunk(d, offset, len, content), offset, len, content)
<1> DEFINE arena == [o \in Offsets |-> IF o \in Span(offset, len)
                                       THEN [of |-> content, at |-> o - offset] ELSE d.arena[o]]
<1>1. offset \in Offsets /\ len > 0 /\ d.allocations[offset].len = len /\ content.len = len
  BY DEF WriteChunkOk, ValidHandle
<1>2. arena \in [Offsets -> Bytes(contents)]
  <2> SUFFICES ASSUME NEW o \in Offsets
               PROVE  (IF o \in Span(offset, len) THEN [of |-> content, at |-> o - offset]
                                                  ELSE d.arena[o]) \in Bytes(contents)
    OBVIOUS
  <2>1. CASE o \in Span(offset, len)
    <3>1. o - offset \in Offsets
      BY <2>1, ArenaSizeAssumption DEF Offsets, Span
    <3>2. QED BY <2>1, <3>1 DEF Bytes
  <2>2. CASE o \notin Span(offset, len)
    BY <2>2 DEF Drams
  <2>3. QED BY <2>1, <2>2
<1> HIDE DEF arena
<1> DEFINE new == [d EXCEPT !.arena = arena, !.allocations[offset].checksum = content]
<1>3. WriteChunk(d, offset, len, content) = new
  BY DEF WriteChunk, arena
<1>4. new \in Drams(contents)
  <2> DEFINE chunk == [d.allocations[offset] EXCEPT !.checksum = content]
             allocations == [d.allocations EXCEPT ![offset] = chunk]
             Chunk == [len : 0..ArenaSize, checksum : contents \cup {NoContent}]
  <2>1. d.allocations \in [Offsets -> Chunk]
    BY DEF Drams
  <2>2. chunk \in Chunk
    BY <1>1, <2>1
  <2>3. allocations \in [Offsets -> Chunk]
    <3> HIDE DEF chunk, Chunk
    <3> QED BY <1>1, <2>1, <2>2
  <2>4. new = [d EXCEPT !.arena = arena, !.allocations = allocations]
    OBVIOUS
  <2> HIDE DEF allocations, new
  <2>5. QED BY <1>2, <2>3, <2>4 DEF Drams
<1>5. new.arena = arena
  BY DEF Drams
<1>6. /\ new.allocations[offset] = [len |-> len, checksum |-> content]
      /\ \A o \in Offsets \ {offset} : new.allocations[o] = d.allocations[o]
  BY <1>1 DEF Drams
<1> HIDE DEF new
<1>7. WroteChunk(d, new, offset, len, content)
  BY <1>5, <1>6 DEF WroteChunk, arena
<1>8. QED BY <1>3, <1>4, <1>7

\* What write_preallocated leaves when it accepts: the bytes and the chunk with
\* its checksum; no other chunk is changed.
LEMMA WritePreallocatedEffect ==
  ASSUME NEW contents, NEW d \in Drams(contents), NEW offset \in Nat, NEW len \in Nat,
         NEW content \in contents, WritePreallocatedOk(offset, len, content)
  PROVE  /\ WritePreallocated(d, offset, len, content) \in Drams(contents)
         /\ WroteChunk(d, WritePreallocated(d, offset, len, content), offset, len, content)
<1> DEFINE next == IF offset + len > d.next THEN offset + len ELSE d.next
           placed == [d EXCEPT !.allocations[offset] = [len |-> len, checksum |-> NoContent],
                               !.next = next]
<1>1. /\ offset \in Offsets /\ len > 0 /\ content.len = len /\ len \in 0..ArenaSize
      /\ offset + len <= ArenaSize /\ next \in 0..ArenaSize
  BY ArenaSizeAssumption DEF WritePreallocatedOk, Offsets, Drams
<1>2. WritePreallocated(d, offset, len, content) = WriteChunk(placed, offset, len, content)
  BY DEF WritePreallocated
<1> HIDE DEF next
<1>3. placed \in Drams(contents) /\ Placed(d, placed, offset, len)
  BY <1>1, PlaceType
<1> HIDE DEF placed
<1>4. WriteChunkOk(placed, offset, len, content)
  BY <1>1, <1>3 DEF WriteChunkOk, ValidHandle, Placed
<1> DEFINE new == WriteChunk(placed, offset, len, content)
<1>5. new \in Drams(contents) /\ WroteChunk(placed, new, offset, len, content)
  BY <1>1, <1>3, <1>4, WriteChunkEffect
<1> HIDE DEF new
<1>6. WroteChunk(d, new, offset, len, content)
  BY <1>3, <1>5 DEF Placed, WroteChunk
<1>7. QED BY <1>2, <1>5, <1>6 DEF new

\* write_preallocated keeps the state of the MemoryStore well formed.
LEMMA WritePreallocatedType ==
  ASSUME NEW contents, NEW d \in Drams(contents), NEW offset \in Nat, NEW len \in Nat,
         NEW content \in contents, Sealed(d)
  PROVE  /\ WritePreallocated(d, offset, len, content) \in Drams(contents)
         /\ Sealed(WritePreallocated(d, offset, len, content))
<1>1. CASE ~WritePreallocatedOk(offset, len, content)
  BY <1>1 DEF WritePreallocated
<1>2. CASE WritePreallocatedOk(offset, len, content)
  <2> DEFINE new == WritePreallocated(d, offset, len, content)
  <2>1. new \in Drams(contents) /\ WroteChunk(d, new, offset, len, content)
    BY <1>2, WritePreallocatedEffect
  <2>2. content.len = len
    BY <1>2 DEF WritePreallocatedOk
  <2> HIDE DEF new
  <2>3. Sealed(new)
    BY <2>1, <2>2 DEF Sealed, WroteChunk
  <2>4. QED BY <2>1, <2>3 DEF new
<1>3. QED BY <1>1, <1>2

\* What is written is held.
LEMMA WritePreallocatedHolds ==
  ASSUME NEW contents, NEW d \in Drams(contents), NEW offset \in Nat, NEW len \in Nat,
         NEW content \in contents, WritePreallocatedOk(offset, len, content)
  PROVE  Holds(WritePreallocated(d, offset, len, content), offset, len, content)
<1> DEFINE new == WritePreallocated(d, offset, len, content)
<1>1. Span(offset, len) \subseteq Offsets
  BY ArenaSizeAssumption DEF WritePreallocatedOk, Offsets, Span
<1>2. WroteChunk(d, new, offset, len, content)
  BY WritePreallocatedEffect
<1> HIDE DEF new
<1>3. Holds(new, offset, len, content)
  BY <1>1, <1>2 DEF Holds, WroteChunk
<1>4. QED BY <1>3 DEF new

\* A write leaves the chunks it does not overlap alone.
LEMMA WritePreallocatedElsewhere ==
  ASSUME NEW contents, NEW d \in Drams(contents), NEW offset \in Nat, NEW len \in Nat,
         NEW content \in contents, NEW place \in Nat, NEW size \in Nat \ {0},
         place + size <= ArenaSize, Apart(offset, len, place, size)
  PROVE  LET new == WritePreallocated(d, offset, len, content)
         IN  /\ new.allocations[place] = d.allocations[place]
             /\ \A o \in Span(place, size) : new.arena[o] = d.arena[o]
<1>1. CASE ~WritePreallocatedOk(offset, len, content)
  BY <1>1 DEF WritePreallocated
<1>2. CASE WritePreallocatedOk(offset, len, content)
  <2> DEFINE new == WritePreallocated(d, offset, len, content)
  <2>1. /\ place \in Offsets \ {offset}
        /\ Span(place, size) \subseteq Offsets
        /\ \A o \in Span(place, size) : o \notin Span(offset, len)
    BY <1>2, ArenaSizeAssumption DEF WritePreallocatedOk, Offsets, Span, Apart
  <2>2. WroteChunk(d, new, offset, len, content)
    BY <1>2, WritePreallocatedEffect
  <2> HIDE DEF new
  <2>3. /\ new.allocations[place] = d.allocations[place]
        /\ \A o \in Span(place, size) : new.arena[o] = d.arena[o]
    BY <2>1, <2>2 DEF WroteChunk
  <2>4. QED BY <2>3 DEF new
<1>3. QED BY <1>1, <1>2

\* POST /chunks keeps the state of the MemoryStore well formed, whether or not
\* the data has the length that was announced.
LEMMA AllocateAndWriteType ==
  ASSUME NEW contents, NEW d \in Drams(contents), NEW len \in Nat, NEW content \in contents,
         Sealed(d), AllocateOk(d, len)
  PROVE  /\ WriteChunk(Allocate(d, len), d.next, len, content) \in Drams(contents)
         /\ Sealed(WriteChunk(Allocate(d, len), d.next, len, content))
<1> DEFINE a == Allocate(d, len)
           next == d.next
           new == WriteChunk(a, next, len, content)
           end == d.next + len
<1>1. /\ next \in Offsets /\ next \in Nat /\ next + len <= ArenaSize
      /\ end \in 0..ArenaSize /\ len \in 0..ArenaSize
  BY ArenaSizeAssumption DEF AllocateOk, Offsets, Drams
<1>2. a = [d EXCEPT !.allocations[next] = [len |-> len, checksum |-> NoContent], !.next = end]
  BY DEF Allocate, Drams
<1> HIDE DEF next, end
<1> HIDE DEF a
<1>3. a \in Drams(contents) /\ Placed(d, a, next, len)
  <2> DEFINE placed == [d EXCEPT !.allocations[next] = [len |-> len, checksum |-> NoContent], !.next = end]
  <2>1. placed \in Drams(contents) /\ Placed(d, placed, next, len)
    BY <1>1, PlaceType
  <2> HIDE DEF placed
  <2>2. a = placed
    BY <1>2 DEF placed
  <2>3. QED BY <2>1, <2>2
<1>4. Sealed(a)
  BY <1>1, <1>3 DEF Sealed, Placed
<1>5. CASE ~WriteChunkOk(a, next, len, content)
  <2>1. new = a
    BY <1>5 DEF WriteChunk, next
  <2>2. QED BY <1>3, <1>4, <2>1 DEF a, next
<1>6. CASE WriteChunkOk(a, next, len, content)
  <2>1. new \in Drams(contents) /\ WroteChunk(a, new, next, len, content)
    BY <1>1, <1>3, <1>6, WriteChunkEffect
  <2> HIDE DEF new
  <2>2. content.len = len
    BY <1>6 DEF WriteChunkOk
  <2>3. Sealed(new)
    BY <1>4, <2>1, <2>2 DEF Sealed, WroteChunk
  <2>4. QED BY <2>1, <2>3 DEF new, a, next
<1>7. QED BY <1>5, <1>6

\* read_chunk, when its checksum is right, returns the whole of one write: the
\* content whose checksum the chunk has, of the length asked for.
LEMMA ReadOk ==
  ASSUME NEW contents, NEW d \in Drams(contents), NEW offset \in Nat, NEW len \in Nat,
         Proper(contents), Sealed(d), ReadOutcome(d, offset, len) = "Ok"
  PROVE  /\ ReadContent(d, offset, len) = d.allocations[offset].checksum
         /\ ReadContent(d, offset, len) \in contents
         /\ ReadContent(d, offset, len).len = len
<1> DEFINE sum == d.allocations[offset].checksum
<1>1. /\ offset \in Offsets /\ len > 0 /\ d.allocations[offset].len = len /\ sum # NoContent
      /\ \A o \in Span(offset, len) : d.arena[o] = [of |-> sum, at |-> o - offset]
  BY DEF ReadOutcome, ValidHandle
<1>2. sum \in contents /\ sum.len = len
  BY <1>1 DEF Drams, Sealed
<1>3. offset \in Span(offset, len) /\ 0 \in Offsets /\ offset - offset = 0
  BY <1>1, ArenaSizeAssumption DEF Span, Offsets
<1>4. d.arena[offset] = [of |-> sum, at |-> 0] /\ d.arena[offset] # NoContent
  BY <1>1, <1>2, <1>3 DEF Proper
<1>5. d.arena[offset].of = sum
  BY <1>4
<1> HIDE DEF sum
<1>6. ReadContent(d, offset, len) = sum
  BY <1>1, <1>2, <1>4, <1>5 DEF ReadContent
<1>7. QED BY <1>2, <1>6 DEF sum

\* A chunk that holds a content is read as that content.
LEMMA ReadHolds ==
  ASSUME NEW contents, NEW d \in Drams(contents), NEW offset \in Nat, NEW len \in Nat \ {0},
         NEW content \in contents, offset + len <= ArenaSize,
         Proper(contents), Sealed(d), Holds(d, offset, len, content)
  PROVE  /\ ReadOutcome(d, offset, len) = "Ok"
         /\ ReadContent(d, offset, len) = content
<1>1. offset \in Offsets /\ content # NoContent
  BY ArenaSizeAssumption DEF Offsets, Proper
<1>2. d.allocations[offset].len = len /\ d.allocations[offset].checksum = content
  BY DEF Holds
<1>3. ReadOutcome(d, offset, len) = "Ok"
  BY <1>1, <1>2 DEF ReadOutcome, ValidHandle, Holds
<1>4. QED BY <1>2, <1>3, ReadOk

=============================================================================

------------------------- MODULE OrderQueuesProofs -------------------------
(***************************************************************************)
(* Lemmas about the operators of OrderQueues, for the proofs about the two *)
(* structures that use them.                                               *)
(***************************************************************************)
EXTENDS OrderQueues, FiniteSetTheorems, FunctionTheorems, SequenceTheorems, TLAPS

\* FirstOf picks the least element of a nonempty set of positions.
LEMMA FirstOfLeast ==
    ASSUME NEW S \in SUBSET Nat, NEW d, S # {}
    PROVE  FirstOf(S, d) \in S /\ \A j \in S : FirstOf(S, d) <= j
<1>1. PICK i \in S : \A j \in S : ~(<<j, i>> \in OpToRel(<, Nat))
  BY NatLessThanWellFounded, WFMin, Zenon
<1>2. \A j \in S : i <= j
  <2> SUFFICES ASSUME NEW j \in S PROVE i <= j
    OBVIOUS
  <2>1. ~(j < i)
    BY <1>1 DEF OpToRel
  <2> QED
    BY <2>1
<1> QED
  BY <1>2 DEF FirstOf

\* Popping up to the first element of S pops nothing of S before it.
LEMMA FirstOfRange ==
    ASSUME NEW n \in Nat, NEW S \in SUBSET (1..n), NEW d \in Nat
    PROVE  /\ FirstOf(S, d) \in Nat
           /\ S # {} => FirstOf(S, d) \in 1..n
           /\ S = {} => FirstOf(S, d) = d
           /\ \A j \in S : FirstOf(S, d) <= j
<1>1. CASE S = {}
  BY <1>1 DEF FirstOf
<1>2. CASE S # {}
  <2>1. S \in SUBSET Nat
    OBVIOUS
  <2>2. FirstOf(S, d) \in S /\ \A j \in S : FirstOf(S, d) <= j
    BY <1>2, <2>1, FirstOfLeast
  <2>3. FirstOf(S, d) \in 1..n
    BY <2>2
  <2> QED
    BY <1>2, <2>2, <2>3
<1> QED
  BY <1>1, <1>2

-----------------------------------------------------------------------------
(* The ranks of the positions K that Without keeps.                        *)

UpTo(K, i) == {j \in K : j <= i}

\* The positions of a finite set up to i are a finite set, no larger.
LEMMA UpToFinite ==
    ASSUME NEW K \in SUBSET Nat, IsFiniteSet(K), NEW i \in Nat
    PROVE  /\ IsFiniteSet(UpTo(K, i))
           /\ Cardinality(UpTo(K, i)) \in 0..Cardinality(K)
<1>1. UpTo(K, i) \in SUBSET K
  BY DEF UpTo
<1> QED
  BY <1>1, FS_Subset, FS_CardinalityType

\* The rank of a kept position is between one and the number of kept positions.
LEMMA RankInRange ==
    ASSUME NEW K \in SUBSET Nat, IsFiniteSet(K), NEW i \in K
    PROVE  Cardinality(UpTo(K, i)) \in 1..Cardinality(K)
<1>1. IsFiniteSet(UpTo(K, i)) /\ Cardinality(UpTo(K, i)) \in 0..Cardinality(K)
  BY UpToFinite
<1>2. UpTo(K, i) # {}
  BY DEF UpTo
<1>3. Cardinality(UpTo(K, i)) # 0
  BY <1>1, <1>2, FS_EmptySet
<1> QED
  BY <1>1, <1>3, FS_CardinalityType

\* A later position has a greater rank.
LEMMA RankMonotone ==
    ASSUME NEW K \in SUBSET Nat, IsFiniteSet(K), NEW i \in K, NEW j \in K, i < j
    PROVE  Cardinality(UpTo(K, i)) < Cardinality(UpTo(K, j))
<1>1. UpTo(K, i) \in SUBSET UpTo(K, j)
  <2> SUFFICES ASSUME NEW k \in K, k <= i PROVE k <= j
    BY DEF UpTo
  <2>1. i \in Nat /\ j \in Nat /\ k \in Nat
    OBVIOUS
  <2> QED
    BY <2>1
<1>2. UpTo(K, i) # UpTo(K, j)
  BY DEF UpTo
<1>3. IsFiniteSet(UpTo(K, j)) /\ IsFiniteSet(UpTo(K, i))
  BY UpToFinite
<1>4. Cardinality(UpTo(K, i)) <= Cardinality(UpTo(K, j))
      /\ Cardinality(UpTo(K, i)) # Cardinality(UpTo(K, j))
  BY <1>1, <1>2, <1>3, FS_Subset
<1> QED
  BY <1>3, <1>4, FS_CardinalityType

\* Every rank up to the number of positions is some position's rank.
LEMMA RankOnto ==
    ASSUME NEW K \in SUBSET Nat, IsFiniteSet(K), NEW n \in 1..Cardinality(K)
    PROVE  \E i \in K : Cardinality(UpTo(K, i)) = n
<1> DEFINE Missing == {m \in 1..Cardinality(K) : \A i \in K : Cardinality(UpTo(K, i)) # m}
           m == FirstOf(Missing, 0)
<1> SUFFICES ASSUME Missing # {} PROVE FALSE
  OBVIOUS
<1>0. Cardinality(K) \in Nat
  BY FS_CardinalityType
<1>1. m \in Missing /\ \A k \in Missing : m <= k
  <2>1. Missing \in SUBSET Nat
    BY <1>0
  <2> HIDE DEF Missing
  <2> QED
    BY <2>1, FirstOfLeast
<1> HIDE DEF m
<1>2. CASE m = 1
  <2>1. K # {}
    BY FS_EmptySet
  <2>2. PICK i \in K : \A j \in K : i <= j
    BY <2>1, FirstOfLeast
  <2>3. UpTo(K, i) = {i}
    BY <2>2 DEF UpTo
  <2>4. Cardinality(UpTo(K, i)) = 1
    BY <2>3, FS_Singleton
  <2> QED
    BY <1>1, <1>2, <2>4
<1>3. CASE m # 1
  <2> DEFINE above(i) == {j \in K : i < j}
  <2>0. m \in 2..Cardinality(K)
    BY <1>0, <1>1, <1>3
  <2>1. m - 1 \in 1..Cardinality(K) /\ m - 1 \notin Missing
    BY <1>0, <1>1, <2>0
  <2>2. PICK i \in K : Cardinality(UpTo(K, i)) = m - 1
    BY <2>1
  <2>3. above(i) # {}
    <3> SUFFICES ASSUME above(i) = {} PROVE FALSE
      OBVIOUS
    <3>1. UpTo(K, i) = K
      BY DEF UpTo
    <3> QED
      BY <1>0, <2>0, <2>2, <3>1
  <2>4. PICK j \in above(i) : \A k \in above(i) : j <= k
    <3>1. above(i) \in SUBSET Nat
      OBVIOUS
    <3> HIDE DEF above
    <3> QED
      BY <2>3, <3>1, FirstOfLeast
  <2>5. UpTo(K, j) = UpTo(K, i) \cup {j} /\ j \notin UpTo(K, i)
    BY <2>4 DEF UpTo
  <2>6. Cardinality(UpTo(K, j)) = m
    <3>1. IsFiniteSet(UpTo(K, i))
      BY <2>2, UpToFinite
    <3>2. Cardinality(UpTo(K, j)) = Cardinality(UpTo(K, i)) + 1
      BY <2>5, <3>1, FS_AddElement
    <3> QED
      BY <1>0, <2>0, <2>2, <3>2
  <2> QED
    BY <1>1, <2>4, <2>6
<1> QED
  BY <1>2, <1>3

-----------------------------------------------------------------------------
(* What Without keeps, and where.                                          *)

\* The positions Without keeps, in their order: n-th position of what is left
\* to position in s.
Kept(s, gone) == DOMAIN s \ gone
Origin(s, gone) ==
    [n \in 1..Cardinality(Kept(s, gone)) |->
        CHOOSE i \in Kept(s, gone) : Cardinality(UpTo(Kept(s, gone), i)) = n]

\* Element n of Without comes from the n-th kept position: Origin is a
\* strictly increasing map from the new positions onto the kept ones.
LEMMA WithoutOrigin ==
    ASSUME NEW T, NEW s \in Seq(T), NEW gone
    PROVE  /\ Kept(s, gone) \in SUBSET (1..Len(s)) /\ IsFiniteSet(Kept(s, gone))
           /\ Cardinality(Kept(s, gone)) \in Nat
           /\ Origin(s, gone) \in [1..Cardinality(Kept(s, gone)) -> Kept(s, gone)]
           /\ \A m, n \in 1..Cardinality(Kept(s, gone)) :
                 m < n => Origin(s, gone)[m] < Origin(s, gone)[n]
           /\ \A n \in 1..Cardinality(Kept(s, gone)) :
                 Cardinality(UpTo(Kept(s, gone), Origin(s, gone)[n])) = n
           /\ \A i \in Kept(s, gone) :
                 \E n \in 1..Cardinality(Kept(s, gone)) : Origin(s, gone)[n] = i
           /\ Without(s, gone) =
                 [n \in 1..Cardinality(Kept(s, gone)) |-> s[Origin(s, gone)[n]]]
<1> DEFINE K == Kept(s, gone)
           N == Cardinality(K)
           f == Origin(s, gone)
<1>1. K \in SUBSET (1..Len(s)) /\ K \in SUBSET Nat
  BY LenProperties DEF Kept
<1>2. IsFiniteSet(K) /\ N \in Nat
  <2>1. Len(s) \in Int /\ IsFiniteSet(1..Len(s))
    BY LenProperties, FS_Interval
  <2> HIDE DEF K
  <2>2. IsFiniteSet(K)
    BY <1>1, <2>1, FS_Subset
  <2> QED
    BY <2>2, FS_CardinalityType
<1>3. \A n \in 1..N : f[n] \in K /\ Cardinality(UpTo(K, f[n])) = n
  <2> SUFFICES ASSUME NEW n \in 1..N
               PROVE  f[n] \in K /\ Cardinality(UpTo(K, f[n])) = n
    OBVIOUS
  <2>1. f[n] = CHOOSE i \in K : Cardinality(UpTo(K, i)) = n
    BY DEF Origin
  <2>2. \E i \in K : Cardinality(UpTo(K, i)) = n
    BY <1>1, <1>2, RankOnto
  <2> QED
    BY <2>1, <2>2
<1>4. f \in [1..N -> K]
  BY <1>3 DEF Origin
<1>5. \A i \in K : Cardinality(UpTo(K, i)) \in 1..N /\ f[Cardinality(UpTo(K, i))] = i
  <2> SUFFICES ASSUME NEW i \in K
               PROVE  Cardinality(UpTo(K, i)) \in 1..N /\ f[Cardinality(UpTo(K, i))] = i
    OBVIOUS
  <2> DEFINE n == Cardinality(UpTo(K, i))
  <2>1. n \in 1..N
    BY <1>1, <1>2, RankInRange
  <2>2. f[n] \in K /\ Cardinality(UpTo(K, f[n])) = n
    BY <1>3, <2>1
  <2>3. ~(f[n] < i) /\ ~(i < f[n])
    BY <1>1, <1>2, <1>3, <2>1, <2>2, RankMonotone
  <2> QED
    BY <1>1, <2>1, <2>2, <2>3
<1>6. \A m, n \in 1..N : m < n => f[m] < f[n]
  <2> SUFFICES ASSUME NEW m \in 1..N, NEW n \in 1..N, m < n, ~(f[m] < f[n])
               PROVE  FALSE
    OBVIOUS
  <2>1. f[m] \in K /\ f[n] \in K /\ f[m] \in Nat /\ f[n] \in Nat
    BY <1>1, <1>3
  <2>2. Cardinality(UpTo(K, f[m])) = m /\ Cardinality(UpTo(K, f[n])) = n
    BY <1>3
  <2>3. CASE f[m] = f[n]
    BY <1>2, <2>2, <2>3
  <2>4. CASE f[n] < f[m]
    <3>1. n < m
      BY <1>1, <1>2, <2>1, <2>2, <2>4, RankMonotone
    <3> QED
      BY <1>2, <3>1
  <2> QED
    BY <2>1, <2>3, <2>4
<1>7. Without(s, gone) = [n \in 1..N |-> s[f[n]]]
  <2>1. Without(s, gone) =
          [n \in 1..N |-> s[CHOOSE i \in K : Cardinality(UpTo(K, i)) = n]]
    BY DEF Without, Kept, UpTo
  <2> QED
    BY <2>1 DEF Origin
<1> QED
  BY <1>1, <1>2, <1>3, <1>4, <1>5, <1>6, <1>7

\* Without yields a sequence of what it keeps.
LEMMA WithoutType ==
    ASSUME NEW T, NEW s \in Seq(T), NEW gone
    PROVE  /\ Without(s, gone) \in Seq(T)
           /\ Len(Without(s, gone)) = Cardinality(Kept(s, gone))
           /\ \A n \in 1..Len(Without(s, gone)) :
                 \E i \in Kept(s, gone) : Without(s, gone)[n] = s[i]
           /\ \A i \in Kept(s, gone) :
                 \E n \in 1..Len(Without(s, gone)) : Without(s, gone)[n] = s[i]
<1> DEFINE N == Cardinality(Kept(s, gone))
           w == Without(s, gone)
           f == Origin(s, gone)
<1>1. /\ N \in Nat
      /\ f \in [1..N -> Kept(s, gone)]
      /\ \A i \in Kept(s, gone) : \E n \in 1..N : f[n] = i
      /\ w = [n \in 1..N |-> s[f[n]]]
      /\ Kept(s, gone) \in SUBSET (1..Len(s))
  BY WithoutOrigin
<1>2. \A n \in 1..N : f[n] \in 1..Len(s) /\ s[f[n]] \in T
  BY <1>1, ElementOfSeq
<1>3. w \in [1..N -> T]
  BY <1>1, <1>2
<1>4. w \in Seq(T) /\ Len(w) = N
  <2> HIDE DEF N, w
  <2>1. w \in Seq(T)
    BY <1>1, <1>3, SeqDef
  <2>2. DOMAIN w = 1..N /\ DOMAIN w = 1..Len(w) /\ Len(w) \in Nat
    BY <1>3, <2>1, LenProperties
  <2> QED
    BY <1>1, <2>1, <2>2
<1> QED
  BY <1>1, <1>4

\* Taking nothing away changes nothing.
LEMMA WithoutNothing ==
    ASSUME NEW T, NEW s \in Seq(T)
    PROVE  Without(s, {}) = s
<1> DEFINE N == Len(s)
           f == Origin(s, {})
<1>1. N \in Nat /\ s \in [1..N -> T] /\ Kept(s, {}) = 1..N
  BY LenProperties DEF Kept
<1>2. Cardinality(1..N) = N
  BY <1>1, FS_Interval
<1>3. /\ f \in [1..N -> 1..N]
      /\ \A n \in 1..N : Cardinality(UpTo(1..N, f[n])) = n
      /\ Without(s, {}) = [n \in 1..N |-> s[f[n]]]
  BY <1>1, <1>2, WithoutOrigin
<1>4. \A n \in 1..N : f[n] = n
  <2> SUFFICES ASSUME NEW n \in 1..N PROVE f[n] = n
    OBVIOUS
  <2>1. f[n] \in 1..N
    BY <1>3
  <2>2. UpTo(1..N, f[n]) = 1..f[n]
    BY <1>1, <2>1 DEF UpTo
  <2>3. Cardinality(1..f[n]) = f[n]
    <3> DEFINE k == f[n]
    <3>1. k \in Nat /\ k >= 1
      BY <2>1
    <3> HIDE DEF k
    <3>2. Cardinality(1..k) = IF 1 > k THEN 0 ELSE k - 1 + 1
      BY <3>1, FS_Interval
    <3>3. Cardinality(1..k) = k
      BY <3>1, <3>2
    <3> QED
      BY <3>3 DEF k
  <2> QED
    BY <1>3, <2>2, <2>3
<1> HIDE DEF f
<1>5. Without(s, {}) = [n \in 1..N |-> s[n]]
  BY <1>3, <1>4
<1> QED
  BY <1>1, <1>5

\* Popping n elements leaves the rest in place.
LEMMA DroppedProperties ==
    ASSUME NEW T, NEW s \in Seq(T), NEW n \in Nat
    PROVE  /\ Dropped(s, n) \in Seq(T)
           /\ Len(Dropped(s, n)) = IF n <= Len(s) THEN Len(s) - n ELSE 0
           /\ \A i \in 1..Len(Dropped(s, n)) : Dropped(s, n)[i] = s[n + i]
<1>1. Len(s) \in Nat /\ \A i \in (n + 1)..Len(s) : s[i] \in T
  BY LenProperties, ElementOfSeq
<1>2. /\ SubSeq(s, n + 1, Len(s)) \in Seq(T)
      /\ Len(SubSeq(s, n + 1, Len(s))) =
            IF n + 1 <= Len(s) THEN Len(s) - (n + 1) + 1 ELSE 0
      /\ \A i \in 1..(Len(s) - (n + 1) + 1) :
            SubSeq(s, n + 1, Len(s))[i] = s[(n + 1) + i - 1]
  BY <1>1, SubSeqProperties
<1> QED
  BY <1>1, <1>2 DEF Dropped

=============================================================================

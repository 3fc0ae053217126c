-------------------------- MODULE SentCacheProofs --------------------------
(***************************************************************************)
(* What holds of SentCache for every capacity and every set of hashes.     *)
(* The four conjuncts of IInv need each other: capacity is kept because    *)
(* eviction finds a key through the queue (OrderCoversKeys), and the queue *)
(* keeps few different hashes because compaction leaves the keys alone,    *)
(* which are within capacity.                                              *)
(***************************************************************************)
EXTENDS SentCache, OrderQueuesProofs

IInv == TypeOK /\ CapacityHeld /\ OrderCoversKeys /\ DistinctOrderBounded

\* The memory has room for at least one hash.
LEMMA MaxEntriesType == MaxEntries \in Nat /\ MaxEntries >= 1
BY SentAssumption DEF MaxEntries, AtLeastOne

\* Every set of hashes is finite.
LEMMA KeysFinite ==
    ASSUME NEW K \in SUBSET SentHash
    PROVE  IsFiniteSet(K) /\ Cardinality(K) \in Nat
BY SentHashAssumption, FS_Subset, FS_CardinalityType

\* A sequence has at most as many different elements as it is long.
LEMMA ToSetBound ==
    ASSUME NEW s \in Seq(SentHash)
    PROVE  /\ ToSet(s) \in SUBSET SentHash
           /\ Cardinality(ToSet(s)) <= Len(s)
<1>1. Len(s) \in Nat /\ s \in [1..Len(s) -> SentHash] /\ DOMAIN s = 1..Len(s)
  BY LenProperties
<1>2. s \in Surjection(1..Len(s), ToSet(s))
  BY <1>1, Fun_IsSurj DEF ToSet
<1>3. IsFiniteSet(1..Len(s)) /\ Cardinality(1..Len(s)) = Len(s)
  BY <1>1, FS_Interval
<1>4. Cardinality(ToSet(s)) <= Cardinality(1..Len(s))
  BY <1>2, <1>3, FS_Surjection
<1> QED
  BY <1>1, <1>3, <1>4 DEF ToSet

\* Compaction loses no key from the queue, adds nothing, and leaves at most
\* twice the capacity of different hashes.
LEMMA CompactedProperties ==
    ASSUME NEW order \in Seq(SentHash), NEW keys \in SUBSET SentHash,
           Cardinality(keys) <= 2 * MaxEntries
    PROVE  /\ Compacted(order, keys) \in Seq(SentHash)
           /\ keys \cap ToSet(order) \subseteq ToSet(Compacted(order, keys))
           /\ Cardinality(ToSet(Compacted(order, keys))) <= 2 * MaxEntries
<1>1. CASE Len(order) > 2 * MaxEntries
  <2> DEFINE gone == {i \in DOMAIN order : order[i] \notin keys}
             w == Without(order, gone)
  <2>1. Compacted(order, keys) = w
    BY <1>1 DEF Compacted, Retained
  <2>2. /\ w \in Seq(SentHash)
        /\ \A n \in 1..Len(w) : \E i \in Kept(order, gone) : w[n] = order[i]
        /\ \A i \in Kept(order, gone) : \E n \in 1..Len(w) : w[n] = order[i]
    <3> HIDE DEF gone
    <3> QED
      BY WithoutType
  <2>3. DOMAIN w = 1..Len(w)
    BY <2>2, LenProperties
  <2>4. Kept(order, gone) = {i \in DOMAIN order : order[i] \in keys}
    BY DEF Kept
  <2> HIDE DEF gone, w
  <2>5. ToSet(w) = keys \cap ToSet(order)
    <3>1. ASSUME NEW x \in ToSet(w) PROVE x \in keys \cap ToSet(order)
      <4>1. PICK n \in 1..Len(w) : x = w[n]
        BY <2>3, <3>1 DEF ToSet
      <4>2. PICK i \in Kept(order, gone) : x = order[i]
        BY <2>2, <4>1
      <4> QED
        BY <2>4, <4>2 DEF ToSet
    <3>2. ASSUME NEW x \in keys, x \in ToSet(order) PROVE x \in ToSet(w)
      <4>1. PICK i \in DOMAIN order : x = order[i]
        BY <3>2 DEF ToSet
      <4>2. PICK n \in 1..Len(w) : w[n] = order[i]
        BY <2>2, <2>4, <3>2, <4>1
      <4> QED
        BY <2>3, <4>1, <4>2 DEF ToSet
    <3> QED
      BY <3>1, <3>2
  <2>6. Cardinality(keys \cap ToSet(order)) <= Cardinality(keys)
    BY KeysFinite, FS_Intersection
  <2>7. Cardinality(keys) \in Nat /\ Cardinality(keys \cap ToSet(order)) \in Nat
    BY KeysFinite
  <2> QED
    BY <2>1, <2>2, <2>5, <2>6, <2>7, MaxEntriesType
<1>2. CASE ~(Len(order) > 2 * MaxEntries)
  <2>1. Compacted(order, keys) = order
    BY <1>2 DEF Compacted
  <2>2. Len(order) <= 2 * MaxEntries /\ Len(order) \in Nat
    BY <1>2, LenProperties, MaxEntriesType
  <2>3. Cardinality(ToSet(order)) <= Len(order) /\ Cardinality(ToSet(order)) \in Nat
    BY ToSetBound, KeysFinite
  <2> QED
    BY <2>1, <2>2, <2>3, MaxEntriesType
<1> QED
  BY <1>1, <1>2

\* Eviction takes a queue that covers the keys and at most one key too many,
\* and ends within capacity; when it evicts, exactly the capacity remains.
LEMMA SentEvictedProperties ==
    ASSUME NEW keys \in SUBSET SentHash, NEW order \in Seq(SentHash),
           Cardinality(keys) <= MaxEntries + 1,
           keys \subseteq ToSet(order)
    PROVE  LET s == [keys |-> keys, order |-> order]
               r == SentEvicted(s)
           IN  /\ r \in [keys : SUBSET SentHash, order : Seq(SentHash)]
               /\ r.keys \subseteq keys
               /\ Cardinality(r.keys) <= MaxEntries
               /\ r.keys \subseteq ToSet(r.order)
               /\ ToSet(r.order) \subseteq ToSet(order)
               /\ IF Cardinality(keys) <= MaxEntries
                  THEN r = s
                  ELSE /\ Cardinality(r.keys) = MaxEntries
                       /\ \E n \in DOMAIN order :
                             /\ order[n] \in keys
                             /\ \A i \in 1..(n - 1) : order[i] \notin keys
                             /\ r.keys = keys \ {order[n]}
                             /\ r.order = Dropped(order, n)
<1> DEFINE s == [keys |-> keys, order |-> order]
           r == SentEvicted(s)
<1>0. /\ Len(order) \in Nat /\ DOMAIN order = 1..Len(order)
      /\ IsFiniteSet(keys) /\ Cardinality(keys) \in Nat
      /\ MaxEntries \in Nat /\ MaxEntries >= 1
  BY LenProperties, KeysFinite, MaxEntriesType
<1>1. CASE Cardinality(keys) <= MaxEntries
  <2>1. r = s
    BY <1>0, <1>1 DEF SentEvicted, OverCapacity
  <2> QED
    BY <1>0, <1>1, <2>1
<1>2. CASE ~(Cardinality(keys) <= MaxEntries)
  <2> DEFINE present == {i \in DOMAIN order : order[i] \in keys}
             n == FirstOf(present, Len(order))
             popped == {order[i] : i \in 1..n}
             rest == Dropped(order, n)
  <2>1. r = [keys |-> keys \ popped, order |-> rest]
    BY <1>0, <1>2 DEF SentEvicted, SentOverflow, OverCapacity
  <2>2. present \in SUBSET (1..Len(order)) /\ present # {}
    <3>1. keys # {}
      BY <1>0, <1>2, FS_EmptySet
    <3> QED
      BY <1>0, <3>1 DEF ToSet
  <2>3. n \in 1..Len(order) /\ n \in present /\ \A j \in present : n <= j
    <3>1. present \in SUBSET Nat
      BY <2>2
    <3>2. n \in present /\ \A j \in present : n <= j
      <4> HIDE DEF present
      <4> QED
        BY <2>2, <3>1, FirstOfLeast
    <3> QED
      BY <1>0, <3>2
  <2> HIDE DEF n
  <2>4. keys \cap popped = {order[n]}
    <3>1. \A i \in 1..n : order[i] \in keys => i = n
      BY <1>0, <2>3
    <3> QED
      BY <1>0, <2>3, <3>1
  <2>5. keys \ popped = keys \ {order[n]} /\ order[n] \in keys
    BY <2>3, <2>4
  <2> HIDE DEF popped
  <2>6. Cardinality(keys \ popped) = MaxEntries
    <3>1. Cardinality(keys \ {order[n]}) = Cardinality(keys) - 1
      BY <1>0, <2>5, FS_RemoveElement
    <3>2. Cardinality(keys) = MaxEntries + 1
      BY <1>0, <1>2
    <3>3. Cardinality(keys) - 1 = MaxEntries
      BY <1>0, <3>2
    <3> QED
      BY <2>5, <3>1, <3>3
  <2>7. /\ rest \in Seq(SentHash)
        /\ Len(rest) = Len(order) - n /\ DOMAIN rest = 1..Len(rest)
        /\ \A i \in 1..Len(rest) : rest[i] = order[n + i]
    <3>1. n \in Nat /\ n <= Len(order)
      BY <1>0, <2>3
    <3>2. /\ rest \in Seq(SentHash)
          /\ Len(rest) = IF n <= Len(order) THEN Len(order) - n ELSE 0
          /\ \A i \in 1..Len(rest) : rest[i] = order[n + i]
      BY <3>1, DroppedProperties
    <3>3. DOMAIN rest = 1..Len(rest)
      BY <3>2, LenProperties
    <3> QED
      BY <3>1, <3>2, <3>3
  <2> HIDE DEF rest
  <2>8. ToSet(rest) \subseteq ToSet(order)
    BY <1>0, <2>3, <2>7 DEF ToSet
  <2>9. keys \ popped \subseteq ToSet(rest)
    <3> SUFFICES ASSUME NEW k \in keys, k \notin popped PROVE k \in ToSet(rest)
      OBVIOUS
    <3>1. PICK i \in 1..Len(order) : order[i] = k
      BY <1>0 DEF ToSet
    <3>2. i \notin 1..n
      BY <3>1 DEF popped
    <3>3. i - n \in 1..Len(rest) /\ n + (i - n) = i
      BY <1>0, <2>3, <2>7, <3>2
    <3> QED
      BY <2>7, <3>1, <3>3 DEF ToSet
  <2>10. r.keys = keys \ popped /\ r.order = rest
    BY <2>1
  <2>11. /\ r \in [keys : SUBSET SentHash, order : Seq(SentHash)]
         /\ Cardinality(r.keys) <= MaxEntries /\ Cardinality(r.keys) = MaxEntries
    <3>1. r \in [keys : SUBSET SentHash, order : Seq(SentHash)]
      BY <2>1, <2>7
    <3> HIDE DEF r
    <3>2. Cardinality(r.keys) = MaxEntries
      BY <2>6, <2>10
    <3> QED
      BY <1>0, <3>1, <3>2
  <2>13. \E m \in DOMAIN order :
            /\ order[m] \in keys
            /\ \A i \in 1..(m - 1) : order[i] \notin keys
            /\ r.keys = keys \ {order[m]}
            /\ r.order = Dropped(order, m)
    <3>1. \A i \in 1..(n - 1) : order[i] \notin keys
      BY <1>0, <2>3
    <3>2. r.keys = keys \ {order[n]} /\ r.order = Dropped(order, n) /\ n \in DOMAIN order
      BY <1>0, <2>3, <2>5, <2>10 DEF rest
    <3> HIDE DEF r
    <3> QED
      BY <2>5, <3>1, <3>2
  <2> HIDE DEF r
  <2>12. /\ r.keys \subseteq keys
         /\ r.keys \subseteq ToSet(r.order)
         /\ ToSet(r.order) \subseteq ToSet(order)
    BY <2>8, <2>9, <2>10
  <2> QED
    BY <1>2, <2>11, <2>12, <2>13 DEF r
<1> QED
  BY <1>1, <1>2

\* What an insert does to a cache that satisfies the invariant.
LEMMA SentInsertedProperties ==
    ASSUME sent \in [keys : SUBSET SentHash, order : Seq(SentHash)],
           CapacityHeld, OrderCoversKeys, DistinctOrderBounded,
           NEW h \in SentHash
    PROVE  LET r == SentInserted(sent, h)
           IN  /\ r \in [keys : SUBSET SentHash, order : Seq(SentHash)]
               /\ r.keys \subseteq sent.keys \cup {h}
               /\ Cardinality(r.keys) <= MaxEntries
               /\ r.keys \subseteq ToSet(r.order)
               /\ Cardinality(ToSet(r.order)) <= 2 * MaxEntries
               /\ IF h \in sent.keys \/ Cardinality(sent.keys) < MaxEntries
                  THEN r.keys = sent.keys \cup {h}
                  ELSE Cardinality(r.keys) = MaxEntries
<1> DEFINE keys == sent.keys \cup {h}
           order == IF h \in sent.keys THEN sent.order ELSE Append(sent.order, h)
           compacted == Compacted(order, keys)
           r == SentInserted(sent, h)
<1>0. /\ MaxEntries \in Nat /\ MaxEntries >= 1
      /\ Cardinality(sent.keys) \in Nat /\ IsFiniteSet(sent.keys)
      /\ Cardinality(sent.keys) <= MaxEntries
  BY MaxEntriesType, KeysFinite DEF CapacityHeld
<1>1. /\ keys \in SUBSET SentHash
      /\ Cardinality(keys) =
            IF h \in sent.keys THEN Cardinality(sent.keys) ELSE Cardinality(sent.keys) + 1
  BY <1>0, FS_AddElement
<1>2. order \in Seq(SentHash) /\ keys \subseteq ToSet(order)
  <2>1. CASE h \in sent.keys
    BY <2>1 DEF OrderCoversKeys
  <2>2. CASE h \notin sent.keys
    <3> DEFINE s == sent.order
    <3>0. s \in Seq(SentHash) /\ sent.keys \subseteq ToSet(s)
      BY DEF OrderCoversKeys
    <3> HIDE DEF s
    <3>1. /\ Append(s, h) \in Seq(SentHash)
          /\ Len(Append(s, h)) = Len(s) + 1 /\ Len(s) \in Nat
          /\ DOMAIN Append(s, h) = 1..(Len(s) + 1) /\ DOMAIN s = 1..Len(s)
          /\ \A i \in 1..Len(s) : Append(s, h)[i] = s[i]
          /\ Append(s, h)[Len(s) + 1] = h
      BY <3>0, LenProperties, AppendProperties
    <3>2. ToSet(s) \subseteq ToSet(Append(s, h)) /\ h \in ToSet(Append(s, h))
      BY <3>1 DEF ToSet
    <3> QED
      BY <2>2, <3>0, <3>1, <3>2 DEF s
  <2> QED
    BY <2>1, <2>2
<1> HIDE DEF order
<1>3. Cardinality(keys) <= MaxEntries + 1 /\ Cardinality(keys) <= 2 * MaxEntries
  BY <1>0, <1>1
<1> HIDE DEF keys
<1>4. /\ compacted \in Seq(SentHash)
      /\ keys \subseteq ToSet(compacted)
      /\ Cardinality(ToSet(compacted)) <= 2 * MaxEntries
  BY <1>1, <1>2, <1>3, CompactedProperties
<1> HIDE DEF compacted
<1>5. r = SentEvicted([keys |-> keys, order |-> compacted])
  BY DEF SentInserted, SentRecorded, keys, order, compacted
<1> HIDE DEF r
<1>6. /\ r \in [keys : SUBSET SentHash, order : Seq(SentHash)]
      /\ r.keys \subseteq keys
      /\ Cardinality(r.keys) <= MaxEntries
      /\ r.keys \subseteq ToSet(r.order)
      /\ ToSet(r.order) \subseteq ToSet(compacted)
      /\ IF Cardinality(keys) <= MaxEntries
         THEN r.keys = keys
         ELSE Cardinality(r.keys) = MaxEntries
  <2> DEFINE s == [keys |-> keys, order |-> compacted]
             e == SentEvicted(s)
  <2>1. /\ e \in [keys : SUBSET SentHash, order : Seq(SentHash)]
        /\ e.keys \subseteq keys
        /\ Cardinality(e.keys) <= MaxEntries
        /\ e.keys \subseteq ToSet(e.order)
        /\ ToSet(e.order) \subseteq ToSet(compacted)
        /\ Cardinality(keys) <= MaxEntries => e = s
        /\ ~(Cardinality(keys) <= MaxEntries) => Cardinality(e.keys) = MaxEntries
    BY <1>1, <1>3, <1>4, SentEvictedProperties, Zenon
  <2>2. s.keys = keys
    OBVIOUS
  <2> HIDE DEF e, s
  <2> QED
    BY <1>5, <2>1, <2>2 DEF e, s
<1>7. Cardinality(ToSet(r.order)) <= 2 * MaxEntries
  <2>1. ToSet(compacted) \in SUBSET SentHash
    BY <1>4, ToSetBound
  <2>2. Cardinality(ToSet(r.order)) <= Cardinality(ToSet(compacted))
    BY <1>6, <2>1, KeysFinite, FS_Subset
  <2>3. Cardinality(ToSet(r.order)) \in Nat /\ Cardinality(ToSet(compacted)) \in Nat
    BY <1>6, <2>1, KeysFinite
  <2> QED
    BY <1>0, <1>4, <2>2, <2>3
<1>8. (h \in sent.keys \/ Cardinality(sent.keys) < MaxEntries)
        <=> Cardinality(keys) <= MaxEntries
  BY <1>0, <1>1
<1> QED
  BY <1>6, <1>7, <1>8 DEF keys, r

-----------------------------------------------------------------------------
(* The invariant.                                                          *)

\* The empty memory satisfies the invariant.
LEMMA InitEstablishes == Init => IInv
<1> SUFFICES ASSUME Init PROVE IInv
  OBVIOUS
<1>1. sent = [keys |-> {}, order |-> <<>>]
  BY DEF Init, EmptySent
<1>2. ToSet(sent.order) = {}
  BY <1>1 DEF ToSet
<1>3. Cardinality(sent.keys) = 0 /\ Cardinality(ToSet(sent.order)) = 0
  BY <1>1, <1>2, FS_EmptySet
<1>4. sent.order \in Seq(SentHash)
  BY <1>1, EmptySeq
<1> QED
  BY <1>1, <1>2, <1>3, <1>4, MaxEntriesType
    DEF IInv, TypeOK, CapacityHeld, OrderCoversKeys, DistinctOrderBounded

\* An insert keeps the invariant, and so does a remove.
LEMMA StepPreserves == IInv /\ [Next]_sent => IInv'
<1> SUFFICES ASSUME IInv, [Next]_sent PROVE IInv'
  OBVIOUS
<1> USE DEF IInv
<1>1. ASSUME NEW h \in SentHash, InsertHash(h) PROVE IInv'
  <2>1. sent' = SentInserted(sent, h)
    BY <1>1 DEF InsertHash
  <2>2. /\ sent' \in [keys : SUBSET SentHash, order : Seq(SentHash)]
        /\ Cardinality(sent'.keys) <= MaxEntries
        /\ sent'.keys \subseteq ToSet(sent'.order)
        /\ Cardinality(ToSet(sent'.order)) <= 2 * MaxEntries
    BY <2>1, SentInsertedProperties DEF TypeOK
  <2> QED
    BY <2>2 DEF TypeOK, CapacityHeld, OrderCoversKeys, DistinctOrderBounded
<1>2. ASSUME NEW h \in SentHash, RemoveHash(h) PROVE IInv'
  <2>1. /\ sent'.keys = sent.keys \ {h} /\ sent'.order = sent.order
        /\ sent' \in [keys : SUBSET SentHash, order : Seq(SentHash)]
    BY <1>2 DEF RemoveHash, SentRemoved, TypeOK
  <2>2. IsFiniteSet(sent.keys) /\ Cardinality(sent.keys) \in Nat
        /\ Cardinality(sent'.keys) \in Nat
    BY <2>1, KeysFinite DEF TypeOK
  <2>3. Cardinality(sent'.keys) <= Cardinality(sent.keys)
    BY <2>1, <2>2, FS_Subset
  <2> QED
    BY <2>1, <2>2, <2>3, MaxEntriesType
      DEF TypeOK, CapacityHeld, OrderCoversKeys, DistinctOrderBounded
<1>3. CASE UNCHANGED sent
  BY <1>3 DEF TypeOK, CapacityHeld, OrderCoversKeys, DistinctOrderBounded
<1> QED
  BY <1>1, <1>2, <1>3 DEF Next

\* The four conjuncts hold in every state.
THEOREM Invariance == Spec => []IInv
BY InitEstablishes, StepPreserves, PTL DEF Spec

\* Type correctness.
THEOREM TypeCorrect == Spec => []TypeOK
<1>1. IInv => TypeOK
  BY DEF IInv
<1> QED
  BY <1>1, Invariance, PTL

\* insert ends within sent_cache_max, whatever the queue contains: there is
\* always a queued key to evict (txpool_ipc.rs:75-85).
THEOREM WithinCapacity == Spec => []CapacityHeld
<1>1. IInv => CapacityHeld
  BY DEF IInv
<1> QED
  BY <1>1, Invariance, PTL

\* No remembered hash is missing from the queue (txpool_ipc.rs:66-74): stale
\* queue entries and compaction never orphan a key.
THEOREM KeysQueued == Spec => []OrderCoversKeys
<1>1. IInv => OrderCoversKeys
  BY DEF IInv
<1> QED
  BY <1>1, Invariance, PTL

\* The queue never holds more than twice the capacity of different hashes.
THEOREM QueueVarietyBounded == Spec => []DistinctOrderBounded
<1>1. IInv => DistinctOrderBounded
  BY DEF IInv
<1> QED
  BY <1>1, Invariance, PTL

-----------------------------------------------------------------------------
(* What the queue tells of the order in which the keys were recorded: how  *)
(* appending, compacting and popping change Earlier and Twice.             *)

\* A hash appended comes after all others, and no other pair changes.
LEMMA AppendEarlier ==
    ASSUME NEW o \in Seq(SentHash), NEW h \in SentHash
    PROVE  /\ \A g, k \in SentHash :
                Earlier(Append(o, h), g, k) <=> g # h /\ (k = h \/ Earlier(o, g, k))
           /\ \A g \in SentHash :
                Twice(Append(o, h), g) <=> Twice(o, g) \/ (g = h /\ h \in ToSet(o))
           /\ ToSet(Append(o, h)) = ToSet(o) \cup {h}
<1> DEFINE w == Append(o, h)
           len == Len(o)
<1>1. /\ len \in Nat /\ DOMAIN o = 1..len /\ DOMAIN w = 1..(len + 1)
      /\ \A i \in 1..len : w[i] = o[i]
      /\ w[len + 1] = h
  BY LenProperties, AppendProperties
<1> HIDE DEF w, len
<1>2. ASSUME NEW g \in SentHash, NEW k \in SentHash
      PROVE  Earlier(w, g, k) <=> g # h /\ (k = h \/ Earlier(o, g, k))
  <2>1. CASE g = h
    BY <1>1, <2>1 DEF Earlier
  <2>2. CASE g # h /\ k = h
    BY <1>1, <2>2 DEF Earlier
  <2>3. CASE g # h /\ k # h
    BY <1>1, <2>3 DEF Earlier
  <2> QED
    BY <2>1, <2>2, <2>3
<1>3. ASSUME NEW g \in SentHash
      PROVE  Twice(w, g) <=> Twice(o, g) \/ (g = h /\ h \in ToSet(o))
  <2>1. ASSUME Twice(w, g) PROVE Twice(o, g) \/ (g = h /\ h \in ToSet(o))
    BY <1>1, <2>1 DEF Twice, ToSet
  <2>2. ASSUME Twice(o, g) PROVE Twice(w, g)
    BY <1>1, <2>2 DEF Twice
  <2>3. ASSUME g = h, h \in ToSet(o) PROVE Twice(w, g)
    <3>1. PICK i \in 1..len : o[i] = h
      BY <1>1, <2>3 DEF ToSet
    <3>2. i \in DOMAIN w /\ len + 1 \in DOMAIN w /\ i < len + 1
      BY <1>1
    <3> QED
      BY <1>1, <2>3, <3>1, <3>2 DEF Twice
  <2> QED
    BY <2>1, <2>2, <2>3
<1>4. ToSet(w) = ToSet(o) \cup {h}
  BY <1>1 DEF ToSet
<1> QED
  BY <1>2, <1>3, <1>4 DEF w

\* Compaction keeps every entry of a key, in order, and doubles nothing.
LEMMA CompactedEarlier ==
    ASSUME NEW o \in Seq(SentHash), NEW keys \in SUBSET SentHash
    PROVE  LET w == Compacted(o, keys)
           IN  /\ \A g, k \in keys : Earlier(w, g, k) <=> Earlier(o, g, k)
               /\ \A h \in SentHash : Twice(w, h) => Twice(o, h)
               /\ ToSet(w) \subseteq ToSet(o)
<1>1. CASE Len(o) > 2 * MaxEntries
  <2> DEFINE gone == {i \in DOMAIN o : o[i] \notin keys}
             K == Kept(o, gone)
             N == Cardinality(K)
             f == Origin(o, gone)
             w == Without(o, gone)
  <2>1. Compacted(o, keys) = w
    BY <1>1 DEF Compacted, Retained
  <2>2. Len(o) \in Nat /\ DOMAIN o = 1..Len(o)
    BY LenProperties
  <2>3. K = {i \in DOMAIN o : o[i] \in keys}
    BY DEF Kept
  <2> HIDE DEF gone
  <2>4. /\ K \in SUBSET (1..Len(o)) /\ N \in Nat
        /\ f \in [1..N -> K]
        /\ \A m, n \in 1..N : m < n => f[m] < f[n]
        /\ \A i \in K : \E n \in 1..N : f[n] = i
        /\ w = [n \in 1..N |-> o[f[n]]]
    BY WithoutOrigin
  <2> HIDE DEF K, N, f, w
  <2>5. DOMAIN w = 1..N /\ \A n \in 1..N : w[n] = o[f[n]] /\ f[n] \in DOMAIN o
    BY <2>2, <2>4
  <2>6. \A m, n \in 1..N : f[m] < f[n] => m < n
    <3>1. \A i \in K : i \in Nat
      BY <2>2, <2>4
    <3>2. \A m \in 1..N : f[m] \in Nat
      BY <2>4, <3>1
    <3> SUFFICES ASSUME NEW m \in 1..N, NEW n \in 1..N, f[m] < f[n], ~(m < n) PROVE FALSE
      OBVIOUS
    <3>3. m = n \/ n < m
      BY <2>4
    <3>4. f[m] \in Nat /\ f[n] \in Nat
      BY <3>2
    <3> QED
      BY <2>4, <3>3, <3>4
  <2>7. ASSUME NEW g \in keys, NEW k \in keys, Earlier(w, g, k) PROVE Earlier(o, g, k)
    <3>1. PICK n \in 1..N : w[n] = k /\ \A m \in 1..N : w[m] = g => m < n
      BY <2>5, <2>7 DEF Earlier
    <3>2. ASSUME NEW i \in DOMAIN o, o[i] = g PROVE i < f[n]
      <4>1. PICK m \in 1..N : f[m] = i
        BY <2>3, <2>4, <3>2
      <4> QED
        BY <2>4, <2>5, <3>1, <3>2, <4>1
    <3> QED
      BY <2>5, <3>1, <3>2 DEF Earlier
  <2>8. ASSUME NEW g \in keys, NEW k \in keys, Earlier(o, g, k) PROVE Earlier(w, g, k)
    <3>1. PICK j \in DOMAIN o : o[j] = k /\ \A i \in DOMAIN o : o[i] = g => i < j
      BY <2>8 DEF Earlier
    <3>2. PICK n \in 1..N : f[n] = j
      BY <2>3, <2>4, <3>1
    <3>3. ASSUME NEW m \in 1..N, w[m] = g PROVE m < n
      BY <2>5, <2>6, <3>1, <3>2, <3>3
    <3> QED
      BY <2>5, <3>1, <3>2, <3>3 DEF Earlier
  <2>9. ASSUME NEW h \in SentHash, Twice(w, h) PROVE Twice(o, h)
    <3>1. PICK m \in 1..N, n \in 1..N : m < n /\ w[m] = h /\ w[n] = h
      BY <2>5, <2>9 DEF Twice
    <3> QED
      BY <2>4, <2>5, <3>1 DEF Twice
  <2>10. ToSet(w) \subseteq ToSet(o)
    BY <2>5 DEF ToSet
  <2> QED
    BY <2>1, <2>7, <2>8, <2>9, <2>10
<1>2. CASE ~(Len(o) > 2 * MaxEntries)
  BY <1>2 DEF Compacted
<1> QED
  BY <1>1, <1>2

\* Popping a prefix keeps the order of what the rest still names.
LEMMA DroppedEarlier ==
    ASSUME NEW o \in Seq(SentHash), NEW n \in DOMAIN o
    PROVE  LET w == Dropped(o, n)
           IN  /\ \A g, k \in SentHash : g \in ToSet(w) =>
                    (Earlier(w, g, k) <=> Earlier(o, g, k))
               /\ \A h \in SentHash : Twice(w, h) => Twice(o, h)
               /\ \A h \in ToSet(w) : \E i \in DOMAIN o : n < i /\ o[i] = h
<1> DEFINE w == Dropped(o, n)
<1>1. Len(o) \in Nat /\ DOMAIN o = 1..Len(o) /\ n \in Nat
  BY LenProperties
<1>2. /\ w \in Seq(SentHash) /\ Len(w) = Len(o) - n
      /\ \A i \in 1..Len(w) : w[i] = o[n + i]
  BY <1>1, DroppedProperties
<1> HIDE DEF w
<1>3. DOMAIN w = 1..Len(w) /\ Len(w) \in Nat
  BY <1>2, LenProperties
<1>4. /\ \A i \in DOMAIN w : n + i \in DOMAIN o /\ w[i] = o[n + i]
      /\ \A j \in DOMAIN o : n < j => j - n \in DOMAIN w /\ w[j - n] = o[j]
  <2>1. \A j \in DOMAIN o : n < j => j - n \in 1..Len(w) /\ n + (j - n) = j
    BY <1>1, <1>2, <1>3
  <2> QED
    BY <1>1, <1>2, <1>3, <2>1
<1>5. ASSUME NEW g \in SentHash, NEW k \in SentHash, Earlier(w, g, k) PROVE Earlier(o, g, k)
  <2>1. PICK j \in DOMAIN w : w[j] = k /\ \A i \in DOMAIN w : w[i] = g => i < j
    BY <1>5 DEF Earlier
  <2>2. ASSUME NEW i \in DOMAIN o, o[i] = g PROVE i < n + j
    <3>1. CASE n < i
      <4>1. i - n < j
        BY <1>4, <2>1, <2>2, <3>1
      <4> QED
        BY <1>1, <1>3, <2>1, <4>1
    <3>2. CASE ~(n < i)
      BY <1>1, <1>3, <2>1, <3>2
    <3> QED
      BY <3>1, <3>2
  <2> QED
    BY <1>4, <2>1, <2>2 DEF Earlier
<1>6. ASSUME NEW g \in SentHash, NEW k \in SentHash, g \in ToSet(w), Earlier(o, g, k)
      PROVE  Earlier(w, g, k)
  <2>1. PICK j \in DOMAIN o : o[j] = k /\ \A i \in DOMAIN o : o[i] = g => i < j
    BY <1>6 DEF Earlier
  <2>2. PICK m \in DOMAIN w : w[m] = g
    BY <1>6 DEF ToSet
  <2>3. n + m < j
    BY <1>4, <2>1, <2>2
  <2>4. n < j
    BY <1>1, <1>3, <2>2, <2>3
  <2>5. ASSUME NEW i \in DOMAIN w, w[i] = g PROVE i < j - n
    <3>1. n + i < j
      BY <1>4, <2>1, <2>5
    <3> QED
      BY <1>1, <1>3, <3>1
  <2> QED
    BY <1>4, <2>1, <2>4, <2>5 DEF Earlier
<1>7. ASSUME NEW h \in SentHash, Twice(w, h) PROVE Twice(o, h)
  <2>1. PICK i \in DOMAIN w, j \in DOMAIN w : i < j /\ w[i] = h /\ w[j] = h
    BY <1>7 DEF Twice
  <2>2. n + i < n + j
    BY <1>1, <1>3, <2>1
  <2> QED
    BY <1>4, <2>1, <2>2 DEF Twice
<1>8. ASSUME NEW h \in ToSet(w) PROVE \E i \in DOMAIN o : n < i /\ o[i] = h
  <2>1. PICK i \in DOMAIN w : w[i] = h
    BY <1>8 DEF ToSet
  <2>2. n < n + i
    BY <1>1, <1>3, <2>1
  <2> QED
    BY <1>4, <2>1, <2>2
<1> QED
  BY <1>5, <1>6, <1>7, <1>8 DEF w

-----------------------------------------------------------------------------
(* The cache implements the window of DedupWindow.                         *)

Older(s) == {e \in s.keys \X s.keys : Earlier(s.order, e[1], e[2])}
Leftover(s) == {h \in ToSet(s.order) : h \notin s.keys \/ Twice(s.order, h)}

\* The two specifications count alike.
LEMMA WindowCardinality == \A S : Window!Cardinality(S) = Cardinality(S)
BY Zenon DEF Window!Cardinality, Cardinality

\* The empty memory is the empty window.
LEMMA InitMaps == Init => Window!Start
<1> SUFFICES ASSUME Init PROVE Window!Start
  OBVIOUS
<1>1. sent.keys = {} /\ sent.order = <<>>
  BY DEF Init, EmptySent
<1>2. ToSet(sent.order) = {}
  BY <1>1 DEF ToSet
<1> QED
  BY <1>1, <1>2 DEF Window!Start

\* Forgetting a hash is an erasure: its entry stays in the queue.
LEMMA RemoveMaps ==
    ASSUME IInv, NEW h \in SentHash, RemoveHash(h)
    PROVE  Window!Erase(h)
<1>1. /\ sent'.keys = sent.keys \ {h} /\ sent'.order = sent.order
      /\ sent.keys \subseteq ToSet(sent.order)
  BY DEF IInv, RemoveHash, SentRemoved, TypeOK, OrderCoversKeys
<1>2. Older(sent') = Older(sent) \cap (sent'.keys \X sent'.keys)
  BY <1>1 DEF Older
<1>3. Leftover(sent') = Leftover(sent) \cup ({h} \cap sent.keys)
  BY <1>1 DEF Leftover
<1> QED
  BY <1>1, <1>2, <1>3 DEF Window!Erase, Older, Leftover

\* The cache with h in it and nothing evicted: as old as before, but for h.
LEMMA RecordedMaps ==
    ASSUME IInv, NEW h \in SentHash
    PROVE  LET q == SentRecorded(sent, h)
           IN  /\ q.keys = sent.keys \cup {h} /\ q.keys \subseteq ToSet(q.order)
               /\ q.keys \in SUBSET SentHash /\ q.order \in Seq(SentHash)
               /\ q = [keys |-> q.keys, order |-> q.order]
               /\ h \in sent.keys => Older(q) = Older(sent)
               /\ h \notin sent.keys => Older(q) = Older(sent) \cup (sent.keys \X {h})
               /\ \A g \in ToSet(q.order) :
                    (g \notin q.keys \/ Twice(q.order, g)) => g \in Leftover(sent)
<1> DEFINE keys == sent.keys \cup {h}
           order == IF h \in sent.keys THEN sent.order ELSE Append(sent.order, h)
           compacted == Compacted(order, keys)
           q == SentRecorded(sent, h)
<1>1. q = [keys |-> keys, order |-> compacted]
  BY DEF SentRecorded
<1>2. /\ sent.keys \in SUBSET SentHash /\ sent.order \in Seq(SentHash)
      /\ sent.keys \subseteq ToSet(sent.order) /\ keys \in SUBSET SentHash
  BY DEF IInv, TypeOK, OrderCoversKeys
<1>3. /\ order \in Seq(SentHash) /\ keys \subseteq ToSet(order)
      /\ ToSet(order) = ToSet(sent.order) \cup {h}
  <2>1. CASE h \in sent.keys
    BY <1>2, <2>1
  <2>2. CASE h \notin sent.keys
    <3>1. Append(sent.order, h) \in Seq(SentHash)
      BY <1>2, AppendProperties
    <3>2. ToSet(Append(sent.order, h)) = ToSet(sent.order) \cup {h}
      BY <1>2, AppendEarlier
    <3> QED
      BY <1>2, <2>2, <3>1, <3>2
  <2> QED
    BY <2>1, <2>2
<1>4. Cardinality(keys) <= 2 * MaxEntries
  <2>1. /\ MaxEntries \in Nat /\ MaxEntries >= 1
        /\ IsFiniteSet(sent.keys) /\ Cardinality(sent.keys) \in Nat
        /\ Cardinality(sent.keys) <= MaxEntries
    BY <1>2, MaxEntriesType, KeysFinite DEF IInv, CapacityHeld
  <2>2. Cardinality(keys) \in {Cardinality(sent.keys), Cardinality(sent.keys) + 1}
    BY <2>1, FS_AddElement
  <2> QED
    BY <2>1, <2>2
<1> HIDE DEF order
<1>5. /\ compacted \in Seq(SentHash) /\ keys \cap ToSet(order) \subseteq ToSet(compacted)
      /\ \A g, k \in keys : Earlier(compacted, g, k) <=> Earlier(order, g, k)
      /\ \A g \in SentHash : Twice(compacted, g) => Twice(order, g)
      /\ ToSet(compacted) \subseteq ToSet(order)
  BY <1>2, <1>3, <1>4, CompactedProperties, CompactedEarlier
<1>6. q.keys = keys /\ q.order = compacted
  BY <1>1
<1> HIDE DEF q, compacted
<1>7. Older(q) = {e \in keys \X keys : Earlier(order, e[1], e[2])}
  BY <1>5, <1>6 DEF Older
<1>8. CASE h \in sent.keys
  <2>1. order = sent.order /\ keys = sent.keys
    BY <1>8 DEF order
  <2>2. Older(q) = Older(sent)
    BY <1>7, <2>1 DEF Older
  <2>3. \A g \in ToSet(q.order) :
          (g \notin q.keys \/ Twice(q.order, g)) => g \in Leftover(sent)
    <3>1. ToSet(sent.order) \in SUBSET SentHash
      BY <1>2, ToSetBound
    <3> QED
      BY <1>5, <1>6, <2>1, <3>1 DEF Leftover
  <2> QED
    BY <1>1, <1>2, <1>3, <1>5, <1>6, <1>8, <2>2, <2>3
<1>9. CASE h \notin sent.keys
  <2>1. order = Append(sent.order, h)
    BY <1>9 DEF order
  <2>2. /\ \A g, k \in SentHash :
             Earlier(order, g, k) <=> g # h /\ (k = h \/ Earlier(sent.order, g, k))
        /\ \A g \in SentHash :
             Twice(order, g) <=> Twice(sent.order, g) \/ (g = h /\ h \in ToSet(sent.order))
    BY <1>2, <2>1, AppendEarlier
  <2>3. Older(q) = Older(sent) \cup (sent.keys \X {h})
    <3>1. ASSUME NEW g \in keys, NEW k \in keys
          PROVE  <<g, k>> \in Older(q) <=> <<g, k>> \in Older(sent) \cup (sent.keys \X {h})
      <4>1. <<g, k>> \in Older(q) <=> g # h /\ (k = h \/ Earlier(sent.order, g, k))
        BY <1>2, <1>7, <2>2, <3>1
      <4>2. CASE k = h
        BY <1>9, <4>1, <4>2 DEF Older
      <4>3. CASE k # h
        BY <1>9, <4>1, <4>3 DEF Older
      <4> QED
        BY <4>2, <4>3
    <3>2. Older(q) \in SUBSET (keys \X keys)
      BY <1>7
    <3>3. Older(sent) \cup (sent.keys \X {h}) \in SUBSET (keys \X keys)
      BY DEF Older
    <3> HIDE DEF keys
    <3> QED
      BY <3>1, <3>2, <3>3
  <2>4. \A g \in ToSet(q.order) :
          (g \notin q.keys \/ Twice(q.order, g)) => g \in Leftover(sent)
    <3> SUFFICES ASSUME NEW g \in ToSet(q.order), g \notin q.keys \/ Twice(q.order, g)
                 PROVE  g \in Leftover(sent)
      OBVIOUS
    <3>1. g \in ToSet(sent.order) \cup {h} /\ g \in SentHash
      BY <1>2, <1>3, <1>5, <1>6, ToSetBound
    <3>2. CASE g \notin q.keys
      BY <1>6, <3>1, <3>2 DEF Leftover
    <3>3. CASE Twice(q.order, g)
      <4>1. Twice(sent.order, g) \/ (g = h /\ h \in ToSet(sent.order))
        BY <1>5, <1>6, <2>2, <3>1, <3>3
      <4>2. CASE Twice(sent.order, g)
        BY <4>2 DEF Leftover, Twice, ToSet
      <4>3. CASE g = h /\ h \in ToSet(sent.order)
        BY <1>9, <4>3 DEF Leftover
      <4> QED
        BY <4>1, <4>2, <4>3
    <3> QED
      BY <3>2, <3>3
  <2>5. q = [keys |-> q.keys, order |-> q.order]
    BY <1>1, <1>6
  <2>6. keys \subseteq ToSet(compacted)
    BY <1>3, <1>5
  <2> QED
    BY <1>2, <1>5, <1>6, <1>9, <2>3, <2>4, <2>5, <2>6 DEF q
<1> QED
  BY <1>8, <1>9

\* An insert finds the hash known, adds it, or replaces another, or itself,
\* by it: the victim is the key whose first entry is the first in the queue, so
\* that it is the oldest if that entry is its only one.
LEMMA InsertMaps ==
    ASSUME IInv, NEW h \in SentHash, InsertHash(h)
    PROVE  Window!Known(h) \/ Window!Add(h) \/ \E g \in SentHash : Window!Replace(h, g)
<1> DEFINE q == SentRecorded(sent, h)
<1>1. sent' = SentEvicted(q)
  BY DEF InsertHash, SentInserted
<1>2. /\ q.keys = sent.keys \cup {h} /\ q.keys \subseteq ToSet(q.order)
      /\ q.keys \in SUBSET SentHash /\ q.order \in Seq(SentHash)
      /\ q = [keys |-> q.keys, order |-> q.order]
      /\ h \in sent.keys => Older(q) = Older(sent)
      /\ h \notin sent.keys => Older(q) = Older(sent) \cup (sent.keys \X {h})
      /\ \A g \in ToSet(q.order) :
           (g \notin q.keys \/ Twice(q.order, g)) => g \in Leftover(sent)
  BY RecordedMaps
<1> HIDE DEF q
<1>3. /\ MaxEntries \in Nat /\ MaxEntries >= 1
      /\ Cardinality(sent.keys) \in Nat /\ Cardinality(sent.keys) <= MaxEntries
      /\ Cardinality(q.keys) =
            IF h \in sent.keys THEN Cardinality(sent.keys) ELSE Cardinality(sent.keys) + 1
  BY <1>2, MaxEntriesType, KeysFinite, FS_AddElement DEF IInv, TypeOK, CapacityHeld
<1> DEFINE keys == q.keys
           order == q.order
<1>4. /\ sent'.keys \subseteq ToSet(sent'.order) /\ sent'.order \in Seq(SentHash)
      /\ sent'.keys \in SUBSET SentHash
      /\ IF Cardinality(keys) <= MaxEntries
         THEN sent' = q
         ELSE \E n \in DOMAIN order :
                 /\ order[n] \in keys
                 /\ \A i \in 1..(n - 1) : order[i] \notin keys
                 /\ sent'.keys = keys \ {order[n]}
                 /\ sent'.order = Dropped(order, n)
  <2>1. Cardinality(keys) <= MaxEntries + 1
    BY <1>3
  <2>2. sent' = SentEvicted([keys |-> keys, order |-> order])
    BY <1>1, <1>2
  <2> HIDE DEF keys, order
  <2> DEFINE s == [keys |-> keys, order |-> order]
             e == SentEvicted(s)
  <2>3. keys \in SUBSET SentHash /\ order \in Seq(SentHash) /\ keys \subseteq ToSet(order)
    BY <1>2 DEF keys, order
  <2>4. /\ e \in [keys : SUBSET SentHash, order : Seq(SentHash)]
        /\ e.keys \subseteq ToSet(e.order)
        /\ Cardinality(keys) <= MaxEntries => e = s
        /\ ~(Cardinality(keys) <= MaxEntries) =>
             \E n \in DOMAIN order :
                /\ order[n] \in keys
                /\ \A i \in 1..(n - 1) : order[i] \notin keys
                /\ e.keys = keys \ {order[n]}
                /\ e.order = Dropped(order, n)
    BY <2>1, <2>3, SentEvictedProperties, Zenon
  <2>5. e = sent' /\ s = q
    BY <1>2, <2>2 DEF keys, order
  <2> HIDE DEF e, s
  <2> QED
    BY <2>4, <2>5 DEF keys, order
<1>5. CASE Cardinality(keys) <= MaxEntries
  <2>1. sent' = q
    BY <1>4, <1>5
  <2>2. Leftover(sent') \in SUBSET Leftover(sent)
    BY <1>2, <2>1 DEF Leftover
  <2>3. CASE h \in sent.keys
    <3>1. sent'.keys = sent.keys /\ Older(sent') = Older(sent)
      BY <1>2, <2>1, <2>3
    <3>2. Window!Known(h)
      BY <2>2, <2>3, <3>1 DEF Window!Known, Window!UsesUp, Older, Leftover
    <3> QED
      BY <3>2
  <2>4. CASE h \notin sent.keys
    <3>1. /\ sent'.keys = sent.keys \cup {h}
          /\ Older(sent') = Older(sent) \cup (sent.keys \X {h})
          /\ Cardinality(sent.keys) < MaxEntries
      BY <1>2, <1>3, <1>5, <2>1, <2>4
    <3>2. Window!Cardinality(sent.keys) < MaxEntries
      BY <3>1, WindowCardinality
    <3>3. Window!Add(h)
      BY <2>2, <2>4, <3>1, <3>2 DEF Window!Add, Window!UsesUp, Older, Leftover
    <3> QED
      BY <3>3
  <2> QED
    BY <2>3, <2>4
<1>6. CASE ~(Cardinality(keys) <= MaxEntries)
  <2>1. PICK n \in DOMAIN order :
          /\ order[n] \in keys
          /\ \A i \in 1..(n - 1) : order[i] \notin keys
          /\ sent'.keys = keys \ {order[n]}
          /\ sent'.order = Dropped(order, n)
    BY <1>4, <1>6
  <2> DEFINE g == order[n]
             w == sent'.order
  <2>2. h \notin sent.keys /\ Cardinality(sent.keys) = MaxEntries
    BY <1>3, <1>6
  <2>3. /\ \A e, k \in SentHash : e \in ToSet(w) => (Earlier(w, e, k) <=> Earlier(order, e, k))
        /\ \A e \in SentHash : Twice(w, e) => Twice(order, e)
        /\ \A e \in ToSet(w) : \E i \in DOMAIN order : n < i /\ order[i] = e
    BY <1>2, <2>1, DroppedEarlier
  <2>4. Len(order) \in Nat /\ DOMAIN order = 1..Len(order)
    BY <1>2, LenProperties
  <2>5. g \in keys /\ g \in SentHash /\ g \in ToSet(order)
    BY <1>2, <2>1
  <2>6. g \in Leftover(sent) \/ \A k \in keys \ {g} : <<g, k>> \in Older(q)
    <3>1. CASE Twice(order, g)
      BY <1>2, <2>5, <3>1
    <3>2. CASE ~Twice(order, g)
      <4> SUFFICES ASSUME NEW k \in keys \ {g} PROVE <<g, k>> \in Older(q)
        OBVIOUS
      <4>1. PICK j \in DOMAIN order : order[j] = k
        BY <1>2 DEF ToSet
      <4>2. n < j
        <5>1. j \notin 1..(n - 1) /\ j # n
          BY <2>1, <4>1
        <5> QED
          BY <2>4, <5>1
      <4>3. \A i \in DOMAIN order : order[i] = g => i = n
        <5> SUFFICES ASSUME NEW i \in DOMAIN order, order[i] = g, i # n PROVE FALSE
          OBVIOUS
        <5>1. i < n \/ n < i
          BY <2>4
        <5> QED
          BY <3>2, <5>1 DEF Twice
      <4>4. Earlier(order, g, k)
        BY <4>1, <4>2, <4>3 DEF Earlier
      <4> QED
        BY <2>5, <4>4 DEF Older
    <3> QED
      BY <3>1, <3>2
  <2>7. Leftover(sent') \in SUBSET Leftover(sent)
    <3> SUFFICES ASSUME NEW e \in ToSet(w), e \notin sent'.keys \/ Twice(w, e)
                 PROVE  e \in Leftover(sent)
      BY DEF Leftover
    <3>1. PICK i \in DOMAIN order : n < i /\ order[i] = e
      BY <2>3
    <3>2. e \in ToSet(order) /\ e \in SentHash
      BY <1>2, <3>1, ToSetBound DEF ToSet
    <3>3. CASE Twice(w, e)
      BY <1>2, <2>3, <3>2, <3>3
    <3>4. CASE e \notin sent'.keys
      <4>1. CASE e = g
        <5>1. Twice(order, e)
          BY <3>1, <4>1 DEF Twice
        <5> QED
          BY <1>2, <3>2, <5>1
      <4>2. CASE e # g
        BY <1>2, <2>1, <3>2, <3>4, <4>2
      <4> QED
        BY <4>1, <4>2
    <3> QED
      BY <3>3, <3>4
  <2>8. Older(sent') = Older(q) \cap (sent'.keys \X sent'.keys)
    <3>1. sent'.keys \subseteq keys
      BY <2>1
    <3>2. ASSUME NEW e \in sent'.keys, NEW k \in sent'.keys
          PROVE  <<e, k>> \in Older(sent') <=> <<e, k>> \in Older(q)
      <4>1. e \in ToSet(w) /\ e \in SentHash /\ k \in SentHash
        BY <1>4
      <4>2. Earlier(w, e, k) <=> Earlier(order, e, k)
        BY <2>3, <4>1
      <4> QED
        BY <3>1, <4>2 DEF Older
    <3>3. Older(sent') \in SUBSET (sent'.keys \X sent'.keys)
      BY DEF Older
    <3> QED
      BY <3>2, <3>3
  <2>9. /\ Older(q) = Older(sent) \cup (sent.keys \X {h})
        /\ keys = sent.keys \cup {h} /\ sent'.keys = keys \ {g}
    BY <1>2, <2>1, <2>2
  <2>10. Window!Cardinality(sent.keys) = MaxEntries
    BY <2>2, WindowCardinality
  <2> HIDE DEF g, w, keys, order
  <2>11. Window!Replace(h, g)
    BY <2>2, <2>5, <2>6, <2>7, <2>8, <2>9, <2>10
      DEF Window!Replace, Window!UsesUp, Older, Leftover
  <2> QED
    BY <2>5, <2>11
<1> QED
  BY <1>5, <1>6

\* Every step is a step of the window, or leaves it as it is.
LEMMA StepMaps == IInv /\ [Next]_sent => [Window!Step]_(Window!held)
<1> SUFFICES ASSUME IInv, [Next]_sent PROVE [Window!Step]_(Window!held)
  OBVIOUS
<1>1. ASSUME NEW h \in SentHash, InsertHash(h) PROVE Window!Step
  BY <1>1, InsertMaps DEF Window!Step
<1>2. ASSUME NEW h \in SentHash, RemoveHash(h) PROVE Window!Step
  BY <1>2, RemoveMaps DEF Window!Step
<1>3. CASE UNCHANGED sent
  BY <1>3 DEF Window!held
<1> QED
  BY <1>1, <1>2, <1>3 DEF Next

\* Every behaviour of the cache is one of the window: a hash is pushed out only
\* from a full cache, one at a time, and it is the one recorded first, unless an
\* earlier life of it has left an entry in the queue.
THEOREM Implementation == Spec => ImplementsWindow
<1>1. Init => Window!Start
  BY InitMaps
<1>2. IInv /\ [Next]_sent => [Window!Step]_(Window!held)
  BY StepMaps
<1> QED
  BY <1>1, <1>2, Invariance, PTL DEF Spec, ImplementsWindow, Window!Spec

=============================================================================

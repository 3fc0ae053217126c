--------------------------- MODULE IpcLoopProofs ---------------------------
(***************************************************************************)
(* What holds of IpcLoop for every set of transactions, every capacity,    *)
(* TTL and counter span, and all bounds of the model: types, what /health  *)
(* tells of the connection, of the dedup memory and of the pairing pool,   *)
(* that no bid is sent before its target, that the counters, each bumped   *)
(* where the code counts, account for everything, that on an unbroken      *)
(* connection nothing outlives its transaction and only echoes are passed  *)
(* over, and that the loop returns only when told to.                      *)
(***************************************************************************)
EXTENDS IpcLoop, MetricsOpsProofs, PendingPoolOpsProofs

-----------------------------------------------------------------------------
(* What the loop counts.                                                   *)

\* What the loop makes of a sound result: the counters move, the pairing gauges
\* are set to what the new pool holds.
LEMMA InsertMetrics ==
    ASSUME NEW m \in Metrics, NEW expired \in Int, NEW h, NEW seen, NEW r, Sound(r)
    PROVE  LET counted == CountSkips(RecordInsert(RecordEvent(m, "insert")), h, seen)
               n == SetGauges(CountPairs(counted, expired, r), r.pool)
           IN  /\ n \in Metrics
               /\ n.ipcState = m.ipcState /\ n.sentCache = m.sentCache
               /\ n.backrunPending = r.pool.pendingCount
               /\ n.backrunCache = Cardinality(Cached(r.pool))
<1> DEFINE m1 == RecordEvent(m, "insert")
           m2 == RecordInsert(m1)
           m3 == CountSkips(m2, h, seen)
           m4 == AddBackrunExpired(m3, expired)
           m5 == AddBackrunPairs(m4, r.matched)
           m6 == AddBackrunPended(m5, r.pended)
           m7 == AddBackrunEvicted(m6, r.evicted)
           m8 == SetBackrunPending(m7, r.pool.pendingCount)
           m9 == SetBackrunCache(m8, Cardinality(Cached(r.pool)))
<1>0. /\ r.matched \in Int /\ r.pended \in Int /\ r.evicted \in Int
      /\ r.pool.pendingCount \in Nat /\ Cardinality(Cached(r.pool)) \in Nat
      /\ "insert" \in EventKind
  <2>1. Cached(r.pool) \in SUBSET Hash
    BY CachedType DEF Sound, Core
  <2> QED
    BY <2>1, HashFinite, PoolFields DEF Sound, Core, EventKind
<1>1. m1 \in Metrics /\ SameGauges(m1, m)
  BY <1>0, CountingType
<1> HIDE DEF m1
<1>2. m2 \in Metrics /\ SameGauges(m2, m1)
  BY <1>1, CountingType
<1> HIDE DEF m2
<1>3. m3 \in Metrics /\ SameGauges(m3, m2)
  BY <1>2, CountingType DEF CountSkips, SameGauges
<1> HIDE DEF m3
<1>4. m4 \in Metrics /\ SameGauges(m4, m3)
  BY <1>3, CountingType
<1> HIDE DEF m4
<1>5. m5 \in Metrics /\ SameGauges(m5, m4)
  BY <1>0, <1>4, CountingType
<1> HIDE DEF m5
<1>6. m6 \in Metrics /\ SameGauges(m6, m5)
  BY <1>0, <1>5, CountingType
<1> HIDE DEF m6
<1>7. m7 \in Metrics /\ SameGauges(m7, m6)
  BY <1>0, <1>6, CountingType
<1> HIDE DEF m7
<1>8. m7.ipcState = m.ipcState /\ m7.sentCache = m.sentCache
  BY <1>1, <1>2, <1>3, <1>4, <1>5, <1>6, <1>7 DEF SameGauges
<1>9. /\ m8 \in Metrics
      /\ m8.ipcState = m7.ipcState /\ m8.sentCache = m7.sentCache
      /\ m8.backrunPending = r.pool.pendingCount
  <2> DEFINE k == r.pool.pendingCount
  <2>1. k \in Nat /\ "disabled" \in IpcState
    BY <1>0 DEF IpcState
  <2> HIDE DEF k
  <2>2. /\ SetBackrunPending(m7, k) \in Metrics
        /\ SetBackrunPending(m7, k).ipcState = m7.ipcState
        /\ SetBackrunPending(m7, k).sentCache = m7.sentCache
        /\ SetBackrunPending(m7, k).backrunPending = k
    BY <1>7, <2>1, SettingType
  <2> QED
    BY <2>2 DEF k
<1> HIDE DEF m8
<1>10. /\ m9 \in Metrics
       /\ m9.ipcState = m8.ipcState /\ m9.sentCache = m8.sentCache
       /\ m9.backrunPending = m8.backrunPending
       /\ m9.backrunCache = Cardinality(Cached(r.pool))
  BY <1>0, <1>9, SettingType DEF IpcState
<1>11. SetGauges(CountPairs(CountSkips(RecordInsert(RecordEvent(m, "insert")), h, seen),
                            expired, r), r.pool) = m9
  BY DEF SetGauges, CountPairs, m1, m2, m3, m4, m5, m6, m7, m8
<1> HIDE DEF m9
<1> QED
  BY <1>8, <1>9, <1>10, <1>11

-----------------------------------------------------------------------------
(* The dedup memory.                                                       *)

SentType == [keys : SUBSET Hash, order : Seq(Hash)]

\* remove drops one key.
LEMMA SentRemovedType ==
    ASSUME NEW s \in SentType, NEW h
    PROVE  SentRemoved(s, h) \in SentType /\ SentRemoved(s, h).keys = s.keys \ {h}
BY DEF SentType, SentRemoved

\* A set of hashes can be counted.
LEMMA KeysCount == ASSUME NEW K \in SUBSET Hash PROVE Cardinality(K) \in Nat
BY HashFinite

\* What is recorded is in the memory, before anything is evicted.
LEMMA SentRecordedType ==
    ASSUME NEW s \in SentType, NEW h \in Hash
    PROVE  SentRecorded(s, h) \in SentType /\ SentRecorded(s, h).keys = s.keys \cup {h}
<1> DEFINE keys == s.keys \cup {h}
           order == IF h \in s.keys THEN s.order ELSE Append(s.order, h)
<1>1. keys \in SUBSET Hash /\ order \in Seq(Hash)
  BY AppendProperties DEF SentType
<1>2. SentRecorded(s, h) = [keys |-> keys, order |-> Compacted(order, keys)]
  BY DEF SentRecorded
<1> HIDE DEF keys, order
<1>3. Compacted(order, keys) \in Seq(Hash)
  BY <1>1, WithoutType DEF Compacted, Retained
<1> QED
  BY <1>1, <1>2, <1>3 DEF SentType, keys

\* Eviction pops up to the first entry of a key, which is the one key it takes
\* out and counts.
LEMMA SentPopped ==
    ASSUME NEW q \in SentType
    PROVE  LET n == SentOverflow(q)
               hits == {i \in 1..n : q.order[i] \in q.keys}
               gone == {q.order[i] : i \in 1..n}
           IN  /\ n \in Nat
               /\ \/ hits = {} /\ q.keys \ gone = q.keys
                  \/ \E i \in 1..n : /\ hits = {i} /\ q.order[i] \in q.keys
                                     /\ q.keys \ gone = q.keys \ {q.order[i]}
<1> DEFINE present == {i \in DOMAIN q.order : q.order[i] \in q.keys}
           n == SentOverflow(q)
<1>1. /\ q.order \in Seq(Hash) /\ Len(q.order) \in Nat /\ DOMAIN q.order = 1..Len(q.order)
  BY LenProperties DEF SentType
<1>2. n = FirstOf(present, Len(q.order))
  BY DEF SentOverflow
<1>3. present \in SUBSET (1..Len(q.order))
  BY <1>1
<1>4. \A i \in 1..Len(q.order) : i \in present <=> q.order[i] \in q.keys
  BY <1>1
<1> HIDE DEF n, present
<1>5. /\ n \in Nat /\ (present # {} => n \in 1..Len(q.order))
      /\ (present = {} => n = Len(q.order)) /\ \A j \in present : n <= j
  BY <1>1, <1>2, <1>3, FirstOfRange
<1>6. CASE present = {}
  <2>1. \A i \in 1..n : q.order[i] \notin q.keys
    BY <1>4, <1>5, <1>6
  <2> QED
    BY <1>5, <2>1 DEF n
<1>7. CASE present # {}
  <2>1. n \in present /\ n \in 1..n
    <3>1. present \in SUBSET Nat
      BY <1>3
    <3> QED
      BY <1>2, <1>5, <1>7, <3>1, FirstOfLeast
  <2>2. \A i \in 1..n : q.order[i] \in q.keys <=> i = n
    BY <1>4, <1>5, <1>7, <2>1
  <2> QED
    BY <1>5, <2>1, <2>2 DEF n
<1> QED
  BY <1>6, <1>7

\* insert adds one key, and may evict others: as many as it returns.
LEMMA SentInsertedType ==
    ASSUME NEW s \in SentType, NEW h \in Hash
    PROVE  /\ SentInserted(s, h) \in SentType
           /\ SentInserted(s, h).keys \subseteq s.keys \cup {h}
           /\ SentEvictions(s, h) \in Nat
           /\ h \notin s.keys =>
                Cardinality(SentInserted(s, h).keys) + SentEvictions(s, h)
                  = Cardinality(s.keys) + 1
<1> DEFINE q == SentRecorded(s, h)
           n == SentOverflow(q)
           hits == {i \in 1..n : q.order[i] \in q.keys}
           gone == {q.order[i] : i \in 1..n}
           over == OverCapacity(Cardinality(q.keys), MaxEntries)
<1>1. q \in SentType /\ q.keys = s.keys \cup {h}
  BY SentRecordedType
<1>2. /\ SentInserted(s, h) = IF over THEN [keys |-> q.keys \ gone, order |-> Dropped(q.order, n)]
                                      ELSE q
      /\ SentEvictions(s, h) = IF over THEN Cardinality(hits) ELSE 0
  BY DEF SentInserted, SentEvicted, SentEvictions
<1> HIDE DEF q, over
<1>3. /\ n \in Nat
      /\ \/ hits = {} /\ q.keys \ gone = q.keys
         \/ \E i \in 1..n : hits = {i} /\ q.order[i] \in q.keys /\ q.keys \ gone = q.keys \ {q.order[i]}
  BY <1>1, SentPopped
<1> HIDE DEF n, hits, gone
<1>4. q.keys \in SUBSET Hash /\ q.order \in Seq(Hash) /\ s.keys \in SUBSET Hash
  BY <1>1 DEF SentType
<1>5. Dropped(q.order, n) \in Seq(Hash)
  BY <1>3, <1>4, DroppedProperties
<1>6. SentInserted(s, h) \in SentType /\ SentInserted(s, h).keys \subseteq q.keys
  BY <1>1, <1>2, <1>4, <1>5 DEF SentType
<1>7. Cardinality(q.keys) \in Nat /\ IsFiniteSet(q.keys) /\ Cardinality(s.keys) \in Nat
  BY <1>4, HashFinite
<1>8. /\ Cardinality(hits) \in Nat
      /\ Cardinality(q.keys \ gone) + Cardinality(hits) = Cardinality(q.keys)
  <2>1. CASE hits = {} /\ q.keys \ gone = q.keys
    BY <1>7, <2>1, FS_EmptySet
  <2>2. ASSUME NEW i \in 1..n, hits = {i}, q.order[i] \in q.keys,
               q.keys \ gone = q.keys \ {q.order[i]}
        PROVE  /\ Cardinality(hits) \in Nat
               /\ Cardinality(q.keys \ gone) + Cardinality(hits) = Cardinality(q.keys)
    <3>1. Cardinality(hits) = 1
      BY <2>2, FS_Singleton
    <3>2. Cardinality(q.keys \ gone) = Cardinality(q.keys) - 1
      <4>1. Cardinality(q.keys \ {q.order[i]}) = Cardinality(q.keys) - 1
        BY <1>7, <2>2, FS_RemoveElement
      <4> QED
        BY <2>2, <4>1
    <3>3. Cardinality(q.keys) \in Nat
      BY <1>7
    <3> QED
      BY <3>1, <3>2, <3>3
  <2> QED
    BY <1>3, <2>1, <2>2
<1>9. h \notin s.keys => Cardinality(q.keys) = Cardinality(s.keys) + 1
  BY <1>1, <1>4, HashFinite, FS_AddElement
<1>10. SentEvictions(s, h) \in Nat
  BY <1>2, <1>8
<1>11. Cardinality(SentInserted(s, h).keys) + SentEvictions(s, h) = Cardinality(q.keys)
  <2>1. CASE over
    BY <1>2, <1>8, <2>1
  <2>2. CASE ~over
    BY <1>2, <1>7, <2>2
  <2> QED
    BY <2>1, <2>2
<1>12. SentInserted(s, h).keys \subseteq s.keys \cup {h}
  BY <1>1, <1>6
<1>13. h \notin s.keys => Cardinality(SentInserted(s, h).keys) + SentEvictions(s, h)
                            = Cardinality(s.keys) + 1
  BY <1>9, <1>11
<1> QED
  BY <1>6, <1>10, <1>12, <1>13

-----------------------------------------------------------------------------
(* The invariant.                                                          *)

\* MetricsTell without the snapshot, which copies what it shows.
Told ==
    /\ pc = "live" => metrics.ipcState = "connected"
    /\ pc \in {"connect", "sleep"} => metrics.ipcState = "connecting"
    /\ pc = "stopped" => metrics.ipcState = "disabled"
    /\ metrics.sentCache = Cardinality(sent.keys)

LEMMA ToldIsMetricsTell == Told <=> MetricsTell
BY DEF Told, MetricsTell, Snapshot

IInv == TypeOK /\ Keeps(pool) /\ Told /\ GaugesNeverUnderstate

\* What the gauges tell stays so while neither they nor the pool change.
SameMetrics == metrics' = metrics /\ pool' = pool /\ sent' = sent

\* The sidecar's part of the state is unchanged.
LEMMA OthersKeepTold ==
    ASSUME IInv, SameMetrics, pc' = pc
    PROVE  Keeps(pool') /\ Told' /\ GaugesNeverUnderstate'
BY DEF IInv, SameMetrics, Told, GaugesNeverUnderstate

\* A change of the connection's state, and of nothing else /health shows.
LEMMA StateTold ==
    ASSUME IInv, NEW s \in IpcState, metrics' = SetIpcState(metrics, s),
           pool' = pool, sent' = sent,
           \/ pc' = "live" /\ s = "connected"
           \/ pc' = "connect" /\ s = "connecting"
           \/ pc' = "stopped" /\ s = "disabled"
    PROVE  metrics' \in Metrics /\ Keeps(pool') /\ Told' /\ GaugesNeverUnderstate'
<1>1. metrics \in Metrics
  BY DEF IInv, TypeOK
<1>2. /\ metrics' \in Metrics /\ metrics'.ipcState = s
      /\ metrics'.sentCache = metrics.sentCache
      /\ metrics'.backrunPending = metrics.backrunPending
      /\ metrics'.backrunCache = metrics.backrunCache
  BY <1>1, 0 \in Nat, SettingType
<1> QED
  BY <1>2 DEF IInv, Told, GaugesNeverUnderstate

\* The snapshot of sets of hashes the socket may still deliver.
LEMMA StillDeliveredType == TypeOK => StillDelivered \subseteq SUBSET Hash
<1> SUFFICES ASSUME TypeOK PROVE StillDelivered \subseteq SUBSET Hash
  OBVIOUS
<1>1. nodePool \subseteq Hash /\ wire \in Seq(Reinjection)
  BY DEF TypeOK
<1>2. \A n \in 0..Len(wire) : \A i \in 1..n : wire[i].hash \in Hash
  <2> SUFFICES ASSUME NEW n \in 0..Len(wire), NEW i \in 1..n PROVE wire[i].hash \in Hash
    OBVIOUS
  <2>1. i \in 1..Len(wire)
    BY <1>1, LenProperties
  <2>2. wire[i] \in Reinjection
    BY <1>1, <2>1, ElementOfSeq
  <2> QED
    BY <2>2 DEF Reinjection
<1>3. \A n \in 0..Len(wire) : nodePool \cup {wire[i].hash : i \in 1..n} \subseteq Hash
  BY <1>1, <1>2
<1> QED
  BY <1>3 DEF StillDelivered

\* A tally stays well typed when it grows.
LEMMA TalliedType ==
    ASSUME tally \in Tally, NEW what \in {"answered", "bids", "forgotten", "removed", "ended"},
           NEW n \in Int
    PROVE  Tallied(what, n) \in Tally
<1>1. Plus(tally[what], n) \in Count
  <2>1. tally[what] \in Int
    BY CounterAssumption DEF Tally, Count
  <2> QED
    BY <2>1, PlusType
<1> QED
  BY <1>1 DEF Tallied, Tally

\* Connecting.
LEMMA TopKeeps == ASSUME IInv, Top PROVE IInv'
<1>1. CASE shutdown
  <2>1. metrics' = SetIpcState(metrics, "disabled") /\ pc' = "stopped" /\ pool' = pool /\ sent' = sent
    BY <1>1 DEF Top, owned
  <2>2. metrics' \in Metrics /\ Keeps(pool') /\ Told' /\ GaugesNeverUnderstate'
    BY <2>1, StateTold DEF IpcState
  <2> QED
    BY <2>1, <2>2 DEF Top, IInv, TypeOK, owned, watch, socket, node, history
<1>2. CASE ~shutdown
  <2>1. metrics' = SetIpcState(metrics, "connecting") /\ pc' = "connect" /\ pool' = pool /\ sent' = sent
    BY <1>2 DEF Top, owned
  <2>2. metrics' \in Metrics /\ Keeps(pool') /\ Told' /\ GaugesNeverUnderstate'
    BY <2>1, StateTold DEF IpcState
  <2> QED
    BY <2>1, <2>2 DEF Top, IInv, TypeOK, owned, watch, socket, node, history
<1> QED
  BY <1>1, <1>2

LEMMA ConnectOkKeeps == ASSUME IInv, ConnectOk PROVE IInv'
<1> DEFINE m == SetIpcState(metrics, "connected")
<1>1. m \in Metrics /\ m.ipcState = "connected" /\ m.sentCache = metrics.sentCache
      /\ m.backrunPending = metrics.backrunPending /\ m.backrunCache = metrics.backrunCache
  BY 0 \in Nat, SettingType DEF IInv, TypeOK, IpcState
<1> HIDE DEF m
<1>2. metrics' = RecordReconnect(m)
  BY DEF ConnectOk, m
<1>3. metrics' \in Metrics /\ SameGauges(metrics', m)
  BY <1>1, <1>2, 0 \in Int, CountingType
<1>4. <<>> \in Seq(Event) /\ <<>> \in Seq(Reinjection)
  BY EmptySeq
<1>5. TypeOK'
  BY <1>3, <1>4 DEF ConnectOk, IInv, TypeOK, owned, watch, node, history
<1>6. Told' /\ GaugesNeverUnderstate' /\ Keeps(pool')
  BY <1>1, <1>3 DEF ConnectOk, IInv, Told, GaugesNeverUnderstate, SameGauges, owned
<1> QED
  BY <1>5, <1>6 DEF IInv

LEMMA ConnectFailsKeeps == ASSUME IInv, ConnectFails PROVE IInv'
BY DEF ConnectFails, IInv, TypeOK, Told, GaugesNeverUnderstate, owned, watch, socket, node, history

LEMMA WakeUpKeeps == ASSUME IInv, WakeUp PROVE IInv'
BY DEF WakeUp, IInv, TypeOK, Told, GaugesNeverUnderstate, owned, watch, socket, node, history

\* Waiting in select!.
LEMMA SeeShutdownKeeps == ASSUME IInv, SeeShutdown PROVE IInv'
<1>1. metrics' = SetIpcState(metrics, "disabled") /\ pc' = "stopped" /\ pool' = pool /\ sent' = sent
  BY DEF SeeShutdown, owned
<1>2. metrics' \in Metrics /\ Keeps(pool') /\ Told' /\ GaugesNeverUnderstate'
  BY <1>1, StateTold DEF IpcState
<1>3. <<>> \in Seq(Event) /\ <<>> \in Seq(Reinjection)
  BY EmptySeq
<1>4. tally' \in Tally
  BY TalliedType DEF SeeShutdown, IInv, TypeOK
<1>5. nodePool' \in SUBSET Hash
  BY StillDeliveredType DEF SeeShutdown, IInv
<1> QED
  BY <1>1, <1>2, <1>3, <1>4, <1>5 DEF SeeShutdown, IInv, TypeOK, owned

LEMMA NextBatchKeeps == ASSUME IInv, NextBatch PROVE IInv'
<1>1. PICK n \in 1..Len(inbox) : batch' = SubSeq(inbox, 1, n) /\ inbox' = Dropped(inbox, n)
  BY DEF NextBatch
<1>2. inbox \in Seq(Event) /\ Len(inbox) \in Nat /\ n \in Nat
  BY LenProperties DEF IInv, TypeOK
<1>3. batch' \in Seq(Event)
  <2>1. \A i \in 1..n : inbox[i] \in Event
    BY <1>2, ElementOfSeq
  <2> QED
    BY <1>1, <1>2, <2>1, SubSeqProperties
<1>4. inbox' \in Seq(Event)
  BY <1>1, <1>2, DroppedProperties
<1>5. Keeps(pool') /\ Told' /\ GaugesNeverUnderstate'
  BY OthersKeepTold DEF NextBatch, SameMetrics, owned
<1> QED
  BY <1>3, <1>4, <1>5 DEF NextBatch, IInv, TypeOK, owned, watch, node, history

LEMMA StreamEndsKeeps == ASSUME IInv, StreamEnds PROVE IInv'
<1>1. tally' \in Tally
  BY TalliedType DEF StreamEnds, IInv, TypeOK
<1>2. Keeps(pool') /\ Told' /\ GaugesNeverUnderstate'
  BY DEF StreamEnds, IInv, Told, GaugesNeverUnderstate, owned
<1> QED
  BY <1>1, <1>2 DEF StreamEnds, IInv, TypeOK, owned, watch, node

\* Going through a batch.
LEMMA FirstEvent ==
    ASSUME TypeOK, batch # <<>>
    PROVE  /\ Head(batch) \in Event /\ Head(batch).hash \in Hash
           /\ Tail(batch) \in Seq(Event)
<1>1. Head(batch) \in Event /\ Tail(batch) \in Seq(Event)
  BY HeadTailProperties DEF TypeOK
<1> QED
  BY <1>1 DEF Event

LEMMA IgnoreEchoKeeps == ASSUME IInv, IgnoreEcho PROVE IInv'
<1>1. batch' \in Seq(Event)
  BY FirstEvent DEF IgnoreEcho, InBatch, IInv
<1>2. metrics' \in Metrics /\ SameGauges(metrics', metrics)
  <2>1. "insert" \in EventKind
    BY DEF EventKind
  <2> QED
    BY <2>1, 0 \in Int, CountingType DEF IgnoreEcho, IInv, TypeOK
<1>3. Keeps(pool') /\ Told' /\ GaugesNeverUnderstate'
  BY <1>2 DEF IgnoreEcho, IInv, Told, GaugesNeverUnderstate, SameGauges, owned
<1> QED
  BY <1>1, <1>2, <1>3 DEF IgnoreEcho, IInv, TypeOK, owned, watch, socket, node, history

\* What prune and observe make of the pool, and what the properties ask of it.
LEMMA HandleInsertOutcome ==
    ASSUME IInv, HandleInsert
    PROVE  \E seen \in {Pruned(pool), Aged(Pruned(pool))} :
             LET h == Head(batch).hash
                 r == Observed(seen, h)
             IN  /\ h \in Hash /\ batch' \in Seq(Event)
                 /\ Core(seen) /\ Within(seen) /\ NoMissedBut({}, seen) /\ HeadLive(seen)
                 /\ seen.streamed \subseteq pool.streamed
                 /\ Sound(r) /\ Expired(pool) \in Nat
                 /\ pool' = r.pool /\ todo' = r.reinjections
                 /\ metrics' = SetGauges(CountPairs(CountSkips(
                                   RecordInsert(RecordEvent(metrics, "insert")), h, seen),
                                   Expired(pool), r), r.pool)
                 /\ tally' = [tally EXCEPT
                                !["answered"] = Plus(@, IF r.reinjections = <<>> THEN 0 ELSE 1),
                                !["bids"] = Plus(@, IF h \in Backrun THEN 1 ELSE 0)]
<1>1. PICK seen \in {Pruned(pool), Aged(Pruned(pool))} :
        LET h == Head(batch).hash
            r == Observed(seen, h)
        IN  /\ pool' = r.pool /\ todo' = r.reinjections
            /\ metrics' = SetGauges(CountPairs(CountSkips(
                              RecordInsert(RecordEvent(metrics, "insert")), h, seen),
                              Expired(pool), r), r.pool)
            /\ tally' = [tally EXCEPT
                           !["answered"] = Plus(@, IF r.reinjections = <<>> THEN 0 ELSE 1),
                           !["bids"] = Plus(@, IF h \in Backrun THEN 1 ELSE 0)]
  BY DEF HandleInsert
<1> DEFINE h == Head(batch).hash
           r == Observed(seen, h)
<1>2. h \in Hash /\ batch' \in Seq(Event)
  BY FirstEvent DEF HandleInsert, InBatch, IInv
<1>3. /\ Core(seen) /\ Within(seen) /\ NoMissedBut({}, seen) /\ HeadLive(seen)
      /\ seen.streamed \subseteq pool.streamed /\ Expired(pool) \in Nat
  BY SeenProperties, SeenMarks DEF IInv, Keeps
<1> HIDE DEF h
<1>4. Sound(r)
  BY <1>2, <1>3, ObservedSound
<1> QED
  BY <1>1, <1>2, <1>3, <1>4 DEF h

LEMMA HandleInsertKeeps == ASSUME IInv, HandleInsert PROVE IInv'
<1>1. PICK seen \in {Pruned(pool), Aged(Pruned(pool))} :
        LET h == Head(batch).hash
            r == Observed(seen, h)
        IN  /\ batch' \in Seq(Event)
            /\ Sound(r) /\ Expired(pool) \in Nat
            /\ pool' = r.pool /\ todo' = r.reinjections
            /\ metrics' = SetGauges(CountPairs(CountSkips(
                              RecordInsert(RecordEvent(metrics, "insert")), h, seen),
                              Expired(pool), r), r.pool)
            /\ tally' = [tally EXCEPT
                           !["answered"] = Plus(@, IF r.reinjections = <<>> THEN 0 ELSE 1),
                           !["bids"] = Plus(@, IF h \in Backrun THEN 1 ELSE 0)]
  BY HandleInsertOutcome
<1> DEFINE h == Head(batch).hash
           r == Observed(seen, h)
           expired == Expired(pool)
           answered == IF r.reinjections = <<>> THEN 0 ELSE 1
           bid == IF h \in Backrun THEN 1 ELSE 0
<1>2. /\ batch' \in Seq(Event) /\ Sound(r) /\ expired \in Int
      /\ pool' = r.pool /\ todo' = r.reinjections
      /\ metrics' = SetGauges(CountPairs(CountSkips(
                        RecordInsert(RecordEvent(metrics, "insert")), h, seen),
                        expired, r), r.pool)
      /\ tally' = [tally EXCEPT !["answered"] = Plus(@, answered), !["bids"] = Plus(@, bid)]
      /\ answered \in Int /\ bid \in Int
  BY <1>1
<1> HIDE DEF h, r, expired, answered, bid
<1>3. /\ metrics' \in Metrics
      /\ metrics'.ipcState = metrics.ipcState /\ metrics'.sentCache = metrics.sentCache
      /\ metrics'.backrunPending = pool'.pendingCount
      /\ metrics'.backrunCache = Cardinality(Cached(pool'))
  <2>1. metrics \in Metrics
    BY DEF IInv, TypeOK
  <2> QED
    BY <1>2, <2>1, InsertMetrics
<1>4. Keeps(pool') /\ pool' \in Pool /\ todo' \in Seq(Reinjection)
  BY <1>2 DEF Sound, Keeps, Core
<1>5. tally' \in Tally
  <2>1. tally \in Tally
    BY DEF IInv, TypeOK
  <2>2. tally["answered"] \in Int /\ tally["bids"] \in Int
    BY <2>1, CounterAssumption DEF Tally, Count
  <2>3. Plus(tally["answered"], answered) \in Count /\ Plus(tally["bids"], bid) \in Count
    BY <1>2, <2>2, PlusType
  <2> QED
    BY <1>2, <2>1, <2>3 DEF Tally
<1>6. Told' /\ GaugesNeverUnderstate'
  <2>1. pool'.pendingCount \in Nat /\ Cardinality(Cached(pool')) \in Nat
    BY <1>4, PoolFields, CachedType, KeysCount
  <2>2. pc' = pc /\ sent' = sent
    BY DEF HandleInsert
  <2> QED
    BY <1>3, <2>1, <2>2 DEF IInv, Told, GaugesNeverUnderstate
<1> QED
  BY <1>2, <1>3, <1>4, <1>5, <1>6 DEF HandleInsert, IInv, TypeOK, watch, socket, node

\* What a departure takes out of the pool can be counted.
LEMMA ForgottenBidsType ==
    ASSUME NEW p \in Pool, NEW h \in Hash
    PROVE  ForgottenBids(p, h) \in Nat
<1>1. p.pending[h] \in Seq(PendingBid)
  BY PoolFields
<1>2. Len(p.pending[h]) \in Nat
  BY <1>1, LenProperties
<1> DEFINE n == Len(p.pending[h])
           k == IF \E t \in Hash \ {h} : h \in Parked(p, t) THEN 1 ELSE 0
<1>3. n \in Nat /\ k \in {0, 1} /\ ForgottenBids(p, h) = n + k
  BY <1>2 DEF ForgottenBids
<1> HIDE DEF n, k
<1> QED
  BY <1>3

LEMMA HandleLeaveKeeps == ASSUME IInv, HandleLeave PROVE IInv'
<1> DEFINE h == Head(batch).hash
           m == RecordEvent(metrics, "leave")
           removed == IF h \in sent.keys THEN 1 ELSE 0
           forgotten == ForgottenBids(pool, h)
<1>1. /\ batch' \in Seq(Event) /\ h \in Hash
  BY FirstEvent DEF HandleLeave, InBatch, IInv
<1>2. /\ sent' = SentRemoved(sent, h) /\ pool' = Forgotten(pool, h)
      /\ metrics' = SetSentCache(m, Cardinality(sent'.keys))
      /\ tally' = [tally EXCEPT !["removed"] = Plus(@, removed),
                                !["forgotten"] = Plus(@, forgotten)]
      /\ reinjected' = reinjected \ {h} /\ abandoned' = abandoned \ {h}
      /\ survived' = (survived \ {h}) \cup (Waiting(pool') \cap {h})
  BY DEF HandleLeave
<1>3. removed \in Int /\ forgotten \in Int
  <2>1. pool \in Pool
    BY DEF IInv, TypeOK
  <2>2. forgotten \in Nat
    BY <1>1, <2>1, ForgottenBidsType
  <2> QED
    BY <2>2
<1> HIDE DEF h, removed, forgotten
<1>4. /\ Keeps(pool') /\ pool'.pendingCount <= pool.pendingCount
      /\ Cardinality(Cached(pool')) <= Cardinality(Cached(pool))
  BY <1>1, <1>2, ForgottenKeeps DEF IInv
<1>5. /\ pool' \in Pool /\ pool'.pendingCount \in Nat /\ Cardinality(Cached(pool')) \in Nat
      /\ pool.pendingCount \in Nat /\ Cardinality(Cached(pool)) \in Nat
  BY <1>4, PoolFields, CachedType, KeysCount DEF IInv, Keeps, Core
<1>6. sent' \in SentType
  BY <1>2, SentRemovedType DEF IInv, TypeOK, SentType
<1>7. Cardinality(sent'.keys) \in Nat
  BY <1>6, KeysCount DEF SentType
<1>8. m \in Metrics /\ SameGauges(m, metrics)
  <2>1. "leave" \in EventKind
    BY DEF EventKind
  <2> QED
    BY <2>1, 0 \in Int, CountingType DEF IInv, TypeOK
<1> HIDE DEF m
<1>9. /\ metrics' \in Metrics /\ metrics'.sentCache = Cardinality(sent'.keys)
      /\ metrics'.ipcState = metrics.ipcState
      /\ metrics'.backrunPending = metrics.backrunPending
      /\ metrics'.backrunCache = metrics.backrunCache
  <2>1. "disabled" \in IpcState
    BY DEF IpcState
  <2> QED
    BY <1>2, <1>7, <1>8, <2>1, SettingType DEF SameGauges
<1>10. tally' \in Tally
  <2>1. tally \in Tally
    BY DEF IInv, TypeOK
  <2>2. tally["removed"] \in Int /\ tally["forgotten"] \in Int
    BY <2>1, CounterAssumption DEF Tally, Count
  <2>3. Plus(tally["removed"], removed) \in Count /\ Plus(tally["forgotten"], forgotten) \in Count
    BY <1>3, <2>2, PlusType
  <2> QED
    BY <1>2, <2>1, <2>3 DEF Tally
<1>11. Told' /\ GaugesNeverUnderstate'
  <2>1. pc' = pc
    BY DEF HandleLeave
  <2>2. metrics.backrunPending \in Nat /\ metrics.backrunCache \in Nat
    BY DEF IInv, TypeOK, Metrics
  <2>3. Told'
    BY <1>9, <2>1 DEF IInv, Told
  <2>4. GaugesNeverUnderstate'
    BY <1>4, <1>5, <1>9, <2>2 DEF IInv, GaugesNeverUnderstate
  <2> QED
    BY <2>3, <2>4
<1>12. {reinjected', abandoned', survived'} \subseteq SUBSET Hash
  BY <1>1, <1>2 DEF IInv, TypeOK
<1> QED
  BY <1>1, <1>4, <1>5, <1>6, <1>9, <1>10, <1>11, <1>12
  DEF HandleLeave, IInv, TypeOK, SentType, watch, socket, node

\* Sending.
LEMMA FirstToSend ==
    ASSUME TypeOK, todo # <<>>
    PROVE  /\ Head(todo) \in Reinjection /\ Head(todo).hash \in Hash
           /\ Tail(todo) \in Seq(Reinjection)
<1>1. Head(todo) \in Reinjection /\ Tail(todo) \in Seq(Reinjection)
  BY HeadTailProperties DEF TypeOK
<1> QED
  BY <1>1 DEF Reinjection

LEMMA SkipSentKeeps == ASSUME IInv, SkipSent PROVE IInv'
<1>1. todo' \in Seq(Reinjection)
  BY FirstToSend DEF SkipSent, Sending, IInv
<1>2. Keeps(pool') /\ Told' /\ GaugesNeverUnderstate'
  BY OthersKeepTold DEF SkipSent, SameMetrics, owned
<1> QED
  BY <1>1, <1>2 DEF SkipSent, IInv, TypeOK, owned, watch, socket, node, history

LEMMA SendOkKeeps == ASSUME IInv, SendOk PROVE IInv'
<1> DEFINE evicted == SentEvictions(sent, Head(todo).hash)
           m == AddSentCacheEvictions(RecordPrioritized(metrics), evicted)
<1>1. todo' \in Seq(Reinjection) /\ Head(todo) \in Reinjection /\ Head(todo).hash \in Hash
  BY FirstToSend DEF SendOk, Sending, IInv
<1>2. wire' \in Seq(Reinjection)
  BY <1>1, AppendProperties DEF SendOk, IInv, TypeOK
<1>3. sent' \in SentType /\ evicted \in Nat
  BY <1>1, SentInsertedType DEF SendOk, IInv, TypeOK, SentType
<1>4. Cardinality(sent'.keys) \in Nat
  BY <1>3, KeysCount DEF SentType
<1>5. m \in Metrics /\ SameGauges(m, metrics)
  <2>1. evicted \in Int
    BY <1>3
  <2> HIDE DEF evicted
  <2>2. RecordPrioritized(metrics) \in Metrics /\ SameGauges(RecordPrioritized(metrics), metrics)
    BY 0 \in Int, CountingType DEF IInv, TypeOK
  <2>3. m \in Metrics /\ SameGauges(m, RecordPrioritized(metrics))
    BY <2>1, <2>2, CountingType
  <2> QED
    BY <2>2, <2>3 DEF SameGauges
<1>6. metrics' = SetSentCache(m, Cardinality(sent'.keys))
  BY DEF SendOk
<1> HIDE DEF m
<1>7. /\ metrics' \in Metrics /\ metrics'.sentCache = Cardinality(sent'.keys)
      /\ metrics'.ipcState = metrics.ipcState
      /\ metrics'.backrunPending = metrics.backrunPending
      /\ metrics'.backrunCache = metrics.backrunCache
  <2>1. "disabled" \in IpcState
    BY DEF IpcState
  <2> QED
    BY <1>4, <1>5, <1>6, <2>1, SettingType DEF SameGauges
<1>8. Told' /\ GaugesNeverUnderstate' /\ Keeps(pool')
  BY <1>7 DEF SendOk, IInv, Told, GaugesNeverUnderstate
<1>9. {reinjected', abandoned'} \subseteq SUBSET Hash
  BY <1>1 DEF SendOk, IInv, TypeOK
<1> QED
  BY <1>1, <1>2, <1>3, <1>7, <1>8, <1>9 DEF SendOk, IInv, TypeOK, SentType, watch, node, history

LEMMA SendFailsKeeps == ASSUME IInv, SendFails PROVE IInv'
<1>1. <<>> \in Seq(Event) /\ <<>> \in Seq(Reinjection)
  BY EmptySeq
<1>2. metrics' \in Metrics /\ SameGauges(metrics', metrics)
  BY 0 \in Int, CountingType DEF SendFails, IInv, TypeOK
<1>3. {todo[i].hash : i \in DOMAIN todo} \in SUBSET Hash
  <2> SUFFICES ASSUME NEW i \in DOMAIN todo PROVE todo[i].hash \in Hash
    OBVIOUS
  <2>1. todo \in Seq(Reinjection) /\ i \in 1..Len(todo)
    BY LenProperties DEF IInv, TypeOK
  <2>2. todo[i] \in Reinjection
    BY <2>1, ElementOfSeq
  <2> QED
    BY <2>2 DEF Reinjection
<1>4. abandoned' \in SUBSET Hash
  BY <1>3 DEF SendFails, IInv, TypeOK
<1>5. Told' /\ GaugesNeverUnderstate' /\ Keeps(pool')
  BY <1>2 DEF SendFails, IInv, Told, GaugesNeverUnderstate, SameGauges, owned
<1> QED
  BY <1>1, <1>2, <1>4, <1>5 DEF SendFails, IInv, TypeOK, owned, watch, node

\* The node, the operator and the clock.
LEMMA ReportType ==
    ASSUME TypeOK, NEW event \in Event, Report(event)
    PROVE  inbox' \in Seq(Event)
<1>1. Append(inbox, event) \in Seq(Event) /\ inbox \in Seq(Event)
  BY AppendProperties DEF TypeOK
<1>2. inbox' = Append(inbox, event) \/ inbox' = inbox
  BY DEF Report
<1> QED
  BY <1>1, <1>2

\* The bounds of the model are respected.
LEMMA SpentType ==
    /\ NothingSpent \in Spent
    /\ \A s \in Spent :
         /\ s.arrivals < MaxArrivals => [s EXCEPT !.arrivals = @ + 1] \in Spent
         /\ s.departures < MaxDepartures => [s EXCEPT !.departures = @ + 1] \in Spent
         /\ s.breaks < MaxBreaks => [s EXCEPT !.breaks = @ + 1] \in Spent
<1>1. MaxArrivals \in Nat /\ MaxDepartures \in Nat /\ MaxBreaks \in Nat
  BY LoopAssumption
<1> QED
  BY <1>1 DEF NothingSpent, Spent

LEMMA SidecarKeepsTold ==
    ASSUME IInv, UNCHANGED sidecar
    PROVE  Keeps(pool') /\ Told' /\ GaugesNeverUnderstate'
BY DEF IInv, Told, GaugesNeverUnderstate, sidecar, task, owned

LEMMA NodeStartsKeeps == ASSUME IInv, NodeStarts PROVE IInv'
<1>1. Keeps(pool') /\ Told' /\ GaugesNeverUnderstate'
  BY SidecarKeepsTold DEF NodeStarts
<1> QED
  BY <1>1 DEF NodeStarts, IInv, TypeOK, sidecar, task, owned, history, socket

LEMMA NodeReceivesKeeps == ASSUME IInv, NEW h \in Hash, NodeReceives(h) PROVE IInv'
<1>1. Keeps(pool') /\ Told' /\ GaugesNeverUnderstate'
  BY SidecarKeepsTold DEF NodeReceives
<1>2. inbox' \in Seq(Event)
  <2>1. Inserted(h, TRUE) \in Event
    BY DEF Inserted, Event
  <2> QED
    BY <2>1, ReportType DEF NodeReceives, IInv
<1>3. spent' \in Spent
  BY SpentType DEF NodeReceives, IInv, TypeOK
<1>4. nodePool' \in SUBSET Hash
  BY DEF NodeReceives, IInv, TypeOK
<1> QED
  BY <1>1, <1>2, <1>3, <1>4 DEF NodeReceives, IInv, TypeOK, sidecar, task, owned, history

LEMMA NodeRemovesKeeps == ASSUME IInv, NEW h \in Hash, NodeRemoves(h) PROVE IInv'
<1>1. Keeps(pool') /\ Told' /\ GaugesNeverUnderstate'
  BY SidecarKeepsTold DEF NodeRemoves
<1>2. inbox' \in Seq(Event)
  <2>1. Left(h) \in Event
    BY DEF Left, Event
  <2> QED
    BY <2>1, ReportType DEF NodeRemoves, IInv
<1>3. spent' \in Spent
  BY SpentType DEF NodeRemoves, IInv, TypeOK
<1>4. nodePool' \in SUBSET Hash
  BY DEF NodeRemoves, IInv, TypeOK
<1> QED
  BY <1>1, <1>2, <1>3, <1>4 DEF NodeRemoves, IInv, TypeOK, sidecar, task, owned, history

LEMMA NodeAcceptsKeeps == ASSUME IInv, NodeAccepts PROVE IInv'
<1> DEFINE h == Head(wire).hash
<1>1. Keeps(pool') /\ Told' /\ GaugesNeverUnderstate'
  BY SidecarKeepsTold DEF NodeAccepts
<1>2. wire' \in Seq(Reinjection) /\ h \in Hash
  <2>1. Head(wire) \in Reinjection /\ Tail(wire) \in Seq(Reinjection)
    BY HeadTailProperties DEF NodeAccepts, IInv, TypeOK
  <2> QED
    BY <2>1 DEF NodeAccepts, Reinjection
<1>3. \/ nodePool' = nodePool \cup {h} /\ Report(Inserted(h, FALSE))
      \/ UNCHANGED <<nodePool, inbox>>
  BY DEF NodeAccepts
<1> HIDE DEF h
<1>4. nodePool' \in SUBSET Hash
  BY <1>2, <1>3 DEF IInv, TypeOK
<1>5. inbox' \in Seq(Event)
  <2>1. Inserted(h, FALSE) \in Event
    BY <1>2 DEF Inserted, Event
  <2> QED
    BY <1>3, <2>1, ReportType DEF IInv, TypeOK
<1> QED
  BY <1>1, <1>2, <1>4, <1>5 DEF NodeAccepts, IInv, TypeOK, sidecar, task, owned, history

\* A break leaves the socket well typed.
LEMMA BreaksType ==
    ASSUME TypeOK, Breaks
    PROVE  /\ conn' \in {"none", "open", "closed"}
           /\ inbox' \in Seq(Event) /\ wire' \in Seq(Reinjection)
           /\ spent' \in Spent
<1>1. spent' \in Spent
  BY SpentType DEF Breaks, TypeOK
<1>2. CASE conn = "open"
  <2>1. PICK n \in 0..Len(inbox) : inbox' = SubSeq(inbox, 1, n)
    BY <1>2 DEF Breaks
  <2>2. inbox \in Seq(Event) /\ Len(inbox) \in Nat /\ n \in Nat
    BY LenProperties DEF TypeOK
  <2>3. inbox' \in Seq(Event)
    <3>1. \A i \in 1..n : inbox[i] \in Event
      BY <2>2, ElementOfSeq
    <3> QED
      BY <2>1, <2>2, <3>1, SubSeqProperties
  <2>4. <<>> \in Seq(Reinjection)
    BY EmptySeq
  <2> QED
    BY <1>1, <1>2, <2>3, <2>4 DEF Breaks
<1>3. CASE conn # "open"
  BY <1>1, <1>3 DEF Breaks, TypeOK, socket
<1> QED
  BY <1>2, <1>3

LEMMA NodeDisconnectsKeeps == ASSUME IInv, NodeDisconnects PROVE IInv'
<1>1. Keeps(pool') /\ Told' /\ GaugesNeverUnderstate'
  BY SidecarKeepsTold DEF NodeDisconnects
<1>2. /\ conn' \in {"none", "open", "closed"}
      /\ inbox' \in Seq(Event) /\ wire' \in Seq(Reinjection)
      /\ spent' \in Spent
  BY BreaksType DEF NodeDisconnects, IInv
<1> QED
  BY <1>1, <1>2 DEF NodeDisconnects, IInv, TypeOK, sidecar, task, owned, history

LEMMA NodeStopsKeeps == ASSUME IInv, NodeStops PROVE IInv'
<1>1. Keeps(pool') /\ Told' /\ GaugesNeverUnderstate'
  BY SidecarKeepsTold DEF NodeStops
<1>2. /\ conn' \in {"none", "open", "closed"}
      /\ inbox' \in Seq(Event) /\ wire' \in Seq(Reinjection)
      /\ spent' \in Spent
  BY BreaksType DEF NodeStops, IInv
<1> QED
  BY <1>1, <1>2 DEF NodeStops, IInv, TypeOK, sidecar, task, owned, history

LEMMA CtrlCKeeps == ASSUME IInv, CtrlC PROVE IInv'
<1>1. Keeps(pool') /\ Told' /\ GaugesNeverUnderstate'
  BY SidecarKeepsTold DEF CtrlC
<1> QED
  BY <1>1 DEF CtrlC, IInv, TypeOK, sidecar, task, owned, history, socket, node

LEMMA TickKeeps == ASSUME IInv, Tick PROVE IInv'
<1>1. /\ Keeps(pool') /\ Cached(pool') = Cached(pool)
      /\ pool'.pendingCount = pool.pendingCount
  BY AgedKeeps DEF Tick, IInv
<1>2. Told' /\ GaugesNeverUnderstate'
  BY <1>1 DEF Tick, IInv, Told, GaugesNeverUnderstate, task
<1>3. pool' \in Pool
  BY <1>1 DEF Keeps, Core
<1> QED
  BY <1>1, <1>2, <1>3 DEF Tick, IInv, TypeOK, task, watch, socket, node, history

\* The sidecar as it starts.
LEMMA FreshSidecar ==
    /\ EmptySent \in SentType /\ Cardinality(EmptySent.keys) = 0
    /\ NothingTallied \in Tally
    /\ <<>> \in Seq(Event) /\ <<>> \in Seq(Reinjection)
<1>1. <<>> \in Seq(Hash) /\ <<>> \in Seq(Event) /\ <<>> \in Seq(Reinjection)
  BY EmptySeq
<1>2. Cardinality({}) = 0
  BY FS_EmptySet
<1>3. 0 \in Count
  BY CounterAssumption DEF Count
<1> QED
  BY <1>1, <1>2, <1>3 DEF EmptySent, SentType, NothingTallied, Tally

LEMMA FreshKeeps ==
    ASSUME pc = "top", pool = EmptyPool, sent = EmptySent, metrics = NewMetrics
    PROVE  Keeps(pool) /\ pool \in Pool /\ Told /\ GaugesNeverUnderstate
<1>1. Keeps(pool) /\ pool.pendingCount = 0 /\ Cached(pool) = {}
  BY EmptyPoolKeeps
<1>2. Cardinality({}) = 0
  BY FS_EmptySet
<1> QED
  BY <1>1, <1>2, FreshSidecar DEF Told, GaugesNeverUnderstate, NewMetrics, Keeps, Core

LEMMA KilledKeeps == ASSUME IInv, Killed PROVE IInv'
<1>1. Keeps(pool') /\ pool' \in Pool /\ Told' /\ GaugesNeverUnderstate'
  <2>1. Keeps(EmptyPool) /\ EmptyPool.pendingCount = 0 /\ Cached(EmptyPool) = {}
    BY EmptyPoolKeeps
  <2>2. Cardinality({}) = 0
    BY FS_EmptySet
  <2> QED
    BY <2>1, <2>2, FreshSidecar
    DEF Killed, Told, GaugesNeverUnderstate, NewMetrics, Keeps, Core
<1>2. nodePool' \in SUBSET Hash
  BY StillDeliveredType DEF Killed, IInv
<1>3. spent' \in Spent
  BY SpentType DEF Killed, IInv, TypeOK
<1> QED
  BY <1>1, <1>2, <1>3, FreshSidecar, NewMetricsType
  DEF Killed, IInv, TypeOK, SentType, watch

LEMMA InitEstablishes == Init => IInv
<1> SUFFICES ASSUME Init PROVE IInv
  OBVIOUS
<1>1. Keeps(pool) /\ pool \in Pool /\ Told /\ GaugesNeverUnderstate
  BY FreshKeeps DEF Init
<1>2. spent \in Spent
  BY SpentType DEF Init
<1> QED
  BY <1>1, <1>2, FreshSidecar, NewMetricsType DEF Init, IInv, TypeOK, SentType

\* Every step keeps the invariant.
LEMMA StepKeeps == IInv /\ [Next]_vars => IInv'
<1> SUFFICES ASSUME IInv, [Next]_vars PROVE IInv'
  OBVIOUS
<1>1. CASE Task
  BY <1>1, TopKeeps, ConnectOkKeeps, ConnectFailsKeeps, WakeUpKeeps, SeeShutdownKeeps,
     NextBatchKeeps, StreamEndsKeeps, IgnoreEchoKeeps, HandleInsertKeeps, HandleLeaveKeeps,
     SkipSentKeeps, SendOkKeeps, SendFailsKeeps DEF Task
<1>2. CASE Node
  BY <1>2, NodeStartsKeeps, NodeAcceptsKeeps, NodeDisconnectsKeeps, NodeStopsKeeps,
     NodeReceivesKeeps, NodeRemovesKeeps DEF Node
<1>3. CASE CtrlC
  BY <1>3, CtrlCKeeps
<1>4. CASE Tick
  BY <1>4, TickKeeps
<1>5. CASE Killed
  BY <1>5, KilledKeeps
<1>6. CASE UNCHANGED vars
  BY <1>6 DEF vars, task, owned, watch, socket, node, history,
     IInv, TypeOK, Told, GaugesNeverUnderstate
<1> QED
  BY <1>1, <1>2, <1>3, <1>4, <1>5, <1>6 DEF Next

\* The invariant holds in every reachable state of the loop, its node and its
\* operator, whatever the bounds.
THEOREM Invariance == Spec => []IInv
BY InitEstablishes, StepKeeps, PTL DEF Spec

\* Type correctness of the loop: the counters stay in their range and every
\* queue, list and memory holds what its type says, across reconnects,
\* failed sends and restarts.
THEOREM TypeCorrect == Spec => []TypeOK
<1>1. IInv => TypeOK
  BY DEF IInv
<1> QED
  BY <1>1, Invariance, PTL

\* /health tells the state of the connection and the size of the dedup memory
\* as they are, at every await of the loop.
THEOREM HealthTells == Spec => []MetricsTell
<1>1. IInv => MetricsTell
  BY ToldIsMetricsTell DEF IInv
<1> QED
  BY <1>1, Invariance, PTL

\* The pairing gauges may be too high after a departure, never too low.
THEOREM GaugesBound == Spec => []GaugesNeverUnderstate
<1>1. IInv => GaugesNeverUnderstate
  BY DEF IInv
<1> QED
  BY <1>1, Invariance, PTL

-----------------------------------------------------------------------------
(* Bids behind their targets.  The pool puts a target before its bids in   *)
(* one answer, or has marked it in an earlier one; the loop sends an       *)
(* answer in order, and what it does not send it gives up.  So every       *)
(* marked target, and every target of a bid that is still to be sent, has  *)
(* been sent or given up, or is ahead in todo.  What the dedup memory has  *)
(* evicted has been sent all the same.                                     *)

\* Sent, given up, or to be sent before todo[i].
Ahead(i) == reinjected \cup abandoned \cup {todo[j].hash : j \in 1..(i - 1)}

TargetsAhead ==
    /\ sent.keys \subseteq reinjected
    /\ pool.streamed \subseteq Ahead(Len(todo) + 1)
    /\ \A i \in DOMAIN todo : todo[i].class = "bid" => todo[i].group \in Ahead(i)

\* With nothing to send, what is marked has been sent or given up.
LEMMA IdleAhead ==
    ASSUME todo = <<>>
    PROVE  TargetsAhead <=> /\ sent.keys \subseteq reinjected
                            /\ pool.streamed \subseteq reinjected \cup abandoned
<1>1. Len(todo) = 0 /\ DOMAIN todo = {}
  OBVIOUS
<1>2. Ahead(Len(todo) + 1) = reinjected \cup abandoned
  BY <1>1 DEF Ahead
<1> QED
  BY <1>1, <1>2 DEF TargetsAhead

\* A step that neither sends nor forgets nor marks keeps it.
LEMMA AheadKept ==
    ASSUME TargetsAhead, todo' = todo, sent' = sent, reinjected' = reinjected, abandoned' = abandoned,
           pool'.streamed \subseteq pool.streamed
    PROVE  TargetsAhead'
BY DEF TargetsAhead, Ahead

\* Once todo is empty it is enough that the marks are covered.
LEMMA IdleAheadNext ==
    ASSUME todo' = <<>>, sent'.keys \subseteq reinjected',
           pool'.streamed \subseteq reinjected' \cup abandoned'
    PROVE  TargetsAhead'
<1>1. Len(todo') = 0 /\ DOMAIN todo' = {}
  OBVIOUS
<1>2. Ahead(Len(todo) + 1)' = reinjected' \cup abandoned'
  BY <1>1 DEF Ahead
<1> QED
  BY <1>1, <1>2 DEF TargetsAhead

\* Sending the head of todo, or passing over it as sent before, keeps it.
LEMMA SentAhead ==
    ASSUME TypeOK, TargetsAhead, todo # <<>>, todo' = Tail(todo),
           reinjected \cup abandoned \cup {Head(todo).hash} \subseteq reinjected' \cup abandoned',
           sent'.keys \subseteq reinjected', pool' = pool
    PROVE  TargetsAhead'
<1>1. /\ todo \in Seq(Reinjection) /\ Len(todo) \in Nat /\ Len(todo) # 0
      /\ DOMAIN todo = 1..Len(todo) /\ Head(todo) = todo[1]
  BY LenProperties, EmptySeq DEF TypeOK
<1>2. /\ Len(todo') = Len(todo) - 1 /\ DOMAIN todo' = 1..(Len(todo) - 1)
      /\ \A i \in 1..(Len(todo) - 1) : todo'[i] = todo[i + 1]
  <2>1. /\ Tail(todo) \in Seq(Reinjection) /\ Len(Tail(todo)) = Len(todo) - 1
        /\ \A i \in 1..Len(Tail(todo)) : Tail(todo)[i] = todo[i + 1]
    BY <1>1, HeadTailProperties
  <2>2. DOMAIN Tail(todo) = 1..Len(Tail(todo))
    BY <2>1, LenProperties
  <2> QED
    BY <2>1, <2>2
<1>3. \A i \in 1..Len(todo) : Ahead(i + 1) \subseteq Ahead(i)'
  <2> SUFFICES ASSUME NEW i \in 1..Len(todo), NEW j \in 1..i
               PROVE  todo[j].hash \in Ahead(i)'
    <3>1. \A i \in 1..Len(todo) :
            Ahead(i + 1) = reinjected \cup abandoned \cup {todo[j].hash : j \in 1..i}
      <4> SUFFICES ASSUME NEW i \in 1..Len(todo)
                   PROVE  Ahead(i + 1) = reinjected \cup abandoned \cup {todo[j].hash : j \in 1..i}
        OBVIOUS
      <4>1. (i + 1) - 1 = i
        BY <1>1
      <4> QED
        BY <4>1 DEF Ahead
    <3>2. \A i : reinjected \cup abandoned \subseteq Ahead(i)'
      BY DEF Ahead
    <3> QED
      BY <3>1, <3>2
  <2>1. CASE j = 1
    <3>1. todo[j].hash \in reinjected' \cup abandoned'
      BY <1>1, <2>1
    <3> QED
      BY <3>1 DEF Ahead
  <2>2. CASE j # 1
    <3>1. j - 1 \in 1..(i - 1) /\ j - 1 \in 1..(Len(todo) - 1)
      BY <1>1, <2>2
    <3>2. todo'[j - 1] = todo[j]
      BY <1>1, <1>2, <3>1
    <3> QED
      BY <3>1, <3>2 DEF Ahead
  <2> QED
    BY <2>1, <2>2
<1>4. pool'.streamed \subseteq Ahead(Len(todo) + 1)'
  <2>1. Len(todo) \in 1..Len(todo) /\ Len(todo') + 1 = Len(todo)
    BY <1>1, <1>2
  <2>2. Ahead(Len(todo) + 1) \subseteq reinjected' \cup abandoned' \cup {todo'[j].hash : j \in 1..(Len(todo) - 1)}
    BY <1>3, <2>1 DEF Ahead
  <2>3. Len(todo') + 1 - 1 = Len(todo) - 1
    BY <1>1, <2>1
  <2> QED
    BY <2>2, <2>3 DEF TargetsAhead, Ahead
<1>5. ASSUME NEW i \in DOMAIN todo', todo'[i].class = "bid"
      PROVE  todo'[i].group \in reinjected' \cup abandoned' \cup {todo'[j].hash : j \in 1..(i - 1)}
  <2>1. i \in 1..Len(todo) /\ i + 1 \in DOMAIN todo /\ todo'[i] = todo[i + 1]
    BY <1>1, <1>2, <1>5
  <2>2. todo[i + 1].group \in Ahead(i + 1)
    BY <1>5, <2>1 DEF TargetsAhead
  <2>3. Ahead(i + 1) \subseteq reinjected' \cup abandoned' \cup {todo'[j].hash : j \in 1..(i - 1)}
    BY <1>3, <2>1 DEF Ahead
  <2> QED
    BY <2>1, <2>2, <2>3
<1> QED
  BY <1>4, <1>5 DEF TargetsAhead, Ahead

\* A new answer: what it does not put in front of its bids was marked before.
LEMMA InsertAhead == ASSUME IInv, TargetsAhead, HandleInsert PROVE TargetsAhead'
<1>1. PICK seen \in {Pruned(pool), Aged(Pruned(pool))} :
        LET r == Observed(seen, Head(batch).hash)
        IN  /\ Head(batch).hash \in Hash
            /\ Core(seen) /\ Within(seen) /\ HeadLive(seen)
            /\ seen.streamed \subseteq pool.streamed
            /\ Sound(r)
            /\ pool' = r.pool /\ todo' = r.reinjections
  BY HandleInsertOutcome
<1> DEFINE r == Observed(seen, Head(batch).hash)
           marks == seen.streamed
<1>2. Follows(r, marks)
  BY <1>1, ObservedFollows
<1>3. /\ pool' = r.pool /\ todo' = r.reinjections /\ marks \subseteq pool.streamed
      /\ todo' \in Seq(Reinjection)
  BY <1>1 DEF Sound
<1> HIDE DEF r, marks
<1>4. DOMAIN todo' = 1..Len(todo') /\ Len(todo') \in Nat
  BY <1>3, LenProperties
<1>5. sent' = sent /\ reinjected' = reinjected /\ abandoned' = abandoned /\ todo = <<>>
  BY DEF HandleInsert, InBatch
<1>6. sent.keys \subseteq reinjected /\ pool.streamed \subseteq reinjected \cup abandoned
  BY <1>5, IdleAhead
<1>7. pool'.streamed \subseteq reinjected' \cup abandoned' \cup {todo'[j].hash : j \in 1..Len(todo')}
  BY <1>2, <1>3, <1>4, <1>5, <1>6 DEF Follows
<1>8. ASSUME NEW i \in DOMAIN todo', todo'[i].class = "bid"
      PROVE  todo'[i].group \in reinjected' \cup abandoned' \cup {todo'[j].hash : j \in 1..(i - 1)}
  <2>1. \/ todo'[i].group \in marks
        \/ \E j \in 1..(i - 1) : todo'[j] = Offer(todo'[i].group)
    BY <1>2, <1>3, <1>8 DEF Follows
  <2>2. \A t : Offer(t).hash = t
    BY DEF Offer
  <2> QED
    BY <1>3, <1>5, <1>6, <2>1, <2>2
<1>9. Len(todo') + 1 - 1 = Len(todo')
  BY <1>4
<1> QED
  BY <1>5, <1>6, <1>7, <1>8, <1>9 DEF TargetsAhead, Ahead

\* Every step keeps the targets ahead of their bids.
LEMMA StepKeepsAhead ==
    ASSUME IInv, TargetsAhead, [Next]_vars
    PROVE  TargetsAhead'
<1>0. sent.keys \subseteq reinjected
  BY DEF TargetsAhead
<1>1. CASE Task
  <2>1. ASSUME Top \/ ConnectOk \/ ConnectFails \/ WakeUp PROVE TargetsAhead'
    BY <2>1, AheadKept DEF Top, ConnectOk, ConnectFails, WakeUp, owned, history
  <2>2. ASSUME SeeShutdown \/ NextBatch \/ StreamEnds \/ IgnoreEcho PROVE TargetsAhead'
    BY <2>2, AheadKept DEF SeeShutdown, NextBatch, StreamEnds, IgnoreEcho, owned, history
  <2>3. CASE HandleInsert
    BY <2>3, InsertAhead
  <2>4. CASE HandleLeave
    <3> DEFINE h == Head(batch).hash
    <3>1. /\ todo = <<>> /\ todo' = <<>>
          /\ reinjected' = reinjected \ {h} /\ abandoned' = abandoned \ {h}
          /\ sent' = SentRemoved(sent, h) /\ pool' = Forgotten(pool, h) /\ h \in Hash
      BY <2>4, FirstEvent DEF HandleLeave, InBatch, IInv
    <3> HIDE DEF h
    <3>2. pool.streamed \subseteq reinjected \cup abandoned
      BY <3>1, IdleAhead
    <3>3. pool'.streamed \subseteq pool.streamed \ {h}
      BY <3>1, ForgottenMarks DEF IInv, Keeps
    <3>4. sent'.keys = sent.keys \ {h}
      BY <3>1, SentRemovedType DEF IInv, TypeOK, SentType
    <3> QED
      BY <1>0, <3>1, <3>2, <3>3, <3>4, IdleAheadNext
  <2>5. CASE SkipSent
    <3>1. /\ todo # <<>> /\ todo' = Tail(todo) /\ Head(todo).hash \in sent.keys
          /\ UNCHANGED <<sent, pool, reinjected, abandoned>>
      BY <2>5 DEF SkipSent, Sending, owned, history
    <3> QED
      BY <1>0, <3>1, SentAhead DEF IInv
  <2>6. CASE SendOk
    <3> DEFINE h == Head(todo).hash
    <3>1. /\ h \in Hash /\ todo # <<>> /\ todo' = Tail(todo) /\ pool' = pool
          /\ sent' = SentInserted(sent, h)
          /\ reinjected' = reinjected \cup {h} /\ abandoned' = abandoned \ {h}
      BY <2>6, FirstToSend DEF SendOk, Sending, IInv
    <3>2. sent'.keys \subseteq sent.keys \cup {h}
      BY <3>1, SentInsertedType DEF IInv, TypeOK, SentType
    <3> QED
      BY <1>0, <3>1, <3>2, SentAhead DEF IInv
  <2>7. CASE SendFails
    <3>1. /\ todo' = <<>> /\ sent' = sent /\ pool' = pool /\ reinjected' = reinjected
          /\ abandoned' = abandoned \cup ({todo[i].hash : i \in DOMAIN todo} \ reinjected)
      BY <2>7 DEF SendFails, owned
    <3>2. DOMAIN todo = 1..Len(todo) /\ Len(todo) \in Nat
      BY LenProperties DEF IInv, TypeOK
    <3>3. pool.streamed \subseteq reinjected \cup abandoned \cup {todo[i].hash : i \in DOMAIN todo}
      BY <3>2 DEF TargetsAhead, Ahead
    <3> QED
      BY <1>0, <3>1, <3>3, IdleAheadNext
  <2> QED
    BY <1>1, <2>1, <2>2, <2>3, <2>4, <2>5, <2>6, <2>7 DEF Task
<1>2. CASE Node
  <2>1. UNCHANGED sidecar
    BY <1>2 DEF Node, NodeStarts, NodeAccepts, NodeDisconnects, NodeStops, NodeReceives,
       NodeRemoves
  <2> QED
    BY <2>1, AheadKept DEF sidecar, task, owned, history
<1>3. CASE CtrlC
  BY <1>3, AheadKept DEF CtrlC, sidecar, task, owned, history
<1>4. CASE Tick
  <2>1. pool'.streamed = pool.streamed
    BY <1>4, AgedKeeps DEF Tick, IInv
  <2> QED
    BY <1>4, <2>1, AheadKept DEF Tick, task, history
<1>5. CASE Killed
  BY <1>5, IdleAheadNext DEF Killed, EmptyPool, EmptySent
<1>6. CASE UNCHANGED vars
  BY <1>6, AheadKept DEF vars, task, owned, history
<1> QED
  BY <1>1, <1>2, <1>3, <1>4, <1>5, <1>6 DEF Next

\* Only SendOk writes a reinjection to the socket, and it writes the head of todo.
LEMMA OnlyHeadIsSent ==
    ASSUME IInv, Next, NEW i \in DOMAIN todo, wire' = Append(wire, todo[i])
    PROVE  todo[i] = todo[1] /\ todo # <<>>
<1>1. /\ todo \in Seq(Reinjection) /\ wire \in Seq(Reinjection) /\ Len(wire) \in Nat
      /\ DOMAIN todo = 1..Len(todo) /\ Len(todo) \in Nat
  BY LenProperties DEF IInv, TypeOK
<1>2. todo[i] \in Reinjection /\ todo # <<>>
  BY <1>1, ElementOfSeq, EmptySeq
<1>3. Len(wire') = Len(wire) + 1
  BY <1>1, <1>2, AppendProperties
<1>4. wire' # wire /\ wire' # <<>>
  BY <1>1, <1>2, <1>3, AppendProperties
<1>5. ~(wire # <<>> /\ wire' = Tail(wire))
  <2> SUFFICES ASSUME wire # <<>>, wire' = Tail(wire) PROVE FALSE
    OBVIOUS
  <2>1. Len(Tail(wire)) = Len(wire) - 1
    BY <1>1, HeadTailProperties
  <2> QED
    BY <1>1, <1>3, <2>1
<1>6. SendOk
  <2>1. ~(Top \/ ConnectOk \/ ConnectFails \/ WakeUp \/ SeeShutdown \/ NextBatch \/ StreamEnds)
    BY <1>4 DEF Top, ConnectOk, ConnectFails, WakeUp, SeeShutdown, NextBatch, StreamEnds, socket
  <2>2. ~(IgnoreEcho \/ HandleInsert \/ HandleLeave \/ SkipSent \/ SendFails)
    BY <1>4 DEF IgnoreEcho, HandleInsert, HandleLeave, SkipSent, SendFails, socket
  <2>3. ~Node
    BY <1>4, <1>5 DEF Node, NodeStarts, NodeAccepts, NodeDisconnects, NodeStops, NodeReceives,
       NodeRemoves, Breaks, socket
  <2>4. ~(CtrlC \/ Tick \/ Killed)
    BY <1>4 DEF CtrlC, Tick, Killed, socket
  <2> QED
    BY <2>1, <2>2, <2>3, <2>4 DEF Next, Task
<1>7. wire' = Append(wire, Head(todo)) /\ Head(todo) = todo[1] /\ Head(todo) \in Reinjection
  <2>1. wire' = Append(wire, Head(todo))
    BY <1>6 DEF SendOk
  <2>2. Head(todo) \in Reinjection
    BY <1>1, <1>2, HeadTailProperties
  <2>3. Head(todo) = todo[1]
    BY <1>1, <1>2
  <2> QED
    BY <2>1, <2>2, <2>3
<1>8. todo[i] = Head(todo)
  <2> DEFINE e == todo[i]
             f == Head(todo)
  <2>1. /\ e \in Reinjection /\ f \in Reinjection /\ wire \in Seq(Reinjection)
        /\ Append(wire, e) = Append(wire, f)
    BY <1>1, <1>2, <1>7
  <2> HIDE DEF e, f
  <2>2. e = f
    BY <2>1, AppendInjective
  <2> QED
    BY <2>2 DEF e, f
<1> QED
  BY <1>2, <1>7, <1>8

\* No bid goes out before its target, through reconnects, failed sends and
\* restarts, and whatever the dedup memory has evicted, unless a failed send
\* gave the target up.
THEOREM BidsBehindTargets == Spec => BidBehindTarget
<1> DEFINE Step == \A i \in DOMAIN todo :
                     SendsBid(todo[i]) => todo[i].group \in reinjected \cup abandoned
<1>1. Init => TargetsAhead
  <2> SUFFICES ASSUME Init PROVE TargetsAhead
    OBVIOUS
  <2>1. todo = <<>> /\ pool.streamed = {} /\ sent.keys = {}
    BY DEF Init, EmptyPool, EmptySent
  <2> QED
    BY <2>1, IdleAhead
<1>2. IInv /\ TargetsAhead /\ [Next]_vars => TargetsAhead'
  BY StepKeepsAhead
<1>3. IInv /\ TargetsAhead /\ [Next]_vars => [Step]_vars
  <2> SUFFICES ASSUME IInv, TargetsAhead, Next, NEW i \in DOMAIN todo, SendsBid(todo[i])
               PROVE  todo[i].group \in reinjected \cup abandoned
    OBVIOUS
  <2>1. todo[i] = todo[1] /\ todo # <<>> /\ todo[i].class = "bid"
    BY OnlyHeadIsSent DEF SendsBid
  <2>2. 1 \in DOMAIN todo
    <3>1. DOMAIN todo = 1..Len(todo) /\ Len(todo) \in Nat /\ Len(todo) # 0
      BY <2>1, LenProperties, EmptySeq DEF IInv, TypeOK
    <3> QED
      BY <3>1
  <2>3. todo[1].group \in Ahead(1)
    BY <2>1, <2>2 DEF TargetsAhead
  <2>4. Ahead(1) = reinjected \cup abandoned
    BY DEF Ahead
  <2> QED
    BY <2>1, <2>3, <2>4
<1> HIDE DEF Step
<1>4. Spec => [][Step]_vars
  BY <1>1, <1>2, <1>3, Invariance, PTL DEF Spec
<1> QED
  BY <1>4 DEF BidBehindTarget, Step

-----------------------------------------------------------------------------
(* Where the parked bids are: each under its target, and nowhere else.     *)

\* observe holds no hash, in the cache, parked or in its answer, but those held
\* before and the one it is shown.
LEMMA ObservedHolds ==
    ASSUME NEW p, Core(p), Within(p), HeadLive(p), Placed(p), Backed(p), BidHead(p), NEW h \in Hash
    PROVE  LET r == Observed(p, h)
               held == Cached(p) \cup Waiting(p) \cup {h}
           IN  /\ Placed(r.pool)
               /\ Cached(r.pool) \cup Waiting(r.pool) \subseteq held
               /\ \A e \in ToSet(r.reinjections) : e.hash \in held
<1> DEFINE q == InsertCache(p, h)
           r == Observed(p, h)
           held == Cached(p) \cup Waiting(p) \cup {h}
<1>1. /\ Core(q) /\ SameBids(q, p) /\ h \in Cached(q)
      /\ Cached(q) \subseteq Cached(p) \cup {h}
  BY InsertCacheProperties
<1>2. Placed(q) /\ BidHead(q) /\ Backed(q) /\ Waiting(q) = Waiting(p)
  BY <1>1, SameBidsSameWaiting, BackedWhenSame
<1>3. Cached(q) \cup Waiting(q) \subseteq held
  BY <1>1, <1>2
<1>4. q \in Pool
  BY <1>1 DEF Core
<1> HIDE DEF q, held
<1>5. CASE h \in Tob
  <2> DEFINE e == [hash |-> h, class |-> IF h \in ZeroScore THEN "fallback" ELSE "tob",
                   group |-> h]
  <2>1. r = ObserveTob(q, h)
    BY <1>5, KindAssumption DEF Observed, q
  <2>2. r.pool = q /\ r.reinjections = <<e>>
    BY <2>1 DEF ObserveTob, Result
  <2>3. ToSet(<<e>>) = {e} /\ e.hash = h
    BY DEF ToSet
  <2>4. h \in held
    BY DEF held
  <2> HIDE DEF e, r
  <2> QED
    BY <1>2, <1>3, <2>2, <2>3, <2>4 DEF r, held
<1>6. CASE h \in Invalid
  <2>1. r = Result(q, <<>>, 0, 0, 0)
    BY <1>6, KindAssumption DEF Observed, q
  <2>2. r.pool = q /\ r.reinjections = <<>>
    BY <2>1 DEF Result
  <2>3. ToSet(<<>>) = {}
    BY DEF ToSet
  <2> HIDE DEF r
  <2> QED
    BY <1>2, <1>3, <2>2, <2>3 DEF r, held
<1>7. CASE h \in Vanilla
  <2> DEFINE B == Parked(q, h)
  <2>1. r = ObserveVanilla(q, h)
    BY <1>7, KindAssumption DEF Observed, q
  <2>2. /\ Placed(r.pool) /\ Cached(r.pool) = Cached(q)
        /\ Waiting(r.pool) = Waiting(q) \ B
        /\ B = {} => ToSet(r.reinjections) = {}
        /\ B # {} => ToSet(r.reinjections) = {BidReinjection(b, h) : b \in B} \cup OfferSet(q, h)
    BY <1>1, <1>2, <1>7, <2>1, VanillaMaps
  <2>3. B \subseteq Waiting(q) /\ h \in held
    BY <1>7 DEF Waiting, held, Hash
  <2> HIDE DEF r, B
  <2>4. \A e \in ToSet(r.reinjections) : e.hash \in held
    <3> SUFFICES ASSUME NEW e \in ToSet(r.reinjections) PROVE e.hash \in held
      OBVIOUS
    <3>1. CASE \E b \in B : e = BidReinjection(b, h)
      BY <1>3, <2>3, <3>1 DEF BidReinjection
    <3>2. CASE e \in OfferSet(q, h)
      BY <2>3, <3>2 DEF OfferSet, Offer
    <3> QED
      BY <2>2, <3>1, <3>2
  <2> QED
    BY <1>3, <2>2, <2>4 DEF r, held
<1>8. CASE h \in Backrun
  <2> DEFINE t == Target[h]
  <2>1. r = ObserveBackrun(q, h)
    BY <1>8, KindAssumption DEF Observed, q
  <2>2. /\ Placed(r.pool) /\ Cached(r.pool) = Cached(q)
        /\ t \in Cached(q) =>
             /\ ToSet(r.reinjections) = {BidReinjection(h, t)} \cup OfferSet(q, t)
             /\ Waiting(r.pool) = Waiting(q)
        /\ t \notin Cached(q) =>
             /\ ToSet(r.reinjections) = {}
             /\ Waiting(r.pool) \subseteq Waiting(q) \cup {h}
    BY <1>1, <1>2, <1>8, <2>1, BackrunMaps
  <2>3. h \in held
    BY DEF held
  <2> HIDE DEF r, t
  <2>4. \A e \in ToSet(r.reinjections) : e.hash \in held
    <3> SUFFICES ASSUME NEW e \in ToSet(r.reinjections) PROVE e.hash \in held
      OBVIOUS
    <3>1. CASE e = BidReinjection(h, t)
      BY <2>3, <3>1 DEF BidReinjection
    <3>2. CASE t \in Cached(q) /\ e \in OfferSet(q, t)
      BY <1>3, <3>2 DEF OfferSet, Offer
    <3> QED
      BY <2>2, <3>1, <3>2
  <2>5. Cached(r.pool) \cup Waiting(r.pool) \subseteq held
    BY <1>3, <2>2, <2>3
  <2> QED
    BY <2>2, <2>4, <2>5 DEF r, held
<1> QED
  BY <1>5, <1>6, <1>7, <1>8 DEF Hash

\* Nothing waits in the empty pool.
LEMMA EmptyPoolPlaced == Placed(EmptyPool) /\ Waiting(EmptyPool) = {}
<1>1. \A t \in Hash : DOMAIN EmptyPool.pending[t] = {}
  BY DEF EmptyPool
<1> QED
  BY <1>1 DEF Placed, Waiting, Parked, Copies

\* The parked bids are under their targets, each copy with an entry of its own
\* in the queue, and within the capacity.
Sorted == Placed(pool) /\ Backed(pool)

\* What one Insert adds to what the sidecar holds is the hash it reports.
LEMMA InsertHolds ==
    ASSUME IInv, Sorted, HandleInsert
    PROVE  LET h == Head(batch).hash
           IN  /\ Sorted'
               /\ Cached(pool') \cup Waiting(pool') \subseteq Cached(pool) \cup Waiting(pool) \cup {h}
               /\ \A i \in DOMAIN todo' : todo'[i].hash \in Cached(pool) \cup Waiting(pool) \cup {h}
<1>1. PICK seen \in {Pruned(pool), Aged(Pruned(pool))} :
        /\ Head(batch).hash \in Hash
        /\ Core(seen) /\ Within(seen) /\ HeadLive(seen)
        /\ pool' = Observed(seen, Head(batch).hash).pool
        /\ todo' = Observed(seen, Head(batch).hash).reinjections
  BY HandleInsertOutcome
<1> DEFINE h == Head(batch).hash
           r == Observed(seen, h)
<1>2. /\ Placed(seen) /\ Backed(seen) /\ BidHead(seen)
      /\ Waiting(seen) \subseteq Waiting(pool) /\ Cached(seen) \subseteq Cached(pool)
  BY SeenMaps DEF IInv, Keeps, Sorted
<1> HIDE DEF h
<1>3. h \in Hash /\ pool' = r.pool /\ todo' = r.reinjections
  BY <1>1 DEF h
<1>4. /\ Placed(r.pool)
      /\ Cached(r.pool) \cup Waiting(r.pool) \subseteq Cached(seen) \cup Waiting(seen) \cup {h}
      /\ \A e \in ToSet(r.reinjections) : e.hash \in Cached(seen) \cup Waiting(seen) \cup {h}
  BY <1>1, <1>2, <1>3, ObservedHolds
<1>5. Backed(r.pool)
  BY <1>1, <1>2, <1>3, ObservedKeepsBacked
<1> HIDE DEF r
<1>6. \A i \in DOMAIN todo' : todo'[i] \in ToSet(todo')
  BY DEF ToSet
<1> QED
  BY <1>2, <1>3, <1>4, <1>5, <1>6 DEF h, Sorted

\* The pool stays so.
LEMMA StaysSorted == IInv /\ Sorted /\ [Next]_vars => Sorted'
<1> SUFFICES ASSUME IInv, Sorted, [Next]_vars PROVE Sorted'
  OBVIOUS
<1>1. Core(pool)
  BY DEF IInv, Keeps
<1>2. CASE pool' = pool
  BY <1>2 DEF Sorted
<1>3. CASE HandleInsert
  BY <1>3, InsertHolds
<1>4. CASE HandleLeave
  <2>1. pool' = Forgotten(pool, Head(batch).hash) /\ Head(batch).hash \in Hash
    BY <1>4, FirstEvent DEF HandleLeave, InBatch, IInv
  <2> QED
    BY <1>1, <2>1, ForgottenMaps, ForgottenKeepsBacked DEF Sorted
<1>5. CASE Tick
  BY <1>1, <1>5, AgedSameWaiting, AgedKeepsBacked DEF Tick, Sorted
<1>6. CASE Killed
  BY <1>6, EmptyPoolPlaced, EmptyPoolBacked DEF Killed, Sorted
<1>7. ASSUME Node \/ CtrlC PROVE pool' = pool
  BY <1>7
  DEF Node, NodeStarts, NodeAccepts, NodeDisconnects, NodeStops, NodeReceives, NodeRemoves,
      CtrlC, sidecar, owned
<1>8. ASSUME Task, ~HandleInsert, ~HandleLeave PROVE pool' = pool
  BY <1>8
  DEF Task, Top, ConnectOk, ConnectFails, WakeUp, SeeShutdown, NextBatch, StreamEnds,
      IgnoreEcho, SkipSent, SendOk, SendFails, owned
<1>9. CASE UNCHANGED vars
  BY <1>2, <1>9 DEF vars, owned
<1> QED
  BY <1>2, <1>3, <1>4, <1>5, <1>6, <1>7, <1>8, <1>9 DEF Next

-----------------------------------------------------------------------------
(* The counters account for everything.  Each of the four equations of     *)
(* MetricsAddUp holds up to laps of the counters; a step that adds to one  *)
(* side adds as much to the other.                                         *)

InsertsAddUp ==
    LET n == metrics.counter
    IN  Cong(n["inserts"], n["skippedNonGateway"] + n["skippedInvalidGateway"]
                             + n["bidsPended"] + tally["answered"])
BidsAddUp ==
    LET n == metrics.counter
    IN  Cong(tally["bids"], pool.pendingCount + n["bidsExpired"] + n["bidsEvicted"]
                              + n["pairsMatched"] + tally["forgotten"])
SentAddsUp ==
    LET n == metrics.counter
    IN  Cong(n["prioritized"], Cardinality(sent.keys) + n["sentCacheEvictions"]
                                 + tally["removed"])
ConnectionsAddUp ==
    LET n == metrics.counter
    IN  Cong(n["reconnects"], n["sendFailures"] + tally["ended"] + Chosen(pc = "live"))

AddUp == InsertsAddUp /\ BidsAddUp /\ SentAddsUp /\ ConnectionsAddUp

\* The count of the parked bids is the number of them in the vectors.
LEMMA AddUpIsMetricsAddUp == Core(pool) => (AddUp <=> MetricsAddUp)
BY DEF Core, Counted, AddUp, MetricsAddUp, InsertsAddUp, BidsAddUp, SentAddsUp,
   ConnectionsAddUp, Cong, Chosen

\* The counts are integers.
LEMMA CountsAreInt ==
    ASSUME TypeOK
    PROVE  /\ \A c \in Counter : metrics.counter[c] \in Int
           /\ \A what \in {"answered", "bids", "forgotten", "removed", "ended"} :
                tally[what] \in Int
           /\ pool.pendingCount \in Int /\ Cardinality(sent.keys) \in Int
<1>1. metrics.counter \in [Counter -> Count] /\ tally \in
        [{"answered", "bids", "forgotten", "removed", "ended"} -> Count]
  BY DEF TypeOK, Metrics, Tally
<1>2. Count \subseteq Int
  BY CounterAssumption DEF Count
<1>3. pool.pendingCount \in Nat
  BY PoolFields DEF TypeOK
<1>4. Cardinality(sent.keys) \in Nat
  BY KeysCount DEF TypeOK
<1>5. \A c \in Counter : metrics.counter[c] \in Int
  BY <1>1, <1>2
<1>6. \A what \in {"answered", "bids", "forgotten", "removed", "ended"} : tally[what] \in Int
  BY <1>1, <1>2
<1> QED
  BY <1>3, <1>4, <1>5, <1>6

\* The counters the equations name.
LEMMA NamedCounters ==
    {"inserts", "prioritized", "skippedNonGateway", "skippedInvalidGateway", "sendFailures",
     "reconnects", "sentCacheEvictions", "pairsMatched", "bidsExpired", "bidsEvicted",
     "bidsPended", "insert", "leave"} \subseteq Counter
BY DEF Counter, HealthCounter, EventKind

\* The counters the equations balance.
Balanced == {"inserts", "prioritized", "skippedNonGateway", "skippedInvalidGateway", "sendFailures",
          "reconnects", "sentCacheEvictions", "pairsMatched", "bidsExpired", "bidsEvicted",
          "bidsPended"}

\* A step that changes none of the counts keeps the equations.
LEMMA AddUpKept ==
    ASSUME AddUp, tally' = tally, pool'.pendingCount = pool.pendingCount,
           sent'.keys = sent.keys, (pc' = "live") <=> (pc = "live"),
           \A c \in Balanced : metrics'.counter[c] = metrics.counter[c]
    PROVE  AddUp'
BY DEF AddUp, InsertsAddUp, BidsAddUp, SentAddsUp, ConnectionsAddUp, Chosen, Balanced

\* Nothing has been counted yet.
LEMMA FreshAddUp ==
    ASSUME pc = "top", pool = EmptyPool, sent = EmptySent, metrics = NewMetrics,
           tally = NothingTallied
    PROVE  AddUp
<1>1. \A c \in Counter : metrics.counter[c] = 0
  BY DEF NewMetrics
<1>2. /\ tally["answered"] = 0 /\ tally["bids"] = 0 /\ tally["forgotten"] = 0
      /\ tally["removed"] = 0 /\ tally["ended"] = 0
  BY DEF NothingTallied
<1>3. pool.pendingCount = 0 /\ Cardinality(sent.keys) = 0 /\ Chosen(pc = "live") = 0
  BY EmptyPoolKeeps, FreshSidecar DEF Chosen
<1> QED
  BY <1>1, <1>2, <1>3, NamedCounters
  DEF AddUp, InsertsAddUp, BidsAddUp, SentAddsUp, ConnectionsAddUp, Cong

\* What an Insert adds to the counters.
LEMMA InsertCounters ==
    ASSUME NEW m \in Metrics, NEW expired \in Int, NEW h, NEW seen, NEW r, Sound(r),
           ~(SkippedNonGateway(seen, h) /\ SkippedInvalidGateway(h))
    PROVE  LET counted == CountSkips(RecordInsert(RecordEvent(m, "insert")), h, seen)
               n == SetGauges(CountPairs(counted, expired, r), r.pool).counter
               c == m.counter
           IN  /\ n["inserts"] = Plus(c["inserts"], 1)
               /\ n["skippedNonGateway"] = IF SkippedNonGateway(seen, h)
                                           THEN Plus(c["skippedNonGateway"], 1)
                                           ELSE c["skippedNonGateway"]
               /\ n["skippedInvalidGateway"] = IF SkippedInvalidGateway(h)
                                               THEN Plus(c["skippedInvalidGateway"], 1)
                                               ELSE c["skippedInvalidGateway"]
               /\ n["bidsExpired"] = Plus(c["bidsExpired"], expired)
               /\ n["pairsMatched"] = Plus(c["pairsMatched"], r.matched)
               /\ n["bidsPended"] = Plus(c["bidsPended"], r.pended)
               /\ n["bidsEvicted"] = Plus(c["bidsEvicted"], r.evicted)
               /\ n["prioritized"] = c["prioritized"]
               /\ n["sentCacheEvictions"] = c["sentCacheEvictions"]
               /\ n["reconnects"] = c["reconnects"]
               /\ n["sendFailures"] = c["sendFailures"]
<1> DEFINE m1 == RecordEvent(m, "insert")
           m2 == RecordInsert(m1)
           m3 == CountSkips(m2, h, seen)
           m4 == AddBackrunExpired(m3, expired)
           m5 == AddBackrunPairs(m4, r.matched)
           m6 == AddBackrunPended(m5, r.pended)
           m7 == AddBackrunEvicted(m6, r.evicted)
           m8 == SetBackrunPending(m7, r.pool.pendingCount)
           m9 == SetBackrunCache(m8, Cardinality(Cached(r.pool)))
<1>0. /\ r.matched \in Int /\ r.pended \in Int /\ r.evicted \in Int
      /\ r.pool.pendingCount \in Nat /\ "insert" \in EventKind /\ "disabled" \in IpcState
  BY PoolFields DEF Sound, Core, EventKind, IpcState
<1>1. m1 \in Metrics /\ \A d \in Balanced : m1.counter[d] = m.counter[d]
  BY <1>0, CountingType, BumpedCounter, NamedCounters DEF RecordEvent, Balanced
<1> HIDE DEF m1
<1>2. m2 \in Metrics /\ \A d \in Balanced : m2.counter[d] =
        IF d = "inserts" THEN Plus(m1.counter[d], 1) ELSE m1.counter[d]
  <2>1. m2 \in Metrics
    BY <1>1, CountingType
  <2> QED
    BY <1>1, <2>1, BumpedCounter, NamedCounters DEF RecordInsert, Balanced
<1> HIDE DEF m2
<1>3. m3 \in Metrics /\ \A d \in Balanced : m3.counter[d] =
        IF \/ d = "skippedNonGateway" /\ SkippedNonGateway(seen, h)
           \/ d = "skippedInvalidGateway" /\ SkippedInvalidGateway(h)
        THEN Plus(m2.counter[d], 1) ELSE m2.counter[d]
  <2>1. m3 \in Metrics
    BY <1>2, CountingType DEF CountSkips
  <2>2. \A d \in Balanced :
          /\ RecordSkippedNonGateway(m2).counter[d] =
               IF d = "skippedNonGateway" THEN Plus(m2.counter[d], 1) ELSE m2.counter[d]
          /\ RecordSkippedInvalidGateway(m2).counter[d] =
               IF d = "skippedInvalidGateway" THEN Plus(m2.counter[d], 1) ELSE m2.counter[d]
    BY <1>2, BumpedCounter, NamedCounters
    DEF RecordSkippedNonGateway, RecordSkippedInvalidGateway, Balanced
  <2>3. CASE SkippedNonGateway(seen, h)
    BY <2>1, <2>2, <2>3 DEF CountSkips
  <2>4. CASE ~SkippedNonGateway(seen, h) /\ SkippedInvalidGateway(h)
    BY <2>1, <2>2, <2>4 DEF CountSkips
  <2>5. CASE ~SkippedNonGateway(seen, h) /\ ~SkippedInvalidGateway(h)
    BY <2>1, <2>5 DEF CountSkips
  <2> QED
    BY <2>3, <2>4, <2>5
<1> HIDE DEF m3
<1>4. m4 \in Metrics /\ \A d \in Balanced : m4.counter[d] =
        IF d = "bidsExpired" THEN Plus(m3.counter[d], expired) ELSE m3.counter[d]
  <2>1. m4 \in Metrics
    BY <1>3, CountingType
  <2> QED
    BY <1>3, <2>1, BumpedCounter, NamedCounters DEF AddBackrunExpired, Balanced
<1> HIDE DEF m4
<1>5. m5 \in Metrics /\ \A d \in Balanced : m5.counter[d] =
        IF d = "pairsMatched" THEN Plus(m4.counter[d], r.matched) ELSE m4.counter[d]
  <2>1. m5 \in Metrics
    BY <1>0, <1>4, CountingType
  <2> QED
    BY <1>4, <2>1, BumpedCounter, NamedCounters DEF AddBackrunPairs, Balanced
<1> HIDE DEF m5
<1>6. m6 \in Metrics /\ \A d \in Balanced : m6.counter[d] =
        IF d = "bidsPended" THEN Plus(m5.counter[d], r.pended) ELSE m5.counter[d]
  <2>1. m6 \in Metrics
    BY <1>0, <1>5, CountingType
  <2> QED
    BY <1>5, <2>1, BumpedCounter, NamedCounters DEF AddBackrunPended, Balanced
<1> HIDE DEF m6
<1>7. m7 \in Metrics /\ \A d \in Balanced : m7.counter[d] =
        IF d = "bidsEvicted" THEN Plus(m6.counter[d], r.evicted) ELSE m6.counter[d]
  <2>1. m7 \in Metrics
    BY <1>0, <1>6, CountingType
  <2> QED
    BY <1>6, <2>1, BumpedCounter, NamedCounters DEF AddBackrunEvicted, Balanced
<1> HIDE DEF m7
<1>8. m8 \in Metrics /\ m8.counter = m7.counter
  <2>1. m8 \in Metrics
    BY <1>0, <1>7 DEF Metrics, SetBackrunPending
  <2> QED
    BY <1>7, <2>1, SettingCounter
<1> HIDE DEF m8
<1>9. m9.counter = m8.counter
  BY <1>8, SettingCounter
<1>10. SetGauges(CountPairs(CountSkips(RecordInsert(RecordEvent(m, "insert")), h, seen),
                            expired, r), r.pool) = m9
  BY DEF SetGauges, CountPairs, m1, m2, m3, m4, m5, m6, m7, m8
<1> HIDE DEF m9
<1> SUFFICES /\ m9.counter["inserts"] = Plus(m.counter["inserts"], 1)
             /\ m9.counter["skippedNonGateway"] =
                  IF SkippedNonGateway(seen, h) THEN Plus(m.counter["skippedNonGateway"], 1)
                                                ELSE m.counter["skippedNonGateway"]
             /\ m9.counter["skippedInvalidGateway"] =
                  IF SkippedInvalidGateway(h) THEN Plus(m.counter["skippedInvalidGateway"], 1)
                                              ELSE m.counter["skippedInvalidGateway"]
             /\ m9.counter["bidsExpired"] = Plus(m.counter["bidsExpired"], expired)
             /\ m9.counter["pairsMatched"] = Plus(m.counter["pairsMatched"], r.matched)
             /\ m9.counter["bidsPended"] = Plus(m.counter["bidsPended"], r.pended)
             /\ m9.counter["bidsEvicted"] = Plus(m.counter["bidsEvicted"], r.evicted)
             /\ \A d \in {"prioritized", "sentCacheEvictions", "reconnects", "sendFailures"} :
                  m9.counter[d] = m.counter[d]
  BY <1>10
<1>11. m9.counter = m7.counter
  BY <1>8, <1>9
<1> QED
  BY <1>1, <1>2, <1>3, <1>4, <1>5, <1>6, <1>7, <1>11 DEF Balanced

\* Counting a choice adds it, up to laps.
LEMMA ChosenLaps ==
    ASSUME NEW n \in Int, NEW b
    PROVE  \E z \in Int : (IF b THEN Plus(n, 1) ELSE n) = n + Chosen(b) + CounterSpan * z
<1>1. CASE b
  BY <1>1, PlusLaps DEF Chosen
<1>2. CASE ~b
  <2>1. CounterSpan * 0 = 0
    BY CounterAssumption
  <2>2. n = n + Chosen(b) + CounterSpan * 0
    BY <1>2, <2>1 DEF Chosen
  <2> QED
    BY <1>2, <2>2
<1> QED
  BY <1>1, <1>2

\* k is i and d more, up to laps.
Gains(k, i, d) == \E z \in Int : k = i + d + CounterSpan * z

\* Both sides of an equation grow by the same amount.
LEMMA GrowAlike ==
    ASSUME NEW i \in Int, NEW j \in Int, NEW k \in Int, NEW l \in Int, NEW d \in Int,
           Cong(i, j), Gains(k, i, d), Gains(l, j, d)
    PROVE  Cong(k, l)
<1>1. CounterSpan \in Int
  BY CounterAssumption
<1>2. PICK y \in Int : k = i + d + CounterSpan * y
  BY DEF Gains
<1>3. PICK z \in Int : l = j + d + CounterSpan * z
  BY DEF Gains
<1>4. y - z \in Int /\ k - l = (i - j) + CounterSpan * (y - z)
  BY <1>1, <1>2, <1>3
<1> QED
  BY <1>4, CongKept

\* An Insert that is no echo is skipped, parked or answered, and counted so.
LEMMA InsertKeepsInserts ==
    ASSUME NEW i \in Int, NEW g \in Int, NEW v \in Int, NEW p \in Int, NEW a \in Int,
           Cong(i, g + v + p + a),
           NEW G, NEW V, NEW A, NEW pended \in Int,
           Chosen(G) + Chosen(V) + pended + Chosen(A) = 1
    PROVE  Cong(Plus(i, 1), (IF G THEN Plus(g, 1) ELSE g) + (IF V THEN Plus(v, 1) ELSE v)
                              + Plus(p, pended) + Plus(a, Chosen(A)))
<1> DEFINE k == Plus(i, 1)
           g1 == IF G THEN Plus(g, 1) ELSE g
           v1 == IF V THEN Plus(v, 1) ELSE v
           p1 == Plus(p, pended)
           a1 == Plus(a, Chosen(A))
           s == CounterSpan
           dg == Chosen(G)
           dv == Chosen(V)
           da == Chosen(A)
<1>0. dg \in Int /\ dv \in Int /\ da \in Int /\ s \in Int /\ dg + dv + pended + da = 1
  BY CounterAssumption DEF Chosen
<1>1. PICK z0 \in Int : k = i + 1 + s * z0
  BY PlusLaps
<1>2. PICK z1 \in Int : g1 = g + dg + s * z1
  BY ChosenLaps
<1>3. PICK z2 \in Int : v1 = v + dv + s * z2
  BY ChosenLaps
<1>4. PICK z3 \in Int : p1 = p + pended + s * z3
  BY PlusLaps
<1>5. PICK z4 \in Int : a1 = a + da + s * z4
  BY <1>0, PlusLaps
<1> HIDE DEF k, g1, v1, p1, a1, s, dg, dv, da
<1> DEFINE j == g + v + p + a
           l == g1 + v1 + p1 + a1
           z == z1 + z2 + z3 + z4
<1>6. k \in Int /\ l \in Int /\ j \in Int /\ z \in Int
  BY <1>0, <1>1, <1>2, <1>3, <1>4, <1>5
<1>7. l = j + 1 + s * z
  BY <1>0, <1>2, <1>3, <1>4, <1>5
<1>8. Cong(i, j)
  OBVIOUS
<1> HIDE DEF j, l, z
<1>9. Gains(k, i, 1) /\ Gains(l, j, 1)
  BY <1>1, <1>6, <1>7 DEF Gains, s
<1>10. Cong(k, l)
  BY <1>6, <1>8, <1>9, GrowAlike
<1> QED
  BY <1>10 DEF k, g1, v1, p1, a1, l, da

\* A bid observed is parked, expires, is evicted, or is paired.
LEMMA InsertKeepsBids ==
    ASSUME NEW n \in Int, NEW c \in Int, NEW x \in Int, NEW e \in Int, NEW f \in Int,
           NEW g \in Int, Cong(n, c + x + e + f + g),
           NEW bid \in Int, NEW c1 \in Int, NEW expired \in Int, NEW evicted \in Int,
           NEW matched \in Int, c1 + expired + evicted + matched = c + bid
    PROVE  Cong(Plus(n, bid),
                c1 + Plus(x, expired) + Plus(e, evicted) + Plus(f, matched) + g)
<1> DEFINE k == Plus(n, bid)
           x1 == Plus(x, expired)
           e1 == Plus(e, evicted)
           f1 == Plus(f, matched)
           s == CounterSpan
<1>0. s \in Int
  BY CounterAssumption
<1>1. PICK z0 \in Int : k = n + bid + s * z0
  BY PlusLaps
<1>2. PICK z1 \in Int : x1 = x + expired + s * z1
  BY PlusLaps
<1>3. PICK z2 \in Int : e1 = e + evicted + s * z2
  BY PlusLaps
<1>4. PICK z3 \in Int : f1 = f + matched + s * z3
  BY PlusLaps
<1> HIDE DEF k, x1, e1, f1, s
<1> DEFINE j == c + x + e + f + g
           l == c1 + x1 + e1 + f1 + g
           z == z1 + z2 + z3
<1>5. k \in Int /\ l \in Int /\ j \in Int /\ z \in Int
  BY <1>0, <1>1, <1>2, <1>3, <1>4
<1>6. l = j + bid + s * z
  BY <1>0, <1>2, <1>3, <1>4
<1>7. Cong(n, j)
  OBVIOUS
<1> HIDE DEF j, l, z
<1>8. Gains(k, n, bid) /\ Gains(l, j, bid)
  BY <1>1, <1>5, <1>6 DEF Gains, s
<1>9. Cong(k, l)
  BY <1>5, <1>7, <1>8, GrowAlike
<1> QED
  BY <1>9 DEF k, x1, e1, f1, l

\* What one part of a sum loses, a count gains.
LEMMA Shifted ==
    ASSUME NEW n \in Int, NEW c \in Int, NEW o \in Int, NEW f \in Int, Cong(n, c + o + f),
           NEW c1 \in Int
    PROVE  Cong(n, c1 + o + Plus(f, c - c1))
<1> DEFINE f1 == Plus(f, c - c1)
           s == CounterSpan
<1>1. PICK z \in Int : f1 = f + (c - c1) + s * z
  BY PlusLaps
<1>2. s \in Int /\ s * 0 = 0
  BY CounterAssumption
<1> HIDE DEF f1, s
<1> DEFINE l == c1 + o + f1
           j == c + o + f
<1>3. l \in Int /\ j \in Int
  BY <1>1, <1>2
<1>4. l = j + 0 + s * z
  BY <1>1, <1>2
<1>5. n = n + 0 + s * 0
  BY <1>2
<1>6. Cong(n, j)
  OBVIOUS
<1> HIDE DEF l, j
<1>7. Gains(l, j, 0)
  BY <1>4 DEF Gains, s
<1>8. Gains(n, n, 0)
  <2>1. 0 \in Int
    OBVIOUS
  <2> QED
    BY <1>5, <2>1 DEF Gains, s
<1>9. Cong(n, l)
  BY 0 \in Int, <1>3, <1>6, <1>7, <1>8, GrowAlike
<1> QED
  BY <1>9 DEF l, f1

\* What prune takes out of the vectors is what it counts as expired.
LEMMA SeenExpired ==
    ASSUME NEW p, Core(p), NEW seen \in {Pruned(p), Aged(Pruned(p))}
    PROVE  p.pendingCount = seen.pendingCount + Expired(p)
<1>1. Core(Pruned(p))
  BY PrunedProperties
<1>2. seen.pendingCount = Pruned(p).pendingCount
  BY <1>1, AgedProperties
<1>3. /\ p.pendingCount \in Nat /\ Pruned(p).pendingCount \in Nat
      /\ Expired(p) = p.pendingCount - Pruned(p).pendingCount
  BY <1>1, PoolFields, ExpiredExact DEF Core
<1> QED
  BY <1>2, <1>3

LEMMA HandleInsertAddsUp == ASSUME IInv, AddUp, HandleInsert PROVE AddUp'
<1> DEFINE c == metrics.counter
           n == metrics'.counter
<1>1. PICK seen \in {Pruned(pool), Aged(Pruned(pool))} :
        LET h == Head(batch).hash
            r == Observed(seen, h)
        IN  /\ h \in Hash /\ Core(seen) /\ Within(seen) /\ NoMissedBut({}, seen)
            /\ Sound(r) /\ Expired(pool) \in Nat
            /\ pool' = r.pool
            /\ metrics' = SetGauges(CountPairs(CountSkips(
                              RecordInsert(RecordEvent(metrics, "insert")), h, seen),
                              Expired(pool), r), r.pool)
            /\ tally' = [tally EXCEPT
                           !["answered"] = Plus(@, IF r.reinjections = <<>> THEN 0 ELSE 1),
                           !["bids"] = Plus(@, IF h \in Backrun THEN 1 ELSE 0)]
  BY HandleInsertOutcome
<1> DEFINE h == Head(batch).hash
           r == Observed(seen, h)
           expired == Expired(pool)
           bid == IF h \in Backrun THEN 1 ELSE 0
           G == SkippedNonGateway(seen, h)
           V == SkippedInvalidGateway(h)
           A == r.reinjections # <<>>
<1>2. /\ r.pended \in {0, 1} /\ Chosen(G) + Chosen(V) + r.pended + Chosen(A) = 1
      /\ ~(G /\ V)
  BY <1>1, ObservedAccounted
<1>3. /\ Sound(r) /\ expired \in Nat /\ pool' = r.pool
      /\ metrics' = SetGauges(CountPairs(CountSkips(
                        RecordInsert(RecordEvent(metrics, "insert")), h, seen),
                        expired, r), r.pool)
      /\ tally' = [tally EXCEPT !["answered"] = Plus(@, Chosen(A)), !["bids"] = Plus(@, bid)]
  BY <1>1 DEF Chosen
<1>4. /\ metrics \in Metrics
      /\ tally \in [{"answered", "bids", "forgotten", "removed", "ended"} -> Count]
  BY DEF IInv, TypeOK, Tally
<1>5. /\ r.pool.pendingCount \in Int /\ r.pended \in Int /\ r.evicted \in Int
      /\ r.matched \in Int /\ bid \in Int
      /\ pool.pendingCount \in Int /\ seen.pendingCount \in Int
  BY <1>1, <1>3, PoolFields, CountsAreInt DEF Sound, Core, IInv
<1>6. r.pool.pendingCount + expired + r.evicted + r.matched = pool.pendingCount + bid
  <2> DEFINE paired == IF h \in Vanilla THEN r.matched ELSE 0
             answered == IF h \in Vanilla THEN 0 ELSE r.matched
  <2>1. /\ seen.pendingCount + r.pended = r.pool.pendingCount + r.evicted + paired
        /\ r.pended + answered = bid
    BY <1>1, ObservedBalances
  <2>2. pool.pendingCount = seen.pendingCount + expired
    BY SeenExpired DEF IInv, Keeps
  <2>3. paired \in Int /\ answered \in Int /\ paired + answered = r.matched
    BY <1>5
  <2> DEFINE k1 == r.pool.pendingCount
             e == r.evicted
             f == r.matched
             d == r.pended
             s == seen.pendingCount
             k == pool.pendingCount
  <2>4. /\ k1 \in Int /\ e \in Int /\ f \in Int /\ d \in Int /\ s \in Int /\ k \in Int
        /\ bid \in Int /\ expired \in Int
    BY <1>3, <1>5
  <2>5. s + d = k1 + e + paired /\ d + answered = bid /\ k = s + expired
    BY <2>1, <2>2
  <2>6. paired \in Int /\ answered \in Int /\ paired + answered = f
    BY <2>3
  <2> HIDE DEF paired, answered, bid, expired, k1, e, f, d, s, k
  <2>7. k1 + expired + e + f = k + bid
    BY <2>4, <2>5, <2>6
  <2> QED
    BY <2>7 DEF k1, e, f, k
<1> HIDE DEF h, r, expired, bid, A, G, V
<1>7. /\ n["inserts"] = Plus(c["inserts"], 1)
      /\ n["skippedNonGateway"] = IF G THEN Plus(c["skippedNonGateway"], 1)
                                       ELSE c["skippedNonGateway"]
      /\ n["skippedInvalidGateway"] = IF V THEN Plus(c["skippedInvalidGateway"], 1)
                                           ELSE c["skippedInvalidGateway"]
      /\ n["bidsExpired"] = Plus(c["bidsExpired"], expired)
      /\ n["pairsMatched"] = Plus(c["pairsMatched"], r.matched)
      /\ n["bidsPended"] = Plus(c["bidsPended"], r.pended)
      /\ n["bidsEvicted"] = Plus(c["bidsEvicted"], r.evicted)
      /\ n["prioritized"] = c["prioritized"]
      /\ n["sentCacheEvictions"] = c["sentCacheEvictions"]
      /\ n["reconnects"] = c["reconnects"]
      /\ n["sendFailures"] = c["sendFailures"]
  <2>1. ~(SkippedNonGateway(seen, h) /\ SkippedInvalidGateway(h))
    BY <1>2 DEF G, V
  <2> QED
    BY <1>3, <1>4, <2>1, InsertCounters DEF G, V
<1>8. /\ tally'["answered"] = Plus(tally["answered"], Chosen(A))
      /\ tally'["bids"] = Plus(tally["bids"], bid)
      /\ tally'["forgotten"] = tally["forgotten"]
      /\ tally'["removed"] = tally["removed"] /\ tally'["ended"] = tally["ended"]
  BY <1>3, <1>4
<1>9. /\ \A d \in Balanced : c[d] \in Int
      /\ tally["answered"] \in Int /\ tally["bids"] \in Int /\ tally["forgotten"] \in Int
  BY CountsAreInt, NamedCounters DEF IInv, Balanced
<1> HIDE DEF c, n
<1>10. InsertsAddUp'
  <2>1. Cong(c["inserts"], c["skippedNonGateway"] + c["skippedInvalidGateway"]
                             + c["bidsPended"] + tally["answered"])
    BY DEF AddUp, InsertsAddUp, c
  <2> DEFINE i == c["inserts"]
             g == c["skippedNonGateway"]
             v == c["skippedInvalidGateway"]
             p == c["bidsPended"]
             a == tally["answered"]
             pended == r.pended
  <2>3. /\ i \in Int /\ g \in Int /\ v \in Int /\ p \in Int /\ a \in Int /\ pended \in Int
        /\ Cong(i, g + v + p + a) /\ Chosen(G) + Chosen(V) + pended + Chosen(A) = 1
    BY <1>2, <1>5, <1>9, <2>1 DEF Balanced
  <2> HIDE DEF i, g, v, p, a, pended
  <2>4. Cong(Plus(i, 1), (IF G THEN Plus(g, 1) ELSE g) + (IF V THEN Plus(v, 1) ELSE v)
                            + Plus(p, pended) + Plus(a, Chosen(A)))
    BY <2>3, InsertKeepsInserts
  <2>2. Cong(Plus(c["inserts"], 1),
             (IF G THEN Plus(c["skippedNonGateway"], 1) ELSE c["skippedNonGateway"])
               + (IF V THEN Plus(c["skippedInvalidGateway"], 1) ELSE c["skippedInvalidGateway"])
               + Plus(c["bidsPended"], r.pended) + Plus(tally["answered"], Chosen(A)))
    BY <2>4 DEF i, g, v, p, a, pended
  <2> QED
    BY <1>7, <1>8, <2>2 DEF InsertsAddUp, n
<1>11. BidsAddUp'
  <2> DEFINE b == tally["bids"]
             k == pool.pendingCount
             x == c["bidsExpired"]
             e == c["bidsEvicted"]
             f == c["pairsMatched"]
             g == tally["forgotten"]
             k1 == r.pool.pendingCount
             evicted == r.evicted
             matched == r.matched
  <2>1. /\ b \in Int /\ k \in Int /\ x \in Int /\ e \in Int /\ f \in Int /\ g \in Int
        /\ bid \in Int /\ k1 \in Int /\ evicted \in Int /\ expired \in Int /\ matched \in Int
        /\ k1 + expired + evicted + matched = k + bid
    BY <1>3, <1>5, <1>6, <1>9 DEF Balanced
  <2>2. Cong(b, k + x + e + f + g)
    BY DEF AddUp, BidsAddUp, c
  <2> HIDE DEF b, k, x, e, f, g, k1, evicted, matched
  <2>3. Cong(Plus(b, bid),
             k1 + Plus(x, expired) + Plus(e, evicted) + Plus(f, matched) + g)
    BY <2>1, <2>2, InsertKeepsBids
  <2>4. Cong(Plus(tally["bids"], bid),
             r.pool.pendingCount + Plus(c["bidsExpired"], expired)
               + Plus(c["bidsEvicted"], r.evicted) + Plus(c["pairsMatched"], r.matched)
               + tally["forgotten"])
    BY <2>3 DEF b, k, x, e, f, g, k1, evicted, matched
  <2> QED
    BY <1>3, <1>7, <1>8, <2>4 DEF BidsAddUp, n
<1>12. SentAddsUp' /\ ConnectionsAddUp'
  <2>1. sent' = sent /\ pc' = pc
    BY DEF HandleInsert
  <2> QED
    BY <1>7, <1>8, <2>1 DEF AddUp, SentAddsUp, ConnectionsAddUp, c, n
<1> QED
  BY <1>10, <1>11, <1>12 DEF AddUp

\* The sizes and counts of the next state are integers too.
LEMMA NextCountsAreInt ==
    ASSUME IInv'
    PROVE  pool'.pendingCount \in Int /\ Cardinality(sent'.keys) \in Int
<1>1. TypeOK'
  BY DEF IInv
<1>2. pool'.pendingCount \in Nat
  BY <1>1, PoolFields DEF TypeOK
<1>3. Cardinality(sent'.keys) \in Nat
  BY <1>1, KeysCount DEF TypeOK
<1> QED
  BY <1>2, <1>3

\* The removal of one parked copy lowers the count by one, if there is a copy.
LEMMA UnparkedExact ==
    ASSUME NEW p, Core(p), NEW b \in Backrun
    PROVE  LET k == IF Copies(p, Target[b], b) = {} THEN 0 ELSE 1
           IN  Unparked(p, b).pendingCount + k = p.pendingCount
<1> DEFINE t == Target[b]
           copies == Copies(p, t, b)
           i == FirstOf(copies, 0)
           one == {i}
           r == Taken(p, t, one)
<1>1. p.pendingCount \in Nat /\ t \in Hash /\ p.pending \in [Hash -> Seq(PendingBid)]
  BY PoolFields, TargetAssumption DEF Core
<1>2. CASE copies = {}
  BY <1>1, <1>2 DEF Unparked
<1>3. CASE copies # {}
  <2>1. p.pending[t] \in Seq(PendingBid) /\ copies \subseteq DOMAIN p.pending[t]
    BY <1>1 DEF Copies
  <2>2. copies \in SUBSET Nat
    BY <2>1, LenProperties
  <2>3. i \in copies
    BY <1>3, <2>2, FirstOfLeast
  <2>4. one \in SUBSET DOMAIN p.pending[t] /\ Cardinality(one) = 1
    BY <2>1, <2>3, FS_Singleton
  <2> HIDE DEF one
  <2>5. r.pendingCount = p.pendingCount - Cardinality(one)
    <3> HIDE DEF t, r
    <3> QED
      BY <1>1, <2>4, TakenProperties DEF r
  <2>6. Cardinality(one) = 1
    BY <2>4
  <2>7. Unparked(p, b) = r
    BY <1>3 DEF Unparked, one
  <2> HIDE DEF r
  <2>8. Unparked(p, b).pendingCount + 1 = p.pendingCount
    BY <1>1, <2>5, <2>6, <2>7
  <2> QED
    BY <1>3, <2>8
<1> QED
  BY <1>2, <1>3

\* forget takes out of the vectors the bids that waited for h and, when h is a
\* bid parked elsewhere, one copy of it.
LEMMA ForgottenExact ==
    ASSUME NEW p, Core(p), Placed(p), NEW h \in Hash
    PROVE  Forgotten(p, h).pendingCount + ForgottenBids(p, h) = p.pendingCount
<1> DEFINE q == EntryForgotten(p, h)
           d == DOMAIN q.pending[h]
           t == Taken(q, h, d)
           r == Forgotten(p, h)
           n == Len(p.pending[h])
           apart == \E u \in Hash \ {h} : h \in Parked(p, u)
           k == IF apart THEN 1 ELSE 0
<1>1. r = IF h \in Backrun THEN Unparked(t, h) ELSE t
  BY DEF Forgotten, EntryForgotten
<1>2. p.pendingCount \in Nat /\ p.pending \in [Hash -> Seq(PendingBid)]
  BY PoolFields DEF Core
<1>3. Core(q) /\ q.pending = p.pending /\ q.pendingCount = p.pendingCount
  BY EntryForgottenProperties DEF SameBids
<1>4. ForgottenBids(p, h) = n + k
  BY DEF ForgottenBids
<1> HIDE DEF q, r, t, apart
<1>5. /\ Core(t)
      /\ t.pending = [q.pending EXCEPT ![h] = Without(q.pending[h], d)]
      /\ t.pendingCount = q.pendingCount - Cardinality(d)
  <2>1. d \in SUBSET DOMAIN q.pending[h]
    OBVIOUS
  <2> HIDE DEF d
  <2> QED
    BY <1>3, <2>1, TakenProperties DEF t
<1>6. n \in Nat /\ d = 1..n
  BY <1>2, <1>3, LenProperties
<1>7. t.pendingCount + n = p.pendingCount /\ t.pendingCount \in Nat
  <2>1. Cardinality(d) = n
    BY <1>6, FS_Interval
  <2>2. t.pendingCount \in Nat
    BY <1>5, PoolFields DEF Core
  <2> HIDE DEF d, n
  <2> QED
    BY <1>2, <1>3, <1>5, <1>6, <2>1, <2>2
<1> HIDE DEF n
<1>8. CASE h \notin Backrun
  <2>1. ~apart
    BY <1>8 DEF apart, Parked
  <2>2. k = 0 /\ r = t
    BY <1>1, <1>8, <2>1
  <2> HIDE DEF k
  <2>3. n + k = n
    BY <1>6, <2>2
  <2> QED
    BY <1>4, <1>7, <2>2, <2>3 DEF r
<1>9. CASE h \in Backrun
  <2> DEFINE T == Target[h]
             j == IF Copies(t, T, h) = {} THEN 0 ELSE 1
  <2>1. r = Unparked(t, h) /\ Unparked(t, h).pendingCount + j = t.pendingCount
    BY <1>1, <1>5, <1>9, UnparkedExact
  <2>2. T \in Hash /\ \A u \in Hash : h \in Parked(p, u) => u = T
    BY <1>9, TargetAssumption DEF Placed, Parked, Copies
  <2>3. (Copies(t, T, h) # {}) <=> apart
    <3>1. CASE T = h
      <4>1. t.pending[h] = <<>>
        BY <1>2, <1>3, <1>5, WithoutOfEmpty, WithoutAll
      <4>2. ~apart
        BY <2>2, <3>1 DEF apart
      <4>3. Copies(t, T, h) = {}
        BY <3>1, <4>1 DEF Copies
      <4> QED
        BY <4>2, <4>3
    <3>2. CASE T # h
      <4>1. t.pending[T] = p.pending[T]
        BY <1>2, <1>3, <1>5, <2>2, <3>2
      <4>2. Copies(t, T, h) = Copies(p, T, h)
        BY <4>1 DEF Copies
      <4>3. apart <=> h \in Parked(p, T)
        BY <2>2, <3>2 DEF apart
      <4>4. h \in Parked(p, T) <=> Copies(p, T, h) # {}
        BY <1>9 DEF Parked
      <4> QED
        BY <4>2, <4>3, <4>4
    <3> QED
      BY <3>1, <3>2
  <2>4. j = k /\ k \in {0, 1}
    BY <2>3
  <2>5. r.pendingCount \in Nat
    <3>1. Core(r)
      BY ForgottenProperties DEF r
    <3> QED
      BY <3>1, PoolFields DEF Core
  <2> HIDE DEF j, k
  <2>6. r.pendingCount + (n + k) = p.pendingCount
    BY <1>6, <1>7, <2>1, <2>4, <2>5
  <2> QED
    BY <1>4, <2>6 DEF r
<1> QED
  BY <1>8, <1>9

\* A departure moves bids from the parked to the forgotten, and a hash from the
\* remembered to the removed.
LEMMA HandleLeaveAddsUp == ASSUME IInv, Sorted, AddUp, HandleLeave PROVE AddUp'
<1> DEFINE h == Head(batch).hash
           c == metrics.counter
           m == RecordEvent(metrics, "leave")
           k == pool.pendingCount
           k1 == pool'.pendingCount
           q == Cardinality(sent.keys)
           q1 == Cardinality(sent'.keys)
           x == c["bidsExpired"] + c["bidsEvicted"] + c["pairsMatched"]
           e == c["sentCacheEvictions"]
           b == tally["bids"]
           p == c["prioritized"]
           f == tally["forgotten"]
           g == tally["removed"]
           removed == IF h \in sent.keys THEN 1 ELSE 0
           forgotten == ForgottenBids(pool, h)
<1>1. /\ k \in Int /\ q \in Int /\ f \in Int /\ g \in Int /\ x \in Int /\ e \in Int
      /\ b \in Int /\ p \in Int
  BY CountsAreInt, NamedCounters DEF IInv
<1>2. k1 \in Int /\ q1 \in Int
  BY HandleLeaveKeeps, NextCountsAreInt
<1>3. /\ metrics \in Metrics
      /\ tally \in [{"answered", "bids", "forgotten", "removed", "ended"} -> Count]
  BY DEF IInv, TypeOK, Tally
<1>4. metrics' = SetSentCache(m, q1)
  BY DEF HandleLeave
<1>5. \A d \in Balanced : metrics'.counter[d] = c[d]
  <2>1. m \in Metrics /\ \A d \in Balanced : m.counter[d] = c[d]
    BY <1>3, 0 \in Int, CountingType, BumpedCounter, NamedCounters
    DEF RecordEvent, EventKind, Balanced
  <2> HIDE DEF m
  <2>2. metrics'.counter = m.counter
    BY <1>4, <2>1, SettingCounter
  <2> QED
    BY <2>1, <2>2
<1>6. /\ tally' = [tally EXCEPT !["removed"] = Plus(g, removed), !["forgotten"] = Plus(f, forgotten)]
      /\ sent' = SentRemoved(sent, h) /\ pool' = Forgotten(pool, h) /\ h \in Hash
  BY FirstEvent DEF HandleLeave, InBatch, IInv
<1>7. /\ tally'["removed"] = Plus(g, removed) /\ tally'["forgotten"] = Plus(f, forgotten)
      /\ tally'["answered"] = tally["answered"] /\ tally'["bids"] = b
      /\ tally'["ended"] = tally["ended"]
  BY <1>3, <1>6
<1> HIDE DEF h
<1>8. forgotten = k - k1
  <2>1. k1 + forgotten = k
    BY <1>6, ForgottenExact DEF IInv, Keeps, Sorted
  <2>2. forgotten \in Nat
    BY <1>6, ForgottenBidsType DEF IInv, TypeOK
  <2> HIDE DEF forgotten, k, k1
  <2> QED
    BY <1>1, <1>2, <2>1, <2>2
<1>9. removed = q - q1
  <2>1. sent.keys \in SUBSET Hash /\ sent'.keys = sent.keys \ {h}
    BY <1>6, SentRemovedType DEF IInv, TypeOK, SentType
  <2>2. CASE h \in sent.keys
    <3>1. q1 = q - 1
      BY <2>1, <2>2, HashFinite, FS_RemoveElement
    <3> HIDE DEF q, q1
    <3> QED
      BY <1>1, <2>2, <3>1
  <2>3. CASE h \notin sent.keys
    <3>1. q1 = q
      <4>1. sent'.keys = sent.keys
        BY <2>1, <2>3
      <4> QED
        BY <4>1
    <3> HIDE DEF q, q1
    <3> QED
      BY <1>1, <2>3, <3>1
  <2> QED
    BY <2>2, <2>3
<1> HIDE DEF removed, forgotten
<1>10. pc' = pc
  BY DEF HandleLeave, InBatch
<1>11. InsertsAddUp' /\ ConnectionsAddUp'
  BY <1>5, <1>7, <1>10 DEF AddUp, InsertsAddUp, ConnectionsAddUp, Chosen, Balanced
<1>12. BidsAddUp'
  <2>1. Cong(b, k + x + f)
    <3>1. k + x + f = k + c["bidsExpired"] + c["bidsEvicted"] + c["pairsMatched"] + f
      BY CountsAreInt, NamedCounters DEF IInv
    <3> QED
      BY <3>1 DEF AddUp, BidsAddUp
  <2>2. k1 + x + Plus(f, k - k1) = k1 + c["bidsExpired"] + c["bidsEvicted"]
                                     + c["pairsMatched"] + Plus(f, k - k1)
    <3> DEFINE f1 == Plus(f, k - k1)
    <3>1. f1 \in Int
      <4>1. k - k1 \in Int
        BY <1>1, <1>2
      <4> QED
        BY <1>1, <4>1, PlusInt
    <3> HIDE DEF f1
    <3>2. k1 + x + f1 = k1 + c["bidsExpired"] + c["bidsEvicted"] + c["pairsMatched"] + f1
      BY <1>2, <3>1, CountsAreInt, NamedCounters DEF IInv
    <3> QED
      BY <3>2 DEF f1
  <2> HIDE DEF k, k1, x, f, b
  <2>3. Cong(b, k1 + x + Plus(f, k - k1))
    BY <1>1, <1>2, <2>1, Shifted
  <2> QED
    BY <1>5, <1>7, <1>8, <2>2, <2>3 DEF BidsAddUp, Balanced, k1, b
<1>13. SentAddsUp'
  <2>1. Cong(p, q + e + g)
    BY DEF AddUp, SentAddsUp
  <2> HIDE DEF q, q1, e, g, p
  <2>2. Cong(p, q1 + e + Plus(g, q - q1))
    BY <1>1, <1>2, <2>1, Shifted
  <2> QED
    BY <1>5, <1>7, <1>9, <2>2 DEF SentAddsUp, Balanced, q1, e, p
<1> QED
  BY <1>11, <1>12, <1>13 DEF AddUp

\* One more is sent: it is remembered, and what the memory evicted is counted.
LEMMA SendKeepsSent ==
    ASSUME NEW n \in Int, NEW c \in Int, NEW x \in Int, NEW g \in Int, Cong(n, c + x + g),
           NEW c1 \in Int, NEW evicted \in Int, c1 + evicted = c + 1
    PROVE  Cong(Plus(n, 1), c1 + Plus(x, evicted) + g)
<1> DEFINE k == Plus(n, 1)
           x1 == Plus(x, evicted)
           s == CounterSpan
<1>0. s \in Int
  BY CounterAssumption
<1>1. PICK z0 \in Int : k = n + 1 + s * z0
  BY PlusLaps
<1>2. PICK z1 \in Int : x1 = x + evicted + s * z1
  BY PlusLaps
<1> HIDE DEF k, x1, s
<1> DEFINE j == c + x + g
           l == c1 + x1 + g
<1>3. k \in Int /\ l \in Int /\ j \in Int
  BY <1>0, <1>1, <1>2
<1>4. l = j + 1 + s * z1
  BY <1>0, <1>2
<1>5. Cong(n, j)
  OBVIOUS
<1> HIDE DEF j, l
<1>6. Gains(k, n, 1) /\ Gains(l, j, 1)
  BY <1>1, <1>4 DEF Gains, s
<1>7. Cong(k, l)
  BY <1>3, <1>5, <1>6, GrowAlike
<1> QED
  BY <1>7 DEF k, x1, l

LEMMA SendOkAddsUp == ASSUME IInv, AddUp, SendOk PROVE AddUp'
<1> DEFINE c == metrics.counter
           n == metrics'.counter
           q == Cardinality(sent.keys)
           q1 == Cardinality(sent'.keys)
           evicted == SentEvictions(sent, Head(todo).hash)
           m1 == RecordPrioritized(metrics)
           m2 == AddSentCacheEvictions(m1, evicted)
<1>1. /\ q \in Int /\ tally["removed"] \in Int
      /\ c["prioritized"] \in Int /\ c["sentCacheEvictions"] \in Int
  BY CountsAreInt, NamedCounters DEF IInv
<1>2. q1 \in Int
  BY SendOkKeeps, NextCountsAreInt
<1>3. metrics \in Metrics
  BY DEF IInv, TypeOK
<1>4. metrics' = SetSentCache(m2, q1)
  BY DEF SendOk
<1>5. evicted \in Int /\ q1 + evicted = q + 1
  <2>1. /\ Head(todo).hash \in Hash /\ Head(todo).hash \notin sent.keys
        /\ sent \in SentType /\ sent' = SentInserted(sent, Head(todo).hash)
    BY FirstToSend DEF SendOk, Sending, IInv, TypeOK, SentType
  <2> QED
    BY <2>1, SentInsertedType
<1> HIDE DEF q, q1, evicted
<1>6. m1 \in Metrics /\ \A d \in Balanced : m1.counter[d] =
        IF d = "prioritized" THEN Plus(c[d], 1) ELSE c[d]
  BY <1>3, 0 \in Int, CountingType, BumpedCounter, NamedCounters DEF RecordPrioritized, Balanced
<1> HIDE DEF m1
<1>7. m2 \in Metrics /\ \A d \in Balanced : m2.counter[d] =
        IF d = "sentCacheEvictions" THEN Plus(m1.counter[d], evicted) ELSE m1.counter[d]
  <2>1. m2 \in Metrics
    BY <1>5, <1>6, CountingType
  <2> QED
    BY <1>6, <2>1, BumpedCounter, NamedCounters DEF AddSentCacheEvictions, Balanced
<1> HIDE DEF m2
<1>8. n = m2.counter
  BY <1>4, <1>7, SettingCounter
<1> HIDE DEF n
<1>9. /\ n["prioritized"] = Plus(c["prioritized"], 1)
      /\ n["sentCacheEvictions"] = Plus(c["sentCacheEvictions"], evicted)
      /\ \A d \in Balanced \ {"prioritized", "sentCacheEvictions"} : n[d] = c[d]
  BY <1>6, <1>7, <1>8 DEF Balanced
<1>10. pool' = pool /\ tally' = tally /\ pc' = pc
  BY DEF SendOk, history
<1>11. InsertsAddUp' /\ BidsAddUp' /\ ConnectionsAddUp'
  BY <1>9, <1>10
  DEF AddUp, InsertsAddUp, BidsAddUp, ConnectionsAddUp, Chosen, Balanced, n
<1>12. SentAddsUp'
  <2> DEFINE p == c["prioritized"]
             x == c["sentCacheEvictions"]
             g == tally["removed"]
  <2>1. /\ p \in Int /\ x \in Int /\ g \in Int
        /\ Cong(p, q + x + g)
    BY <1>1 DEF AddUp, SentAddsUp, q
  <2> HIDE DEF p, x, g
  <2>2. Cong(Plus(p, 1), q1 + Plus(x, evicted) + g)
    BY <1>1, <1>2, <1>5, <2>1, SendKeepsSent DEF q
  <2> QED
    BY <1>9, <1>10, <2>2 DEF SentAddsUp, n, q1, p, x, g
<1> QED
  BY <1>11, <1>12 DEF AddUp

\* A connection made, or ended, is counted so.
LEMMA ConnectionMade ==
    ASSUME NEW r \in Int, NEW f \in Int, NEW e \in Int, Cong(r, f + e + 0)
    PROVE  Cong(Plus(r, 1), f + e + 1)
<1> DEFINE k == Plus(r, 1)
           s == CounterSpan
<1>0. s \in Int /\ s * 0 = 0
  BY CounterAssumption
<1>1. PICK z \in Int : k = r + 1 + s * z
  BY PlusLaps
<1> HIDE DEF k, s
<1> DEFINE j == f + e + 0
           l == f + e + 1
<1>2. k \in Int /\ l \in Int /\ j \in Int
  BY <1>0, <1>1
<1>3. l = j + 1 + s * 0
  BY <1>0
<1>4. Cong(r, j)
  OBVIOUS
<1> HIDE DEF j, l
<1>5. Gains(k, r, 1)
  BY <1>1 DEF Gains, s
<1>6. Gains(l, j, 1)
  BY 0 \in Int, <1>3 DEF Gains, s
<1>7. Cong(k, l)
  BY <1>2, <1>4, <1>5, <1>6, GrowAlike
<1> QED
  BY <1>7 DEF k, l

LEMMA ConnectionEnded ==
    ASSUME NEW r \in Int, NEW f \in Int, NEW e \in Int, Cong(r, f + e + 1)
    PROVE  Cong(r, f + Plus(e, 1) + 0) /\ Cong(r, Plus(f, 1) + e + 0)
<1> DEFINE e1 == Plus(e, 1)
           f1 == Plus(f, 1)
<1>1. e1 \in Int /\ f1 \in Int
  BY 1 \in Int, PlusInt
<1>2. Plus(e, 1 - 0) = e1 /\ Plus(f, 1 - 0) = f1
  OBVIOUS
<1> HIDE DEF e1, f1
<1>3. 1 + f + e = f + e + 1 /\ 1 + e + f = f + e + 1
  OBVIOUS
<1>4. Cong(r, 0 + f + e1)
  <2>1. Cong(r, 1 + f + e)
    BY <1>3
  <2>2. Cong(r, 0 + f + Plus(e, 1 - 0))
    BY <2>1, 0 \in Int, 1 \in Int, Shifted
  <2> QED
    BY <1>2, <2>2
<1>5. Cong(r, 0 + e + f1)
  <2>1. Cong(r, 1 + e + f)
    BY <1>3
  <2>2. Cong(r, 0 + e + Plus(f, 1 - 0))
    BY <2>1, 0 \in Int, 1 \in Int, Shifted
  <2> QED
    BY <1>2, <2>2
<1>6. 0 + f + e1 = f + e1 + 0 /\ 0 + e + f1 = f1 + e + 0
  BY <1>1
<1> QED
  BY <1>4, <1>5, <1>6 DEF e1, f1

LEMMA ConnectOkAddsUp == ASSUME IInv, AddUp, ConnectOk PROVE AddUp'
<1> DEFINE c == metrics.counter
           n == metrics'.counter
           m == SetIpcState(metrics, "connected")
           r == c["reconnects"]
           f == c["sendFailures"]
           e == tally["ended"]
<1>1. metrics \in Metrics /\ "connected" \in IpcState
  BY DEF IInv, TypeOK, IpcState
<1>2. m \in Metrics /\ m.counter = c
  BY <1>1, 0 \in Nat, SettingType, SettingCounter
<1>3. metrics' = RecordReconnect(m)
  BY DEF ConnectOk
<1> HIDE DEF m
<1>4. \A d \in Balanced : n[d] = IF d = "reconnects" THEN Plus(c[d], 1) ELSE c[d]
  BY <1>2, <1>3, BumpedCounter, NamedCounters DEF RecordReconnect, Balanced
<1>5. pool' = pool /\ sent' = sent /\ tally' = tally /\ pc = "connect" /\ pc' = "live"
  BY DEF ConnectOk, owned, history
<1>6. InsertsAddUp' /\ BidsAddUp' /\ SentAddsUp'
  BY <1>4, <1>5 DEF AddUp, InsertsAddUp, BidsAddUp, SentAddsUp, Balanced
<1>7. ConnectionsAddUp'
  <2>1. r \in Int /\ f \in Int /\ e \in Int
    BY CountsAreInt, NamedCounters DEF IInv
  <2>2. Cong(r, f + e + 0)
    BY <1>5 DEF AddUp, ConnectionsAddUp, Chosen
  <2>3. n["reconnects"] = Plus(r, 1) /\ n["sendFailures"] = f /\ tally'["ended"] = e
    BY <1>4, <1>5 DEF Balanced
  <2> HIDE DEF r, f, e, n
  <2>4. Cong(Plus(r, 1), f + e + 1)
    BY <2>1, <2>2, ConnectionMade
  <2> QED
    BY <1>5, <2>3, <2>4 DEF ConnectionsAddUp, Chosen, n
<1> QED
  BY <1>6, <1>7 DEF AddUp

\* A connection that ends is counted as a failed send or tallied.
LEMMA EndedAddsUp ==
    ASSUME IInv, AddUp, pc = "live", pc' # "live", pool' = pool, sent' = sent,
           \/ /\ \A d \in Balanced : metrics'.counter[d] = metrics.counter[d]
              /\ tally' = Tallied("ended", 1)
           \/ metrics' = RecordSendFailure(metrics) /\ tally' = tally
    PROVE  AddUp'
<1> DEFINE c == metrics.counter
           n == metrics'.counter
           r == c["reconnects"]
           f == c["sendFailures"]
           e == tally["ended"]
<1>1. /\ metrics \in Metrics
      /\ tally \in [{"answered", "bids", "forgotten", "removed", "ended"} -> Count]
  BY DEF IInv, TypeOK, Tally
<1>2. /\ \A d \in Balanced \ {"sendFailures"} : n[d] = c[d]
      /\ \A what \in {"answered", "bids", "forgotten", "removed"} : tally'[what] = tally[what]
      /\ \/ n["sendFailures"] = f /\ tally'["ended"] = Plus(e, 1)
         \/ n["sendFailures"] = Plus(f, 1) /\ tally'["ended"] = e
  <2>1. CASE /\ \A d \in Balanced : metrics'.counter[d] = metrics.counter[d]
             /\ tally' = Tallied("ended", 1)
    BY <1>1, <2>1 DEF Tallied, Balanced
  <2>2. CASE metrics' = RecordSendFailure(metrics) /\ tally' = tally
    <3>1. \A d \in Balanced : n[d] = IF d = "sendFailures" THEN Plus(c[d], 1) ELSE c[d]
      BY <1>1, <2>2, BumpedCounter, NamedCounters DEF RecordSendFailure, Balanced
    <3> QED
      BY <2>2, <3>1 DEF Balanced
  <2> QED
    BY <2>1, <2>2
<1>3. InsertsAddUp' /\ BidsAddUp' /\ SentAddsUp'
  BY <1>2 DEF AddUp, InsertsAddUp, BidsAddUp, SentAddsUp, Balanced
<1>4. ConnectionsAddUp'
  <2>1. r \in Int /\ f \in Int /\ e \in Int
    BY CountsAreInt, NamedCounters DEF IInv
  <2>2. Cong(r, f + e + 1)
    BY DEF AddUp, ConnectionsAddUp, Chosen
  <2>3. n["reconnects"] = r
    BY <1>2 DEF Balanced
  <2> HIDE DEF r, f, e, n
  <2>4. Cong(r, f + Plus(e, 1) + 0) /\ Cong(r, Plus(f, 1) + e + 0)
    BY <2>1, <2>2, ConnectionEnded
  <2> QED
    BY <1>2, <2>3, <2>4 DEF ConnectionsAddUp, Chosen, n
<1> QED
  BY <1>3, <1>4 DEF AddUp

\* A change of what /health says of the connection is no count.
LEMMA StateIsNoCount ==
    ASSUME IInv, NEW s
    PROVE  SetIpcState(metrics, s).counter = metrics.counter
BY SettingCounter DEF IInv, TypeOK

\* Every step keeps the equations.
LEMMA StepAddsUp == IInv /\ Sorted /\ AddUp /\ [Next]_vars => AddUp'
<1> SUFFICES ASSUME IInv, Sorted, AddUp, [Next]_vars PROVE AddUp'
  OBVIOUS
<1>1. CASE Task
  <2>1. CASE Top
    <3>1. metrics'.counter = metrics.counter
      BY <2>1, StateIsNoCount DEF Top
    <3> QED
      BY <2>1, <3>1, AddUpKept DEF Top, owned, history
  <2>2. ASSUME ConnectFails \/ WakeUp \/ NextBatch \/ SkipSent PROVE AddUp'
    BY <2>2, AddUpKept
    DEF ConnectFails, WakeUp, NextBatch, SkipSent, InSelect, Sending, owned, history
  <2>3. CASE IgnoreEcho
    <3>1. metrics' = RecordEvent(metrics, "insert") /\ metrics \in Metrics
      BY <2>3 DEF IgnoreEcho, IInv, TypeOK
    <3>2. \A d \in Balanced : metrics'.counter[d] = metrics.counter[d]
      BY <3>1, BumpedCounter, NamedCounters DEF RecordEvent, Balanced
    <3> QED
      BY <2>3, <3>2, AddUpKept DEF IgnoreEcho, owned, history
  <2>4. CASE SeeShutdown
    <3>1. metrics'.counter = metrics.counter
      BY <2>4, StateIsNoCount DEF SeeShutdown
    <3> QED
      BY <2>4, <3>1, EndedAddsUp DEF SeeShutdown, InSelect, owned
  <2>5. CASE StreamEnds
    BY <2>5, EndedAddsUp DEF StreamEnds, InSelect, owned
  <2>6. CASE SendFails
    BY <2>6, EndedAddsUp DEF SendFails, Sending, owned
  <2> QED
    BY <1>1, <2>1, <2>2, <2>3, <2>4, <2>5, <2>6, ConnectOkAddsUp, HandleInsertAddsUp,
       HandleLeaveAddsUp, SendOkAddsUp DEF Task
<1>2. CASE Node
  <2>1. UNCHANGED sidecar
    BY <1>2 DEF Node, NodeStarts, NodeAccepts, NodeDisconnects, NodeStops, NodeReceives,
       NodeRemoves
  <2> QED
    BY <2>1, AddUpKept DEF sidecar, task, owned, history
<1>3. CASE CtrlC
  BY <1>3, AddUpKept DEF CtrlC, sidecar, task, owned, history
<1>4. CASE Tick
  <2>1. pool'.pendingCount = pool.pendingCount
    BY <1>4, AgedKeeps DEF Tick, IInv
  <2> QED
    BY <1>4, <2>1, AddUpKept DEF Tick, task, history
<1>5. CASE Killed
  <2>1. /\ pc' = "top" /\ pool' = EmptyPool /\ sent' = EmptySent
        /\ metrics' = NewMetrics /\ tally' = NothingTallied
    BY <1>5 DEF Killed
  <2>2. \A d \in Counter : metrics'.counter[d] = 0
    BY <2>1 DEF NewMetrics
  <2>3. /\ tally'["answered"] = 0 /\ tally'["bids"] = 0 /\ tally'["forgotten"] = 0
        /\ tally'["removed"] = 0 /\ tally'["ended"] = 0
    BY <2>1 DEF NothingTallied
  <2>4. /\ pool'.pendingCount = 0 /\ Cardinality(sent'.keys) = 0
        /\ Chosen(pc' = "live") = 0
    BY <2>1, EmptyPoolKeeps, FreshSidecar DEF Chosen
  <2> QED
    BY <2>2, <2>3, <2>4, NamedCounters
    DEF AddUp, InsertsAddUp, BidsAddUp, SentAddsUp, ConnectionsAddUp, Cong
<1>6. CASE UNCHANGED vars
  BY <1>6, AddUpKept DEF vars, task, owned, history
<1> QED
  BY <1>1, <1>2, <1>3, <1>4, <1>5, <1>6 DEF Next

\* The counters of the loop, each bumped where the code counts, account for
\* everything, laps of the counters aside: no path through the loop, none that
\* fails and none that gives up, loses a transaction, a bid observed, a hash sent
\* or a connection without one of them telling where it went.
THEOREM CountersAddUp == Spec => []MetricsAddUp
<1>1. Init => Sorted /\ AddUp
  BY FreshAddUp, EmptyPoolPlaced, EmptyPoolBacked DEF Init, Sorted
<1>2. IInv /\ Sorted /\ AddUp /\ [Next]_vars => Sorted' /\ AddUp'
  BY StaysSorted, StepAddsUp
<1>3. IInv /\ AddUp => MetricsAddUp
  BY AddUpIsMetricsAddUp DEF IInv, Keeps
<1> QED
  BY <1>1, <1>2, <1>3, Invariance, PTL DEF Spec

-----------------------------------------------------------------------------
(* What the sidecar holds and what the node has.  On an unbroken           *)
(* connection the events in flight tell the difference: a hash the sidecar *)
(* holds is in the node's pool, or its departure is on the way; and the    *)
(* Insert of a new transaction is on the way only behind the departure of  *)
(* the one before, if the sidecar has seen that.                           *)

IsInsert(s, h, i) == i \in DOMAIN s /\ s[i].kind = "insert" /\ s[i].hash = h

\* h leaves in s after place i, and before place j.
LeavesAfter(s, h, i) ==
    \E k \in DOMAIN s : i < k /\ s[k].kind = "leave" /\ s[k].hash = h
LeavesBetween(s, h, i, j) ==
    \E k \in DOMAIN s : i < k /\ k < j /\ s[k].kind = "leave" /\ s[k].hash = h

\* The events s lead from the hashes H the sidecar holds to those, N, the node
\* has.  A held hash is like one inserted before the first event.
Tracks(s, H, N) ==
    \A h \in Hash :
        /\ h \in H => h \in N \/ LeavesAfter(s, h, 0)
        /\ \A i : IsInsert(s, h, i) => h \in N \/ LeavesAfter(s, h, i)
        /\ \A j : IsInsert(s, h, j) /\ s[j].fresh =>
             /\ h \in H => LeavesBetween(s, h, 0, j)
             /\ \A i : IsInsert(s, h, i) /\ i < j => LeavesBetween(s, h, i, j)

\* Nothing in flight leads from nothing to anything.
LEMMA NothingTracks == ASSUME NEW N PROVE Tracks(<<>>, {}, N)
<1>1. DOMAIN <<>> = {}
  OBVIOUS
<1> QED
  BY <1>1 DEF Tracks, IsInsert

\* Holding less is tracked as well.
LEMMA FewerTracked ==
    ASSUME NEW s, NEW H, NEW G, NEW N, Tracks(s, H, N), G \cap Hash \subseteq H
    PROVE  Tracks(s, G, N)
BY DEF Tracks

\* Handling the first event: an Insert may add its hash to what is held, a
\* departure must take it away.
LEMMA TailTracked ==
    ASSUME NEW s \in Seq(Event), s # <<>>, NEW H, NEW G, NEW N, Tracks(s, H, N),
           G \subseteq H \cup {Head(s).hash},
           Head(s).kind = "leave" => Head(s).hash \notin G
    PROVE  Tracks(Tail(s), G, N)
<1> DEFINE t == Tail(s)
           n == Len(s)
           e == Head(s)
<1>1. /\ n \in Nat \ {0} /\ DOMAIN s = 1..n /\ s[1] = e
      /\ DOMAIN t = 1..(n - 1) /\ \A i \in 1..(n - 1) : t[i] = s[i + 1]
  <2>1. /\ Len(s) \in Nat /\ DOMAIN s = 1..Len(s)
    BY LenProperties
  <2>2. /\ Len(Tail(s)) = Len(s) - 1 /\ Tail(s) \in Seq(Event)
        /\ \A i \in 1..Len(Tail(s)) : Tail(s)[i] = s[i + 1]
    BY HeadTailProperties
  <2>3. Len(s) # 0
    BY EmptySeq
  <2>4. DOMAIN Tail(s) = 1..Len(Tail(s))
    BY <2>2, LenProperties
  <2>5. s[1] = Head(s)
    OBVIOUS
  <2> QED
    BY <2>1, <2>2, <2>3, <2>4, <2>5
<1>2. e.kind \in {"insert", "leave"}
  <2>1. e \in Event
    BY HeadTailProperties
  <2> QED
    BY <2>1 DEF Event
<1>3. G \subseteq H \cup {e.hash} /\ (e.kind = "leave" => e.hash \notin G)
  OBVIOUS
<1> HIDE DEF t, n, e
<1>4. \A h, i : IsInsert(t, h, i) =>
        /\ i \in 1..(n - 1) /\ IsInsert(s, h, i + 1) /\ t[i].fresh = s[i + 1].fresh
  BY <1>1 DEF IsInsert
<1>5. ASSUME NEW h, NEW i \in Nat, i >= 1, LeavesAfter(s, h, i)
      PROVE  LeavesAfter(t, h, i - 1)
  <2>1. PICK k \in 1..n : i < k /\ s[k].kind = "leave" /\ s[k].hash = h
    BY <1>1, <1>5 DEF LeavesAfter
  <2>2. k - 1 \in 1..(n - 1) /\ t[k - 1] = s[k] /\ i - 1 < k - 1
    BY <1>1, <1>5, <2>1
  <2> QED
    BY <1>1, <2>1, <2>2 DEF LeavesAfter
<1>6. ASSUME NEW h, NEW i \in Nat, i >= 1, NEW j \in Nat, LeavesBetween(s, h, i, j + 1)
      PROVE  LeavesBetween(t, h, i - 1, j)
  <2>1. PICK k \in 1..n : i < k /\ k < j + 1 /\ s[k].kind = "leave" /\ s[k].hash = h
    BY <1>1, <1>6 DEF LeavesBetween
  <2>2. k - 1 \in 1..(n - 1) /\ t[k - 1] = s[k] /\ i - 1 < k - 1 /\ k - 1 < j
    BY <1>1, <1>6, <2>1
  <2> QED
    BY <1>1, <2>1, <2>2 DEF LeavesBetween
<1>7. ASSUME NEW h \in Hash, h \in G
      PROVE  \/ e.hash = h /\ IsInsert(s, h, 1)
             \/ /\ h \in H
                /\ LeavesAfter(s, h, 0) => LeavesAfter(s, h, 1)
                /\ \A j : LeavesBetween(s, h, 0, j) => LeavesBetween(s, h, 1, j)
  <2>1. CASE e.hash = h
    BY <1>1, <1>2, <1>3, <1>7, <2>1 DEF IsInsert
  <2>2. CASE e.hash # h
    <3>1. \A k \in DOMAIN s : 0 < k /\ s[k].hash = h => 1 < k
      BY <1>1, <2>2
    <3> QED
      BY <1>3, <1>7, <2>2, <3>1 DEF LeavesAfter, LeavesBetween
  <2> QED
    BY <2>1, <2>2
<1>8. ASSUME NEW h \in Hash, h \in G PROVE h \in N \/ LeavesAfter(t, h, 0)
  <2>1. h \in N \/ LeavesAfter(s, h, 1)
    BY <1>7, <1>8 DEF Tracks
  <2> QED
    BY <1>5, <2>1
<1>9. ASSUME NEW h \in Hash, NEW i, IsInsert(t, h, i) PROVE h \in N \/ LeavesAfter(t, h, i)
  <2>1. i \in 1..(n - 1) /\ IsInsert(s, h, i + 1)
    BY <1>4, <1>9
  <2>2. h \in N \/ LeavesAfter(s, h, i + 1)
    BY <2>1 DEF Tracks
  <2>3. i + 1 \in Nat /\ i + 1 >= 1 /\ (i + 1) - 1 = i
    BY <2>1
  <2> QED
    BY <1>5, <2>2, <2>3
<1>10. ASSUME NEW h \in Hash, NEW j, IsInsert(t, h, j), t[j].fresh
       PROVE  /\ h \in G => LeavesBetween(t, h, 0, j)
              /\ \A i : IsInsert(t, h, i) /\ i < j => LeavesBetween(t, h, i, j)
  <2>1. j \in 1..(n - 1) /\ IsInsert(s, h, j + 1) /\ s[j + 1].fresh
    BY <1>4, <1>10
  <2>2. ASSUME h \in G PROVE LeavesBetween(t, h, 0, j)
    <3>1. LeavesBetween(s, h, 1, j + 1)
      <4>1. 1 < j + 1
        BY <2>1
      <4> QED
        BY <1>7, <2>1, <2>2, <4>1 DEF Tracks
    <3> QED
      BY <1>6, <2>1, <3>1
  <2>3. ASSUME NEW i, IsInsert(t, h, i), i < j PROVE LeavesBetween(t, h, i, j)
    <3>1. i \in 1..(n - 1) /\ IsInsert(s, h, i + 1)
      BY <1>4, <2>3
    <3>2. i + 1 < j + 1 /\ i + 1 \in Nat /\ i + 1 >= 1 /\ (i + 1) - 1 = i
      BY <2>1, <2>3, <3>1
    <3>3. LeavesBetween(s, h, i + 1, j + 1)
      BY <2>1, <3>1, <3>2 DEF Tracks
    <3> QED
      BY <1>6, <2>1, <3>2, <3>3
  <2> QED
    BY <2>2, <2>3
<1> QED
  BY <1>8, <1>9, <1>10 DEF Tracks, t

\* One more event in flight: an arrival of a hash the node does not have, or
\* which is no new transaction, or the departure of one.
LEMMA AppendTracked ==
    ASSUME NEW s \in Seq(Event), NEW e \in Event, NEW H, NEW N, NEW M, Tracks(s, H, N),
           e.kind = "insert" => M = N \cup {e.hash},
           e.kind = "leave" => M = N \ {e.hash},
           e.kind = "insert" /\ e.fresh => e.hash \notin N
    PROVE  Tracks(Append(s, e), H, M)
<1> DEFINE t == Append(s, e)
           n == Len(s)
<1>1. /\ n \in Nat /\ DOMAIN s = 1..n /\ DOMAIN t = 1..(n + 1) /\ t[n + 1] = e
      /\ \A i \in 1..n : t[i] = s[i]
  <2>1. /\ Append(s, e) \in Seq(Event) /\ Len(Append(s, e)) = Len(s) + 1
        /\ \A i \in 1..Len(s) : Append(s, e)[i] = s[i]
        /\ Append(s, e)[Len(s) + 1] = e
    BY AppendProperties
  <2>2. Len(s) \in Nat /\ DOMAIN s = 1..Len(s)
    BY LenProperties
  <2>3. DOMAIN Append(s, e) = 1..Len(Append(s, e))
    BY <2>1, LenProperties
  <2> QED
    BY <2>1, <2>2, <2>3
<1>2. e.kind \in {"insert", "leave"}
  BY DEF Event
<1> HIDE DEF t, n
<1>3. \A h, i : IsInsert(t, h, i) =>
        \/ i \in 1..n /\ IsInsert(s, h, i) /\ t[i] = s[i]
        \/ i = n + 1 /\ e.kind = "insert" /\ e.hash = h
  BY <1>1 DEF IsInsert
<1>4. \A h, i : LeavesAfter(s, h, i) => LeavesAfter(t, h, i)
  <2> SUFFICES ASSUME NEW h, NEW i, LeavesAfter(s, h, i) PROVE LeavesAfter(t, h, i)
    OBVIOUS
  <2>1. PICK k \in 1..n : i < k /\ s[k].kind = "leave" /\ s[k].hash = h
    BY <1>1 DEF LeavesAfter
  <2>2. k \in 1..(n + 1)
    BY <1>1
  <2> QED
    BY <1>1, <2>1, <2>2 DEF LeavesAfter
<1>5. \A h, i, j : LeavesBetween(s, h, i, j) => LeavesBetween(t, h, i, j)
  <2> SUFFICES ASSUME NEW h, NEW i, NEW j, LeavesBetween(s, h, i, j) PROVE LeavesBetween(t, h, i, j)
    OBVIOUS
  <2>1. PICK k \in 1..n : i < k /\ k < j /\ s[k].kind = "leave" /\ s[k].hash = h
    BY <1>1 DEF LeavesBetween
  <2>2. k \in 1..(n + 1)
    BY <1>1
  <2> QED
    BY <1>1, <2>1, <2>2 DEF LeavesBetween
<1>6. \A h \in N \ M : e.kind = "leave" /\ e.hash = h
  BY <1>2
<1>7. \A h \in N \ M : \A i \in 0..n : LeavesAfter(t, h, i)
  <2> SUFFICES ASSUME NEW h \in N \ M, NEW i \in 0..n PROVE LeavesAfter(t, h, i)
    OBVIOUS
  <2>1. n + 1 \in DOMAIN t /\ i < n + 1
    BY <1>1
  <2> QED
    BY <1>1, <1>6, <2>1 DEF LeavesAfter
<1>8. \A h, i : h \notin N /\ i <= n /\ LeavesAfter(s, h, i) => LeavesBetween(t, h, i, n + 1)
  <2> SUFFICES ASSUME NEW h, NEW i, LeavesAfter(s, h, i) PROVE LeavesBetween(t, h, i, n + 1)
    OBVIOUS
  <2>1. PICK k \in 1..n : i < k /\ s[k].kind = "leave" /\ s[k].hash = h
    BY <1>1 DEF LeavesAfter
  <2>2. k \in 1..(n + 1) /\ k < n + 1
    BY <1>1
  <2> QED
    BY <1>1, <2>1, <2>2 DEF LeavesBetween
<1>9. ASSUME NEW h \in Hash, h \in H PROVE h \in M \/ LeavesAfter(t, h, 0)
  <2>1. h \in N \/ LeavesAfter(s, h, 0)
    BY <1>9 DEF Tracks
  <2>2. 0 \in 0..n
    BY <1>1
  <2> QED
    BY <1>4, <1>7, <2>1, <2>2
<1>10. ASSUME NEW h \in Hash, NEW i, IsInsert(t, h, i) PROVE h \in M \/ LeavesAfter(t, h, i)
  <2>1. CASE i \in 1..n /\ IsInsert(s, h, i) /\ t[i] = s[i]
    <3>1. h \in N \/ LeavesAfter(s, h, i)
      BY <2>1 DEF Tracks
    <3>2. i \in 0..n
      BY <1>1, <2>1
    <3> QED
      BY <1>4, <1>7, <3>1, <3>2
  <2>2. CASE e.kind = "insert" /\ e.hash = h
    BY <2>2
  <2> QED
    BY <1>3, <1>10, <2>1, <2>2
<1>11. ASSUME NEW h \in Hash, NEW j, IsInsert(t, h, j), t[j].fresh
       PROVE  /\ h \in H => LeavesBetween(t, h, 0, j)
              /\ \A i : IsInsert(t, h, i) /\ i < j => LeavesBetween(t, h, i, j)
  <2>1. CASE j \in 1..n /\ IsInsert(s, h, j) /\ t[j] = s[j]
    <3>1. ASSUME h \in H PROVE LeavesBetween(t, h, 0, j)
      BY <1>5, <1>11, <2>1, <3>1 DEF Tracks
    <3>2. ASSUME NEW i, IsInsert(t, h, i), i < j PROVE LeavesBetween(t, h, i, j)
      <4>1. IsInsert(s, h, i)
        <5>1. i # n + 1
          BY <1>1, <2>1, <3>2
        <5> QED
          BY <1>3, <3>2, <5>1
      <4> QED
        BY <1>5, <1>11, <2>1, <3>2, <4>1 DEF Tracks
    <3> QED
      BY <3>1, <3>2
  <2>2. CASE j = n + 1 /\ e.kind = "insert" /\ e.hash = h
    <3>1. h \notin N
      BY <1>1, <1>11, <2>2
    <3>2. ASSUME h \in H PROVE LeavesBetween(t, h, 0, j)
      <4>1. LeavesAfter(s, h, 0)
        BY <3>1, <3>2 DEF Tracks
      <4> QED
        BY <1>1, <1>8, <2>2, <3>1, <4>1
    <3>3. ASSUME NEW i, IsInsert(t, h, i), i < j PROVE LeavesBetween(t, h, i, j)
      <4>1. i \in 1..n /\ IsInsert(s, h, i)
        BY <1>1, <1>3, <2>2, <3>3
      <4>2. LeavesAfter(s, h, i) /\ i <= n
        BY <1>1, <3>1, <4>1 DEF Tracks
      <4> QED
        BY <1>8, <2>2, <3>1, <4>2
    <3> QED
      BY <3>2, <3>3
  <2> QED
    BY <1>3, <1>11, <2>1, <2>2
<1> QED
  BY <1>9, <1>10, <1>11 DEF Tracks, t

\* What is in flight, and what is in the batch in front of it, in order.
Stream == batch \o inbox

LEMMA StreamType == TypeOK => Stream \in Seq(Event)
BY ConcatProperties DEF TypeOK, Stream

\* Taking the first event of the batch takes the first one in flight.
LEMMA StreamTail ==
    ASSUME TypeOK, batch # <<>>, batch' = Tail(batch), inbox' = inbox
    PROVE  /\ Stream # <<>> /\ Head(Stream) = Head(batch)
           /\ Stream' = Tail(Stream)
<1> DEFINE e == Head(batch)
           s == Tail(batch)
<1>1. /\ e \in Event /\ s \in Seq(Event) /\ inbox \in Seq(Event) /\ batch \in Seq(Event)
      /\ <<e>> \in Seq(Event)
  BY FirstEvent DEF TypeOK
<1>2. batch = <<e>> \o s
  BY <1>1, HeadTailProperties, ConcatProperties
<1>3. Stream = <<e>> \o (s \o inbox)
  BY <1>1, <1>2, ConcatAssociative DEF Stream
<1>4. s \o inbox \in Seq(Event)
  BY <1>1, ConcatProperties
<1>5. Stream' = s \o inbox
  BY DEF Stream
<1> HIDE DEF e, s
<1> DEFINE u == s \o inbox
<1>6. u \in Seq(Event)
  BY <1>4
<1> HIDE DEF u
<1>7. <<e>> \o u # <<>> /\ Head(<<e>> \o u) = e /\ Tail(<<e>> \o u) = u
  BY <1>1, <1>6
<1> QED
  BY <1>3, <1>5, <1>7 DEF u, e

\* Reporting an event appends it to what is in flight.
LEMMA StreamAppend ==
    ASSUME TypeOK, NEW event \in Event, batch' = batch, inbox' = Append(inbox, event)
    PROVE  Stream' = Append(Stream, event)
<1>1. batch \in Seq(Event) /\ inbox \in Seq(Event) /\ <<event>> \in Seq(Event)
  BY DEF TypeOK
<1>2. Stream' = batch \o (inbox \o <<event>>)
  BY <1>1, AppendIsConcat DEF Stream
<1>3. Append(Stream, event) = (batch \o inbox) \o <<event>>
  BY StreamType, AppendIsConcat DEF Stream
<1> QED
  BY <1>1, <1>2, <1>3, ConcatAssociative

\* Taking a batch changes nothing about the order.
LEMMA StreamBatch ==
    ASSUME TypeOK, NextBatch
    PROVE  Stream' = Stream
<1>1. batch = <<>>
  BY DEF NextBatch, InSelect
<1>2. PICK n \in 1..Len(inbox) : batch' = SubSeq(inbox, 1, n) /\ inbox' = SubSeq(inbox, n + 1, Len(inbox))
  BY DEF NextBatch, Dropped
<1>3. inbox \in Seq(Event) /\ Len(inbox) \in Nat
  BY LenProperties DEF TypeOK
<1>4. Stream = inbox
  BY <1>1, <1>3, ConcatEmptySeq DEF Stream
<1>5. 1 \in 1..(Len(inbox) + 1) /\ n \in (1 - 1)..Len(inbox) /\ Len(inbox) \in n..Len(inbox)
  BY <1>3
<1>6. Stream' = SubSeq(inbox, 1, Len(inbox))
  BY <1>2, <1>3, <1>5, ConcatAdjacentSubSeq DEF Stream
<1> QED
  BY <1>3, <1>4, <1>6, SubSeqFull

\* The hashes the sidecar holds, and has been told of.
Held ==
    sent.keys \cup Cached(pool) \cup Waiting(pool) \cup {todo[i].hash : i \in DOMAIN todo}

\* Until a connection is lost, the first one is the only one: before it nothing
\* is held, and on it what is in flight leads from what is held to the node's
\* pool, but for the bids that stayed parked when they left.
Following ==
    spent.breaks = 0 =>
        /\ conn # "closed" /\ (pc = "live" <=> conn = "open")
        /\ pc \in {"top", "connect", "sleep"} => Held = {} /\ batch = <<>>
        /\ pc = "live" => Tracks(Stream, Held \ survived, nodePool)

FInv == IInv /\ Sorted /\ Following

\* What is held, and what is in flight, when nothing of it changes.
LEMMA SameHeld ==
    ASSUME sent' = sent, Cached(pool') = Cached(pool), Waiting(pool') = Waiting(pool), todo' = todo
    PROVE  Held' = Held
BY DEF Held

LEMMA FollowingKept ==
    ASSUME Following, spent' = spent, Held' = Held, survived' = survived,
           pc' = pc, conn' = conn, batch' = batch, inbox' = inbox, nodePool' = nodePool
    PROVE  Following'
BY DEF Following, Stream

\* With nothing held and nothing in flight there is nothing to follow.
LEMMA FreshFollows ==
    ASSUME pc \in {"top", "connect", "sleep"}, conn = "none", Held = {}, batch = <<>>
    PROVE  Following
BY DEF Following

\* Connecting, and waiting in select!.
LEMMA ConnectingFollows ==
    ASSUME IInv, Following, Top \/ ConnectFails \/ WakeUp
    PROVE  Following'
<1>1. /\ UNCHANGED <<batch, todo, sent, pool, conn, inbox, nodePool, spent, survived>>
      /\ pc \in {"top", "connect", "sleep"} /\ pc' \in {"top", "connect", "sleep", "stopped"}
  BY DEF Top, ConnectFails, WakeUp, owned, socket, node, history
<1>2. Held' = Held
  BY <1>1, SameHeld
<1> QED
  BY <1>1, <1>2 DEF Following

LEMMA ConnectOkFollows ==
    ASSUME IInv, Following, ConnectOk
    PROVE  Following'
<1>1. /\ pc = "connect" /\ pc' = "live" /\ conn' = "open" /\ inbox' = <<>>
      /\ UNCHANGED <<batch, todo, sent, pool, nodePool, spent, survived>>
  BY DEF ConnectOk, owned, node, history
<1>2. Held' = Held
  BY <1>1, SameHeld
<1>3. ASSUME spent.breaks = 0 PROVE Tracks(Stream', Held' \ survived', nodePool')
  <2>1. Held' \ survived' = {} /\ batch = <<>>
    BY <1>1, <1>2, <1>3 DEF Following
  <2>2. <<>> \in Seq(Event)
    BY EmptySeq
  <2>3. Stream' = <<>>
    BY <1>1, <2>1, <2>2, ConcatEmptySeq DEF Stream
  <2> QED
    BY <2>1, <2>3, NothingTracks
<1> QED
  BY <1>1, <1>3 DEF Following

LEMMA SeeShutdownFollows ==
    ASSUME IInv, Following, SeeShutdown
    PROVE  Following'
BY DEF SeeShutdown, Following

LEMMA NextBatchFollows ==
    ASSUME IInv, Following, NextBatch
    PROVE  Following'
<1>1. /\ pc = "live" /\ pc' = pc
      /\ UNCHANGED <<todo, sent, pool, conn, nodePool, spent, survived>>
  BY DEF NextBatch, InSelect, owned, node, history
<1>2. Held' = Held /\ Stream' = Stream
  BY <1>1, SameHeld, StreamBatch DEF IInv
<1> QED
  BY <1>1, <1>2 DEF Following

\* Going through the batch.
LEMMA EventFollows ==
    ASSUME IInv, Following, batch # <<>>, batch' = Tail(batch),
           UNCHANGED <<pc, conn, inbox, nodePool, spent>>, pc = "live",
           Held' \ survived' \subseteq (Held \ survived) \cup {Head(batch).hash},
           Head(batch).kind = "leave" => Head(batch).hash \notin Held' \ survived'
    PROVE  Following'
<1>1. ASSUME spent.breaks = 0 PROVE Tracks(Stream', Held' \ survived', nodePool')
  <2>1. /\ Stream \in Seq(Event) /\ Stream # <<>> /\ Head(Stream) = Head(batch)
        /\ Stream' = Tail(Stream)
    BY StreamType, StreamTail DEF IInv
  <2>2. Tracks(Stream, Held \ survived, nodePool)
    BY <1>1 DEF Following
  <2> DEFINE H == Held \ survived
             G == Held' \ survived'
             s == Stream
  <2>3. G \subseteq H \cup {Head(s).hash} /\ (Head(s).kind = "leave" => Head(s).hash \notin G)
    BY <2>1
  <2>4. s \in Seq(Event) /\ s # <<>> /\ Tracks(s, H, nodePool)
    BY <2>1, <2>2
  <2> HIDE DEF H, G, s
  <2>5. Tracks(Tail(s), G, nodePool)
    BY <2>3, <2>4, TailTracked
  <2> QED
    BY <2>1, <2>5 DEF G, s
<1> QED
  BY <1>1 DEF Following

LEMMA IgnoreEchoFollows ==
    ASSUME IInv, Following, IgnoreEcho
    PROVE  Following'
<1>1. /\ batch # <<>> /\ batch' = Tail(batch) /\ pc = "live" /\ Head(batch).kind = "insert"
      /\ UNCHANGED <<pc, todo, sent, pool, conn, inbox, nodePool, spent, survived>>
  BY DEF IgnoreEcho, InBatch, owned, socket, node, history
<1>2. Held' = Held
  BY <1>1, SameHeld
<1> QED
  BY <1>1, <1>2, EventFollows

LEMMA HandleInsertFollows ==
    ASSUME IInv, Sorted, Following, HandleInsert
    PROVE  Following'
<1>1. /\ batch # <<>> /\ batch' = Tail(batch) /\ pc = "live" /\ Head(batch).kind = "insert"
      /\ UNCHANGED <<pc, sent, conn, inbox, nodePool, spent, survived>>
  BY DEF HandleInsert, InBatch, socket, node
<1>2. Held' \subseteq Held \cup {Head(batch).hash}
  BY <1>1, InsertHolds DEF Held
<1> QED
  BY <1>1, <1>2, EventFollows

LEMMA HandleLeaveFollows ==
    ASSUME IInv, Sorted, Following, HandleLeave
    PROVE  Following'
<1> DEFINE h == Head(batch).hash
<1>1. /\ batch # <<>> /\ batch' = Tail(batch) /\ pc = "live" /\ todo = <<>> /\ todo' = todo
      /\ UNCHANGED <<pc, conn, inbox, nodePool, spent>>
      /\ sent' = SentRemoved(sent, h) /\ pool' = Forgotten(pool, h)
      /\ survived' = (survived \ {h}) \cup (Waiting(pool') \cap {h})
  BY DEF HandleLeave, InBatch, socket, node
<1>2. h \in Hash
  BY FirstEvent DEF HandleLeave, InBatch, IInv
<1> HIDE DEF h
<1>3. /\ Cached(pool') = Cached(pool) \ {h}
      /\ Waiting(pool') \subseteq Waiting(pool)
  BY <1>1, <1>2, ForgottenMaps DEF Sorted, IInv, Keeps
<1>4. sent'.keys = sent.keys \ {h}
  BY <1>1, SentRemovedType DEF IInv, TypeOK, SentType
<1>5. DOMAIN todo' = {}
  BY <1>1
<1>6. Held' \subseteq Held /\ (h \in Held' => h \in Waiting(pool'))
  BY <1>3, <1>4, <1>5 DEF Held
<1>7. /\ h \notin Held' \ survived'
      /\ Held' \ survived' \subseteq (Held \ survived) \cup {h}
  BY <1>1, <1>6
<1> QED
  BY <1>1, <1>7, EventFollows DEF h

\* Sending.
LEMMA SendingFollows ==
    ASSUME IInv, Following, SkipSent \/ SendOk
    PROVE  Following'
<1>1. /\ todo # <<>> /\ todo' = Tail(todo) /\ pc = "live"
      /\ UNCHANGED <<pc, batch, pool, conn, inbox, nodePool, spent, survived>>
  BY DEF SkipSent, SendOk, Sending, owned, socket, node, history
<1>2. /\ todo \in Seq(Reinjection) /\ Head(todo).hash \in Hash /\ Head(todo) = todo[1]
      /\ 1 \in DOMAIN todo
      /\ \A i \in DOMAIN Tail(todo) : i + 1 \in DOMAIN todo /\ Tail(todo)[i] = todo[i + 1]
  <2>1. todo \in Seq(Reinjection) /\ Head(todo).hash \in Hash
    BY <1>1, FirstToSend DEF IInv, TypeOK
  <2>2. /\ Len(todo) \in Nat /\ DOMAIN todo = 1..Len(todo) /\ Len(todo) # 0
    BY <1>1, <2>1, LenProperties, EmptySeq
  <2>3. /\ Tail(todo) \in Seq(Reinjection) /\ Len(Tail(todo)) = Len(todo) - 1
        /\ \A i \in 1..Len(Tail(todo)) : Tail(todo)[i] = todo[i + 1]
    BY <1>1, <2>1, HeadTailProperties
  <2>4. DOMAIN Tail(todo) = 1..Len(Tail(todo))
    BY <2>3, LenProperties
  <2> QED
    BY <2>1, <2>2, <2>3, <2>4
<1>3. sent'.keys \subseteq sent.keys \cup {Head(todo).hash}
  <2>1. CASE SkipSent
    BY <2>1 DEF SkipSent, owned
  <2>2. CASE SendOk
    BY <1>2, <2>2, SentInsertedType DEF SendOk, IInv, TypeOK, SentType
  <2> QED
    BY <2>1, <2>2
<1>4. Held' \subseteq Held
  BY <1>1, <1>2, <1>3 DEF Held
<1>5. Stream' = Stream
  BY <1>1 DEF Stream
<1>6. ASSUME spent.breaks = 0 PROVE Tracks(Stream, Held' \ survived, nodePool)
  <2> DEFINE H == Held \ survived
             G == Held' \ survived
  <2>1. Tracks(Stream, H, nodePool) /\ G \cap Hash \subseteq H
    BY <1>1, <1>4, <1>6 DEF Following
  <2> HIDE DEF H, G
  <2>2. Tracks(Stream, G, nodePool)
    BY <2>1, FewerTracked
  <2> QED
    BY <2>2 DEF G
<1> QED
  BY <1>1, <1>5, <1>6 DEF Following

\* On an unbroken connection it neither ends nor fails.
LEMMA EndsOnlyWhenClosed ==
    ASSUME Following, StreamEnds \/ SendFails
    PROVE  Following'
BY DEF StreamEnds, SendFails, InSelect, Sending, Following, node

\* The node reports what enters and leaves its pool.
LEMMA ReportFollows ==
    ASSUME IInv, Following, UNCHANGED <<pc, batch, todo, sent, pool, conn, survived>>,
           spent'.breaks = spent.breaks,
           NEW e \in Event, Report(e),
           e.kind = "insert" => nodePool' = nodePool \cup {e.hash},
           e.kind = "leave" => nodePool' = nodePool \ {e.hash},
           e.kind = "insert" /\ e.fresh => e.hash \notin nodePool
    PROVE  Following'
<1>1. Held' = Held
  BY SameHeld
<1>2. ASSUME spent.breaks = 0, pc = "live"
      PROVE  Tracks(Stream', Held' \ survived', nodePool')
  <2>1. Tracks(Stream, Held \ survived, nodePool) /\ conn = "open"
    BY <1>2 DEF Following
  <2>2. inbox' = Append(inbox, e)
    BY <2>1 DEF Report
  <2>3. Stream \in Seq(Event) /\ Stream' = Append(Stream, e)
    BY <2>2, StreamType, StreamAppend DEF IInv
  <2> DEFINE H == Held \ survived
             s == Stream
  <2>4. s \in Seq(Event) /\ Tracks(s, H, nodePool)
    BY <2>1, <2>3
  <2> HIDE DEF H, s
  <2>5. Tracks(Append(s, e), H, nodePool')
    BY <2>4, AppendTracked
  <2> QED
    BY <1>1, <2>3, <2>5 DEF H, s
<1> QED
  BY <1>1, <1>2 DEF Following

LEMMA NodeReceivesFollows ==
    ASSUME IInv, Following, NEW h \in Hash, NodeReceives(h)
    PROVE  Following'
<1> DEFINE e == Inserted(h, TRUE)
<1>1. e \in Event /\ e.kind = "insert" /\ e.hash = h
  BY DEF Inserted, Event
<1>2. /\ UNCHANGED <<pc, batch, todo, sent, pool, conn, survived>>
      /\ Report(e) /\ nodePool' = nodePool \cup {h} /\ h \notin nodePool
  BY DEF NodeReceives, sidecar, task, owned, history
<1>3. spent'.breaks = spent.breaks
  BY DEF NodeReceives, IInv, TypeOK, Spent
<1> HIDE DEF e
<1> QED
  BY <1>1, <1>2, <1>3, ReportFollows

LEMMA NodeRemovesFollows ==
    ASSUME IInv, Following, NEW h \in Hash, NodeRemoves(h)
    PROVE  Following'
<1> DEFINE e == Left(h)
<1>1. e \in Event /\ e.kind = "leave" /\ e.hash = h
  BY DEF Left, Event
<1>2. /\ UNCHANGED <<pc, batch, todo, sent, pool, conn, survived>>
      /\ Report(e) /\ nodePool' = nodePool \ {h}
  BY DEF NodeRemoves, sidecar, task, owned, history
<1>3. spent'.breaks = spent.breaks
  BY DEF NodeRemoves, IInv, TypeOK, Spent
<1> HIDE DEF e
<1> QED
  BY <1>1, <1>2, <1>3, ReportFollows

LEMMA NodeAcceptsFollows ==
    ASSUME IInv, Following, NodeAccepts
    PROVE  Following'
<1> DEFINE h == Head(wire).hash
           e == Inserted(h, FALSE)
<1>1. h \in Hash
  <2>1. Head(wire) \in Reinjection
    BY HeadTailProperties DEF NodeAccepts, IInv, TypeOK
  <2> QED
    BY <2>1 DEF Reinjection
<1>2. UNCHANGED <<pc, batch, todo, sent, pool, conn, survived, spent>>
  BY DEF NodeAccepts, sidecar, task, owned, history
<1>3. CASE nodePool' = nodePool \cup {h} /\ Report(e)
  <2>1. e \in Event /\ e.kind = "insert" /\ e.hash = h /\ ~e.fresh
    BY <1>1 DEF Inserted, Event
  <2> HIDE DEF e, h
  <2> QED
    BY <1>2, <1>3, <2>1, ReportFollows
<1>4. CASE UNCHANGED <<nodePool, inbox>>
  <2>1. Held' = Held
    BY <1>2, SameHeld
  <2> QED
    BY <1>2, <1>4, <2>1, FollowingKept
<1> QED
  BY <1>3, <1>4 DEF NodeAccepts

\* A lost connection ends the claim.
LEMMA BreaksEnd ==
    ASSUME IInv, spent' = [spent EXCEPT !.breaks = @ + 1]
    PROVE  Following'
<1>1. spent \in [arrivals : 0..MaxArrivals, departures : 0..MaxDepartures, breaks : 0..MaxBreaks]
  BY DEF IInv, TypeOK, Spent
<1>2. spent'.breaks = spent.breaks + 1 /\ spent.breaks \in Nat
  <2>1. MaxBreaks \in Nat
    BY LoopAssumption
  <2> QED
    BY <1>1, <2>1
<1> QED
  BY <1>2 DEF Following

LEMMA InitFollows == Init => FInv
<1> SUFFICES ASSUME Init PROVE FInv
  OBVIOUS
<1>1. IInv
  BY InitEstablishes
<1>2. Sorted
  BY EmptyPoolPlaced, EmptyPoolBacked DEF Init, Sorted
<1>3. Held = {}
  <2>1. /\ sent.keys = {} /\ DOMAIN todo = {} /\ pool = EmptyPool
    BY DEF Init, EmptySent
  <2>2. Cached(EmptyPool) = {} /\ Waiting(EmptyPool) = {}
    BY EmptyPoolKeeps, EmptyPoolPlaced
  <2> QED
    BY <2>1, <2>2 DEF Held
<1> QED
  BY <1>1, <1>2, <1>3, FreshFollows DEF Init, FInv

LEMMA StepFollows == FInv /\ [Next]_vars => FInv'
<1> SUFFICES ASSUME FInv, [Next]_vars PROVE Following'
  BY StepKeeps, StaysSorted DEF FInv
<1>1. IInv /\ Sorted /\ Following
  BY DEF FInv
<1>2. CASE Task
  BY <1>1, <1>2, ConnectingFollows, ConnectOkFollows, SeeShutdownFollows, NextBatchFollows,
     IgnoreEchoFollows, HandleInsertFollows, HandleLeaveFollows, SendingFollows,
     EndsOnlyWhenClosed DEF Task
<1>3. CASE Node
  <2>1. CASE NodeStarts
    <3>1. UNCHANGED <<pc, batch, todo, sent, pool, conn, inbox, nodePool, spent, survived>>
      BY <2>1 DEF NodeStarts, sidecar, task, owned, socket, history
    <3> QED
      BY <1>1, <3>1, SameHeld, FollowingKept
  <2>2. CASE NodeDisconnects \/ NodeStops
    BY <1>1, <2>2, BreaksEnd DEF NodeDisconnects, NodeStops, Breaks
  <2> QED
    BY <1>1, <1>3, <2>1, <2>2, NodeAcceptsFollows, NodeReceivesFollows, NodeRemovesFollows DEF Node
<1>4. CASE CtrlC
  <2>1. UNCHANGED <<pc, batch, todo, sent, pool, conn, inbox, nodePool, spent, survived>>
    BY <1>4 DEF CtrlC, sidecar, task, owned, socket, node, history
  <2> QED
    BY <1>1, <2>1, SameHeld, FollowingKept
<1>5. CASE Tick
  <2>1. UNCHANGED <<pc, batch, todo, sent, conn, inbox, nodePool, spent, survived>>
    BY <1>5 DEF Tick, task, socket, node, history
  <2>2. Cached(pool') = Cached(pool) /\ Waiting(pool') = Waiting(pool)
    BY <1>1, <1>5, AgedKeeps, AgedSameWaiting DEF Tick, IInv, Keeps
  <2> QED
    BY <1>1, <2>1, <2>2, SameHeld, FollowingKept
<1>6. CASE Killed
  BY <1>1, <1>6, BreaksEnd DEF Killed
<1>7. CASE UNCHANGED vars
  <2>1. UNCHANGED <<pc, batch, todo, sent, pool, conn, inbox, nodePool, spent, survived>>
    BY <1>7 DEF vars, task, owned, socket, node, history
  <2> QED
    BY <1>1, <2>1, SameHeld, FollowingKept
<1> QED
  BY <1>2, <1>3, <1>4, <1>5, <1>6, <1>7 DEF Next

LEMMA AlwaysFollows == Spec => []FInv
BY InitFollows, StepFollows, PTL DEF Spec

\* With nothing in flight, what is held is in the node's pool.
LEMMA QuietIsEven ==
    ASSUME FInv
    PROVE  NothingOutlivesItsTx
<1> SUFFICES ASSUME Quiet, spent.breaks = 0
             PROVE  (sent.keys \cup Cached(pool) \cup Waiting(pool)) \ survived \subseteq nodePool
  BY DEF NothingOutlivesItsTx
<1>1. pc = "live" /\ batch = <<>> /\ inbox = <<>>
  BY DEF Quiet, InSelect
<1>2. <<>> \in Seq(Event) /\ DOMAIN <<>> = {}
  BY EmptySeq
<1>3. Stream = <<>>
  BY <1>1, <1>2, ConcatEmptySeq DEF Stream
<1>4. Tracks(<<>>, Held \ survived, nodePool)
  BY <1>1, <1>3 DEF FInv, Following
<1>5. \A h \in Hash : h \in Held \ survived => h \in nodePool
  BY <1>2, <1>4 DEF Tracks, LeavesAfter
<1>6. sent.keys \cup Cached(pool) \cup Waiting(pool) \subseteq Held \cap Hash
  <2>1. sent.keys \subseteq Hash
    BY DEF FInv, IInv, TypeOK
  <2>2. Cached(pool) \subseteq Hash
    BY DEF Cached
  <2>3. Waiting(pool) \subseteq Hash
    BY DEF Waiting, Parked, Hash
  <2> QED
    BY <2>1, <2>2, <2>3 DEF Held
<1> QED
  BY <1>5, <1>6

\* What leaves the node's pool leaves the sidecar: on an unbroken connection,
\* once every event and every reinjection has arrived, nothing is remembered as
\* reinjected, cached as a candidate target, or parked, that the node no longer
\* has, but for a bid that was parked twice when it left.
THEOREM NothingOutlives == Spec => []NothingOutlivesItsTx
BY AlwaysFollows, QuietIsEven, PTL

\* An Insert taken for an echo is one: a transaction that has just entered the
\* node's pool is behind the departure of its earlier life, which has taken the
\* hash out of the dedup memory by the time the Insert is looked at.
THEOREM SkippedOnlyEchoes == Spec => SkippedAreEchoes
<1>1. FInv /\ [Next]_vars =>
        [IgnoreEcho /\ spent.breaks = 0 /\ Head(batch).hash \notin survived
           => ~Head(batch).fresh]_vars
  <2> SUFFICES ASSUME FInv, IgnoreEcho, spent.breaks = 0, Head(batch).hash \notin survived,
                      Head(batch).fresh
               PROVE  FALSE
    OBVIOUS
  <2> DEFINE h == Head(batch).hash
  <2>1. /\ batch # <<>> /\ batch' = Tail(batch) /\ pc = "live"
        /\ Head(batch).kind = "insert" /\ h \in sent.keys /\ inbox' = inbox
    BY DEF IgnoreEcho, InBatch, socket
  <2>2. Stream # <<>> /\ Head(Stream) = Head(batch) /\ Stream \in Seq(Event)
    BY <2>1, StreamTail, StreamType DEF FInv, IInv
  <2>3. 1 \in DOMAIN Stream /\ Stream[1] = Head(batch)
    <3>1. Len(Stream) \in Nat /\ Len(Stream) # 0 /\ DOMAIN Stream = 1..Len(Stream)
      BY <2>2, LenProperties, EmptySeq
    <3> QED
      BY <2>2, <3>1
  <2>4. Tracks(Stream, Held \ survived, nodePool)
    BY <2>1 DEF FInv, Following
  <2>5. h \in Hash /\ h \in Held \ survived
    BY <2>1, FirstEvent DEF FInv, IInv, Held
  <2>6. LeavesBetween(Stream, h, 0, 1)
    <3>1. IsInsert(Stream, h, 1) /\ Stream[1].fresh
      BY <2>1, <2>3 DEF IsInsert
    <3> QED
      BY <2>4, <2>5, <3>1 DEF Tracks
  <2>7. DOMAIN Stream \subseteq Nat
    BY <2>2, LenProperties
  <2> QED
    BY <2>6, <2>7 DEF LeavesBetween
<1> QED
  BY <1>1, AlwaysFollows, PTL DEF Spec, SkippedAreEchoes

-----------------------------------------------------------------------------
(* The loop as a task that can be stopped.                                 *)

\* The loop has returned only if it was told to.
ToldBefore == pc = "stopped" => shutdown

\* Every step of the loop and of what is around it keeps that, and is a step of
\* the stoppable task or none at all: the process that dies has not been told.
LEMMA StepObeys ==
    ToldBefore /\ [Next]_vars =>
        ToldBefore' /\ [Stoppable!Tell \/ Stoppable!Stop]_<<shutdown, pc # "stopped">>
<1> DEFINE Goes == Stoppable!Tell \/ Stoppable!Stop \/ UNCHANGED <<shutdown, pc # "stopped">>
<1> SUFFICES ASSUME ToldBefore, [Next]_vars PROVE ToldBefore' /\ Goes
  OBVIOUS
<1>1. ASSUME UNCHANGED <<pc, shutdown>> PROVE ToldBefore' /\ Goes
  BY <1>1 DEF ToldBefore
<1>2. ASSUME pc # "stopped", pc' # "stopped", UNCHANGED shutdown PROVE ToldBefore' /\ Goes
  BY <1>2 DEF ToldBefore
<1>3. ASSUME pc # "stopped", pc' = "stopped", shutdown, UNCHANGED shutdown
      PROVE  ToldBefore' /\ Goes
  BY <1>3 DEF ToldBefore, Stoppable!Stop
<1>4. ASSUME ~shutdown, shutdown', UNCHANGED pc PROVE ToldBefore' /\ Goes
  BY <1>4 DEF ToldBefore, Stoppable!Tell
<1> HIDE DEF Goes
<1>5. CASE Top
  BY <1>2, <1>3, <1>5 DEF Top, watch
<1>6. CASE SeeShutdown
  BY <1>3, <1>6 DEF SeeShutdown, InSelect
<1>7. CASE ConnectOk \/ ConnectFails \/ WakeUp \/ StreamEnds \/ SendFails
  BY <1>2, <1>7 DEF ConnectOk, ConnectFails, WakeUp, StreamEnds, SendFails, watch,
                    InSelect, Sending
<1>8. CASE NextBatch \/ IgnoreEcho \/ HandleInsert \/ HandleLeave \/ SkipSent \/ SendOk
  BY <1>1, <1>8 DEF NextBatch, IgnoreEcho, HandleInsert, HandleLeave, SkipSent, SendOk, watch
<1>9. CASE Node
  BY <1>1, <1>9 DEF Node, NodeStarts, NodeAccepts, NodeDisconnects, NodeStops, NodeReceives,
                    NodeRemoves, sidecar, task
<1>10. CASE CtrlC
  BY <1>4, <1>10 DEF CtrlC, sidecar, task
<1>11. CASE Tick
  BY <1>1, <1>11 DEF Tick, task, watch
<1>12. CASE Killed
  BY <1>2, <1>12 DEF Killed, watch, ToldBefore
<1>13. CASE UNCHANGED vars
  BY <1>1, <1>13 DEF vars, task, watch
<1> QED
  BY <1>5, <1>6, <1>7, <1>8, <1>9, <1>10, <1>11, <1>12, <1>13 DEF Next, Task

\* The loop never returns unless it was told to, and once it has returned, or
\* been told, nothing takes that back.  That it does return is the part of
\* ImplementsStoppable that needs fairness.
THEOREM StopsOnlyWhenTold == Spec => Stoppable!Obeys
<1>1. Init => ToldBefore /\ Stoppable!Start
  BY DEF Init, ToldBefore, Stoppable!Start
<1> QED
  BY <1>1, StepObeys, PTL DEF Spec, Stoppable!Obeys
=============================================================================

---------------------------- MODULE SentCacheOps ----------------------------
(***************************************************************************)
(* The dedup memory of the IPC loop: struct SentCache of                   *)
(* src/txpool_ipc.rs.  It remembers the hashes reinjected so far, so that  *)
(* the node's echo of a reinjection is not taken for a new transaction.    *)
(* The priorities stored with the hashes are never read back and are left  *)
(* out: the map is the set of its keys.                                    *)
(*                                                                         *)
(* Every method is an operator on a record.  Module SentCache drives the   *)
(* cache alone, module IpcLoop composes it with the pool.                  *)
(***************************************************************************)
EXTENDS OrderQueues

CONSTANT SentCacheMax   \* configured number of hashes to remember

ASSUME SentAssumption == SentCacheMax \in Nat

MaxEntries == AtLeastOne(SentCacheMax)

EmptySent == [keys |-> {}, order |-> <<>>]

\* retain: keep the order entries whose hash is in the map.
Retained(order, keys) == Without(order, {i \in DOMAIN order : order[i] \notin keys})

\* Compaction runs when the queue is longer than twice the capacity.
CompactedNever(order, keys) == order                              \* faulty variant
Compacted(order, keys) ==
    IF Len(order) > 2 * MaxEntries THEN Retained(order, keys) ELSE order

\* The number of entries popped until one removes a key.  An insert adds one
\* key, so that is all it takes to be within capacity again.
SentOverflow(s) == FirstOf({i \in DOMAIN s.order : s.order[i] \in s.keys}, Len(s.order))

\* Faulty variant: the key evicted is the one queued just before the newest.
SentEvictedLastIn(s) ==
    LET n == Len(s.order) - 1
    IN  IF OverCapacity(Cardinality(s.keys), MaxEntries)
        THEN [keys |-> s.keys \ {s.order[n]}, order |-> Without(s.order, {n})]
        ELSE s

SentEvicted(s) ==
    LET n == SentOverflow(s)
    IN  IF OverCapacity(Cardinality(s.keys), MaxEntries)
        THEN [keys |-> s.keys \ {s.order[i] : i \in 1..n}, order |-> Dropped(s.order, n)]
        ELSE s

\* Faulty variant: compaction consults the map before the new key is in it.
SentRecordedLate(s, h) ==
    LET order == IF h \in s.keys THEN s.order ELSE Append(s.order, h)
    IN  [keys |-> s.keys \cup {h}, order |-> Compacted(order, s.keys)]

\* The cache with the new hash in it, before anything is evicted.
SentRecorded(s, h) ==
    LET keys == s.keys \cup {h}
        order == IF h \in s.keys THEN s.order ELSE Append(s.order, h)
    IN  [keys |-> keys, order |-> Compacted(order, keys)]

SentNotInserted(s, h) == s                                        \* faulty variant
SentInserted(s, h) == SentEvicted(SentRecorded(s, h))

\* What insert returns: the number of popped entries that remove a key.
SentEvictions(s, h) ==
    LET q == SentRecorded(s, h)
    IN  IF OverCapacity(Cardinality(q.keys), MaxEntries)
        THEN Cardinality({i \in 1..SentOverflow(q) : q.order[i] \in q.keys})
        ELSE 0

SentNotRemoved(s, h) == s                                         \* faulty variant
\* remove leaves the queue alone: its entry becomes stale.
SentRemoved(s, h) == [s EXCEPT !.keys = @ \ {h}]
=============================================================================

----------------------------- MODULE SentCache -----------------------------
(***************************************************************************)
(* The dedup memory of the IPC loop driven alone, under any sequence of    *)
(* insert and remove.                                                      *)
(***************************************************************************)
EXTENDS SentCacheOps, SequencesExt

CONSTANTS
    SentHash,       \* the transaction hashes of the instance
    OrderBound      \* bound of the model: length of the order queue

ASSUME SentHashAssumption == IsFiniteSet(SentHash) /\ OrderBound \in Nat

VARIABLE sent       \* the SentCache

Init == sent = EmptySent

InsertHash(h) == Len(sent.order) < OrderBound /\ sent' = SentInserted(sent, h)

RemoveHash(h) == sent' = SentRemoved(sent, h)

Next == \E h \in SentHash : InsertHash(h) \/ RemoveHash(h)

Spec == Init /\ [][Next]_sent

-----------------------------------------------------------------------------
(* Properties. *)

\* The cache has its type.
TypeOK == sent \in [keys : SUBSET SentHash, order : Seq(SentHash)]

\* The map is within its capacity after every call.
CapacityHeld == Cardinality(sent.keys) <= MaxEntries

\* Eviction finds its victims through the queue: a remembered hash that is not
\* in it could never be evicted, and the capacity could not be kept for long.
OrderCoversKeys == sent.keys \subseteq ToSet(sent.order)

\* Compaction keeps the number of different hashes in the queue within twice
\* the capacity, whatever is inserted and removed.
DistinctOrderBounded == Cardinality(ToSet(sent.order)) <= 2 * MaxEntries

\* The cache implements the window the loop needs.  The queue tells which key
\* was recorded first: the last entry of a key is where it was last recorded.
\* A hash is left over if the queue names it more often than the map holds it.
Earlier(order, g, k) ==
    \E j \in DOMAIN order : order[j] = k /\ \A i \in DOMAIN order : order[i] = g => i < j

Twice(order, h) == \E i, j \in DOMAIN order : i < j /\ order[i] = h /\ order[j] = h

Window == INSTANCE DedupWindow WITH
    Tx <- SentHash, WindowCap <- MaxEntries,
    window <- sent.keys,
    older <- {e \in sent.keys \X sent.keys : Earlier(sent.order, e[1], e[2])},
    leftover <- {h \in ToSet(sent.order) : h \notin sent.keys \/ Twice(sent.order, h)}

ImplementsWindow == Window!Spec

(* Claims of the comments and tests that the code does not keep. *)

\* txpool_ipc.rs:299 asserts, after a loop of insert and remove on different
\* hashes, that the queue stays within twice the capacity.
OrderBounded == Len(sent.order) <= 2 * MaxEntries
\* txpool_ipc.rs:62: what insert evicts are the oldest entries; so the hash it
\* has just inserted, the newest, is in the map when it returns.
InsertedIsKept == [][\A h \in SentHash : InsertHash(h) => h \in sent'.keys]_sent
=============================================================================

---------------------------- MODULE PendingPool ----------------------------
(***************************************************************************)
(* The pairing pool of the sidecar driven alone, with the two calls the    *)
(* IPC loop makes (src/txpool_ipc.rs): prune and then observe when the     *)
(* node reports an Insert, forget when a transaction leaves the node's     *)
(* pool.  The operators are in PendingPoolOps; here are the variables, the *)
(* actions and what must hold of the pool.                                 *)
(***************************************************************************)
EXTENDS PendingPoolOps

CONSTANT QueueBound     \* bound of the model: length of the two order queues

ASSUME QueueBoundAssumption == QueueBound \in Nat

\* A bid carries the hash it names in its calldata, and its own hash covers the
\* calldata: it cannot name itself.
ASSUME NoSelfTarget == \A b \in Backrun : Target[b] # b

VARIABLES
    pool,   \* the PendingPool the loop owns
    last    \* the outcome of the last Insert: ObserveResult and the expired count

vars == <<pool, last>>

NoOutcome == [reinjections |-> <<>>, matched |-> 0, pended |-> 0, evicted |-> 0, expired |-> 0]

Init == pool = EmptyPool /\ last = NoOutcome

\* The clock is read once for prune and once more for observe: it may have
\* ticked in between.
Insert(h) ==
    /\ Len(pool.cacheOrder) < QueueBound
    /\ Len(pool.pendingOrder) < QueueBound
    /\ LET pruned == Pruned(pool)
       IN  \E seen \in {pruned, Aged(pruned)} :
             LET r == Observed(seen, h)
             IN  /\ pool' = r.pool
                 /\ last' = [reinjections |-> r.reinjections, matched |-> r.matched,
                             pended |-> r.pended, evicted |-> r.evicted,
                             expired |-> Expired(pool)]

Forget(h) == pool' = Forgotten(pool, h) /\ last' = NoOutcome

Tick == pool' = Aged(pool) /\ last' = NoOutcome

Next ==
    \/ \E h \in Hash : Insert(h)
    \/ \E h \in Hash : Forget(h)
    \/ Tick

Spec == Init /\ [][Next]_vars

-----------------------------------------------------------------------------
(* Properties. *)

\* The pool has its type, and so does the outcome of the last call.
TypeOK ==
    /\ pool \in Pool
    /\ last.reinjections \in Seq(Reinjection)
    /\ {last.matched, last.pended, last.evicted, last.expired} \subseteq Nat

\* pending_count is kept by hand next to the vectors it counts, with
\* subtractions on usize in five places (backrun.rs:203, 247, 277, 282, 340):
\* it is always the number of parked bids, so none of them underflows.
CountMatches == pool.pendingCount = Cardinality(Slots(pool))

\* The cache and the parked bids stay within their capacities at the end of
\* every call (insert_cache, push_pending).
CapacityHeld ==
    /\ Cardinality(Cached(pool)) <= CacheCap
    /\ pool.pendingCount <= PendingCap

\* streamed_targets has no bound and no TTL of its own: it stays bounded only
\* because every path that drops a cache entry drops its mark as well.
StreamedAreCached == pool.streamed \subseteq Cached(pool)

\* Every cached hash is in cache_order and every parked copy is named by an
\* entry of pending_order.  Pruning and eviction find things by their queues
\* alone, so an entry without a place in the queue would stay for ever.
QueuesCoverEntries ==
    /\ Cached(pool) \subseteq ToSet(pool.cacheOrder)
    /\ \A t \in Hash : \A c \in DOMAIN pool.pending[t] :
          \E i \in DOMAIN pool.pendingOrder :
             pool.pendingOrder[i].target = t /\ c \in Named(pool, i)

\* A bid is never parked while the vanilla transaction it wants is cached: it
\* would wait for an arrival that has already happened.
NoMissedPairAmong(targets) == \A t \in targets : pool.cache[t] # Absent => Parked(pool, t) = {}
NoMissedPair == NoMissedPairAmong(Vanilla)

\* The transaction just observed is in the cache afterwards, whatever stale
\* entries cache_order holds: capacity eviction never takes the newcomer.
\* (observe_at relies on it to find the target it is about to stream.)
NewcomerIsCached == [][\A h \in Hash : Insert(h) => pool'.cache[h] # Absent]_vars

\* Every reinjected bid comes behind its target: the target's own reinjection
\* is earlier in the same list, or was emitted before and is still remembered.
BidsFollowTarget ==
    [][\A i \in DOMAIN last'.reinjections :
         LET r == last'.reinjections[i]
         IN  r.class = "bid" =>
               \/ r.group \in pool.streamed
               \/ \E j \in 1..(i - 1) : last'.reinjections[j] =
                     [hash |-> r.group, class |-> "opportunity", group |-> r.group]]_vars

\* A target is streamed at most once for as long as it stays cached: it is
\* streamed when it is not marked, once in the answer, and is marked then; and
\* the mark stays for as long as the entry does, through re-observation, prune,
\* eviction and departures of others.  Only a target that is reported again after
\* it has outlived the TTL may lose it with its entry and be cached anew at once.
Renewed(h) == Insert(h) /\ pool.cache[h] = TTL

OpportunityOnce ==
    [][/\ \A i \in DOMAIN last'.reinjections :
            LET r == last'.reinjections[i]
            IN  r.class = "opportunity" =>
                  /\ r.hash \notin pool.streamed
                  /\ r.hash \in pool'.streamed
                  /\ \A j \in DOMAIN last'.reinjections :
                        last'.reinjections[j] = r => j = i
       /\ \A h \in pool.streamed \cap Cached(pool') : h \in pool'.streamed \/ Renewed(h)]_vars

\* A parked bid stops being parked for a reason the pool reports: it is
\* reinjected, it outlived the TTL, it was evicted for capacity, or it or its
\* target left the node's pool.  A step loses no bid silently.
BidsLeaveForAReason ==
    [][\A t \in Hash : \A b \in Parked(pool, t) \ Parked(pool', t) :
         \/ BidReinjection(b, t) \in ToSet(last'.reinjections)
         \/ last'.expired > 0 /\ \E c \in Copies(pool, t, b) : pool.pending[t][c].age = TTL
         \/ last'.evicted > 0 /\ pool.pendingCount = PendingCap
         \/ Forget(b) \/ Forget(t)]_vars

\* The counters of one Insert, each counted where the code counts it, agree with
\* what became of the vectors: the copies parked before, plus what is newly
\* parked, are the copies parked now plus what was flushed, evicted and expired.
BidsAccounted ==
    [][\A h \in Hash : Insert(h) =>
         Cardinality(Slots(pool)) + last'.pended =
           Cardinality(Slots(pool')) + last'.evicted + last'.expired
             + (IF h \in Vanilla THEN last'.matched ELSE 0)]_vars

\* Pairing is independent of arrival order: with room for the bid, and unless
\* capacity eviction could take the target through an entry it left in
\* cache_order, showing the pool a bid and then its target, or the target and
\* then the bid, yields the same reinjections and leaves the same bids parked.
Reinjected(p, h, g) ==
    LET r1 == Observed(p, h)
        r2 == Observed(r1.pool, g)
    IN  [sent |-> ToSet(r1.reinjections) \cup ToSet(r2.reinjections),
         parked |-> [t \in Hash |-> Parked(r2.pool, t)]]

HasRoomFor(p, b, t) ==
    /\ {b, t} \cap (Cached(p) \cup Parked(p, t)) = {}
    /\ CacheCap >= 2
    /\ Cardinality(Cached(p)) + 2 <= CacheCap \/ t \notin ToSet(p.cacheOrder)
    /\ p.pendingCount + 1 <= PendingCap

ArrivalOrderIrrelevant ==
    \A b \in Backrun : LET t == Target[b] IN
        t \in Vanilla /\ HasRoomFor(pool, b, t) =>
            Reinjected(pool, b, t) = Reinjected(pool, t, b)

\* The pool implements the pairing it promises: known are the cached hashes,
\* waiting the bids parked anywhere, and the queues, ages and counters vanish.
Pairing == INSTANCE BackrunPairing WITH
    KnownCap <- CacheCap, WaitingCap <- PendingCap,
    known <- Cached(pool),
    offered <- pool.streamed,
    waiting <- Waiting(pool),
    sent <- ToSet(last.reinjections)

ImplementsPairing == Pairing!Spec

(* A claim of the comments that the code does not keep. *)

\* backrun.rs:270-272: forget removes a transaction "wherever it appears".
ForgottenEverywhere ==
    [][\A h \in Hash : pool' = Forgotten(pool, h) =>
         /\ h \notin Cached(pool') \cup pool'.streamed
         /\ Parked(pool', h) = {}
         /\ \A t \in Hash : h \notin Parked(pool', t)]_vars
=============================================================================

--------------------------- MODULE PendingPoolOps ---------------------------
(***************************************************************************)
(* The backrun pairing state of the sidecar: struct PendingPool of         *)
(* src/backrun.rs.  It caches every transaction it is shown (a candidate   *)
(* target), parks backrun bids whose target has not been seen, and answers *)
(* each observed transaction with the list of reinjections to send.        *)
(*                                                                         *)
(* The pool is one record, and every method of the struct is an operator   *)
(* from pool to pool, so that the IPC loop (module IpcLoop) can compose    *)
(* prune and observe in one handler the way run_txpool_priority_loop does. *)
(* Module PendingPool drives the pool alone.                               *)
(*                                                                         *)
(* Data.  A transaction is its hash: what the code decodes from it (is it  *)
(* bound for the gateway, does it decode, which target does it name) is a  *)
(* function of the hash, given by the constants.  The clock is read only   *)
(* to compare now - seen_at with the TTL, so an entry stores its age,      *)
(* which stops counting at TTL.                                            *)
(***************************************************************************)
EXTENDS OrderQueues, SequencesExt

CONSTANTS
    Vanilla,            \* transactions not addressed to the gateway
    Tob,                \* gateway calls with a zero target hash: lead-block bids
    Backrun,            \* gateway calls that name a target
    Invalid,            \* addressed to the gateway, but no gateway call decodes
    Target,             \* the target hash a backrun bid names
    ZeroScore,          \* TOB bids whose fee-plus-bid scalar is zero
    TTL,                \* backrun TTL, in ticks of the model's clock
    MaxCacheEntries,    \* configured capacity of the target cache
    MaxPendingEntries   \* configured capacity for parked bids

Hash == Vanilla \cup Tob \cup Backrun \cup Invalid

ASSUME KindAssumption ==
    /\ Vanilla \cap (Tob \cup Backrun \cup Invalid) = {}
    /\ Tob \cap (Backrun \cup Invalid) = {}
    /\ Backrun \cap Invalid = {}
    /\ IsFiniteSet(Hash)

ASSUME TargetAssumption ==
    /\ Target \in [Backrun -> Hash]
    /\ ZeroScore \subseteq Tob

ASSUME BoundAssumption ==
    /\ TTL \in Nat
    /\ MaxCacheEntries \in Nat
    /\ MaxPendingEntries \in Nat

(* The capacities the pool enforces. *)
CacheCap == AtLeastOne(MaxCacheEntries)
PendingCap == AtLeastOne(MaxPendingEntries)

-----------------------------------------------------------------------------
(* The state of the pool. *)

Absent == -1
Age == 0..TTL

\* A parked bid in the vector of its target.
PendingBid == [hash : Backrun, age : Age]

\* cache maps a hash to the age of its entry, or Absent.  pending maps a
\* target to its vector of bids; the code removes a vector that becomes
\* empty, so the empty sequence is a missing key.
Pool == [ cache : [Hash -> Age \cup {Absent}],
          cacheOrder : Seq(Hash),
          pending : [Hash -> Seq(PendingBid)],
          pendingOrder : Seq([target : Hash, bid : Backrun]),
          pendingCount : Nat,
          streamed : SUBSET Hash ]

EmptyPool == [ cache |-> [h \in Hash |-> Absent],
               cacheOrder |-> <<>>,
               pending |-> [h \in Hash |-> <<>>],
               pendingOrder |-> <<>>,
               pendingCount |-> 0,
               streamed |-> {} ]

Cached(p) == {h \in Hash : p.cache[h] # Absent}

\* The places of the parked bids: target, and position in its vector.
Slots(p) == UNION {{t} \X DOMAIN p.pending[t] : t \in Hash}

\* The positions of the copies of bid b in the vector of target t.
Copies(p, t, b) == {i \in DOMAIN p.pending[t] : p.pending[t][i].hash = b}

\* The bids parked under target t.
Parked(p, t) == {b \in Backrun : Copies(p, t, b) # {}}

\* The bids parked under any target.
Waiting(p) == UNION {Parked(p, t) : t \in Hash}

-----------------------------------------------------------------------------
\* Take the bids at the positions gone out of the vector of target t.
TakenUncounted(p, t, gone) ==                   \* faulty variant: no decrement
    [p EXCEPT !.pending[t] = Without(@, gone)]
Taken(p, t, gone) ==
    [p EXCEPT !.pending[t] = Without(@, gone), !.pendingCount = @ - Cardinality(gone)]

-----------------------------------------------------------------------------
(* Popping the FIFO queues.  Both TTL pruning and capacity eviction take a *)
(* prefix off an order queue and remove what it names.                     *)

\* Faulty variant: the streamed mark stays when the entry goes.
PopCacheKeepingMarks(p, n) ==
    LET popped == {p.cacheOrder[i] : i \in 1..n}
    IN  [p EXCEPT !.cache = [h \in Hash |-> IF h \in popped THEN Absent ELSE p.cache[h]],
                  !.cacheOrder = Dropped(p.cacheOrder, n)]

\* Faulty variant: only the entry popped last is removed from the cache.
PopCacheLast(p, n) ==
    LET popped == {p.cacheOrder[i] : i \in {n} \cap DOMAIN p.cacheOrder}
    IN  [p EXCEPT !.cache = [h \in Hash |-> IF h \in popped THEN Absent ELSE p.cache[h]],
                  !.cacheOrder = Dropped(p.cacheOrder, n),
                  !.streamed = @ \ popped]

\* Pop the first n entries of cache_order, with what they still name.
PopCache(p, n) ==
    LET popped == {p.cacheOrder[i] : i \in 1..n}
    IN  [p EXCEPT !.cache = [h \in Hash |-> IF h \in popped THEN Absent ELSE p.cache[h]],
                  !.cacheOrder = Dropped(p.cacheOrder, n),
                  !.streamed = @ \ (popped \cap Cached(p))]

\* The copy of a parked bid that entry i of pending_order removes when it is
\* popped after the entries before it: each entry takes the first copy left,
\* so the k-th of several equal entries takes the k-th copy, if there is one.
Named(p, i) ==
    LET e == p.pendingOrder[i]
        copies == Copies(p, e.target, e.bid)
        k == Cardinality({j \in 1..i : p.pendingOrder[j] = e})
    IN  {c \in copies : Cardinality({d \in copies : d <= c}) = k}

\* Pop the first n entries of pending_order, with the copies they name.
PopPending(p, n) ==
    LET gone(t) == UNION {Named(p, i) : i \in {j \in 1..n : p.pendingOrder[j].target = t}}
        removed == UNION {{t} \X gone(t) : t \in Hash}
    IN  [p EXCEPT !.pending = [t \in Hash |-> Without(p.pending[t], gone(t))],
                  !.pendingOrder = Dropped(p.pendingOrder, n),
                  !.pendingCount = @ - Cardinality(removed)]

\* Faulty variant: stale entries are counted, too.
HitsAndStale(p, n) == n

\* How many of the first n entries of pending_order find a copy to remove, each
\* of which the loops of prune and push_pending count.
Hits(p, n) == Cardinality({i \in 1..n : Named(p, i) # {}})

-----------------------------------------------------------------------------
(* prune: stop each queue at its first entry that is present and fresh.    *)

PrunedCache(p) ==
    LET fresh == {i \in DOMAIN p.cacheOrder : p.cache[p.cacheOrder[i]] \in 0..(TTL - 1)}
    IN  PopCache(p, FirstOf(fresh, Len(p.cacheOrder) + 1) - 1)

\* Faulty variant: the fresh entry that stops the loop is popped as well.
OutdatedPastFresh(p) ==
    LET fresh == {i \in DOMAIN p.pendingOrder :
                    \E c \in Named(p, i) : p.pending[p.pendingOrder[i].target][c].age < TTL}
    IN  FirstOf(fresh, Len(p.pendingOrder))

\* The number of entries of pending_order that prune pops.
Outdated(p) ==
    LET fresh == {i \in DOMAIN p.pendingOrder :
                    \E c \in Named(p, i) : p.pending[p.pendingOrder[i].target][c].age < TTL}
    IN  FirstOf(fresh, Len(p.pendingOrder) + 1) - 1

PrunedPending(p) == PopPending(p, Outdated(p))

PrunedBidsOnly(p) == PrunedPending(p)           \* faulty variant: cache not pruned
Pruned(p) == PrunedPending(PrunedCache(p))

\* What prune returns: the number of bids it has removed.
Expired(p) == LET q == PrunedCache(p) IN Hits(q, Outdated(q))

-----------------------------------------------------------------------------
(* insert_cache and push_pending: add at the back, evict from the front    *)
(* when over capacity.  A push adds one element, so at most one is evicted. *)

\* Faulty variant: an entry that is renewed loses its streamed mark.
InsertCacheUnmarking(p, h) ==
    LET q == [p EXCEPT !.cache[h] = 0,
                       !.cacheOrder = IF p.cache[h] = Absent THEN Append(@, h) ELSE @,
                       !.streamed = @ \ {h}]
        present == {i \in DOMAIN q.cacheOrder : q.cache[q.cacheOrder[i]] # Absent}
    IN  IF OverCapacity(Cardinality(Cached(q)), CacheCap)
        THEN PopCache(q, FirstOf(present, Len(q.cacheOrder)))
        ELSE q

InsertCache(p, h) ==
    LET q == [p EXCEPT !.cache[h] = 0,
                       !.cacheOrder = IF p.cache[h] = Absent THEN Append(@, h) ELSE @]
        present == {i \in DOMAIN q.cacheOrder : q.cache[q.cacheOrder[i]] # Absent}
    IN  IF OverCapacity(Cardinality(Cached(q)), CacheCap)
        THEN PopCache(q, FirstOf(present, Len(q.cacheOrder)))
        ELSE q

\* The pool with bid b in the vector of its target and at the back of the queue.
Parking(p, b) ==
    [p EXCEPT !.pending[Target[b]] = Append(@, [hash |-> b, age |-> 0]),
              !.pendingOrder = Append(@, [target |-> Target[b], bid |-> b]),
              !.pendingCount = @ + 1]

\* The number of entries popped until one bid is removed.
Overflow(q) ==
    FirstOf({i \in DOMAIN q.pendingOrder : Named(q, i) # {}}, Len(q.pendingOrder))

PushPending(p, b) ==
    LET q == Parking(p, b)
    IN  IF OverCapacity(q.pendingCount, PendingCap) THEN PopPending(q, Overflow(q)) ELSE q

\* What push_pending returns: the number of bids it has evicted.
Evicted(p, b) ==
    LET q == Parking(p, b)
    IN  IF OverCapacity(q.pendingCount, PendingCap) THEN Hits(q, Overflow(q)) ELSE 0

-----------------------------------------------------------------------------
(* observe_at.  A result is the new pool, the reinjections in the order    *)
(* they will be sent, and the counters the loop folds into the metrics.    *)

Reinjection == [hash : Hash, class : {"tob", "fallback", "opportunity", "bid"}, group : Hash]

Result(p, reinjections, matched, pended, evicted) ==
    [pool |-> p, reinjections |-> reinjections,
     matched |-> matched, pended |-> pended, evicted |-> evicted]

BidReinjection(b, t) == [hash |-> b, class |-> "bid", group |-> t]

\* emit_opportunity_once: the reinjection of the target, if it is due ...
OpportunityIfFresh(p, t) ==                     \* faulty variant: expired target skipped
    IF t \notin p.streamed /\ p.cache[t] \in 0..(TTL - 1)
    THEN <<[hash |-> t, class |-> "opportunity", group |-> t]>>
    ELSE <<>>
Opportunity(p, t) ==
    IF t \notin p.streamed /\ p.cache[t] # Absent
    THEN <<[hash |-> t, class |-> "opportunity", group |-> t]>>
    ELSE <<>>

\* ... and the pool that remembers it was emitted.
Streaming(p, t) == IF p.cache[t] # Absent THEN [p EXCEPT !.streamed = @ \cup {t}] ELSE p

\* Faulty variant: a TOB bid whose score is zero is not reinjected.
ObserveTobIfScored(p, h) ==
    Result(p, IF h \in ZeroScore THEN <<>> ELSE <<[hash |-> h, class |-> "tob", group |-> h]>>,
           0, 0, 0)

ObserveTob(p, h) ==
    Result(p, <<[hash |-> h, class |-> IF h \in ZeroScore THEN "fallback" ELSE "tob",
                 group |-> h]>>, 0, 0, 0)

\* Faulty variant: a target that has expired since prune counts as absent.
ObserveBackrunIfFresh(p, b) ==
    LET t == Target[b]
    IN  IF p.cache[t] \in 0..(TTL - 1)
        THEN Result(Streaming(p, t), Append(Opportunity(p, t), BidReinjection(b, t)), 1, 0, 0)
        ELSE Result(PushPending(p, b), <<>>, 0, 1, Evicted(p, b))

\* A backrun bid is paired at once if its target is cached, and parked otherwise.
ObserveBackrun(p, b) ==
    LET t == Target[b]
    IN  IF p.cache[t] # Absent
        THEN Result(Streaming(p, t), Append(Opportunity(p, t), BidReinjection(b, t)), 1, 0, 0)
        ELSE Result(PushPending(p, b), <<>>, 0, 1, Evicted(p, b))

\* Faulty variant: bids are matched only when their target came first.
ObserveVanillaOneWay(p, h) == Result(p, <<>>, 0, 0, 0)

\* A transaction that is not for the gateway flushes the bids waiting for it.
ObserveVanilla(p, h) ==
    LET bids == p.pending[h]
        flushed == Taken(p, h, DOMAIN bids)
        bidReinjections == [i \in DOMAIN bids |-> BidReinjection(bids[i].hash, h)]
    IN  IF bids = <<>>
        THEN Result(p, <<>>, 0, 0, 0)
        ELSE Result(Streaming(flushed, h), Opportunity(p, h) \o bidReinjections, Len(bids), 0, 0)

Observed(p, h) ==
    LET q == InsertCache(p, h)
    IN  CASE h \in Tob     -> ObserveTob(q, h)
          [] h \in Backrun -> ObserveBackrun(q, h)
          [] h \in Invalid -> Result(q, <<>>, 0, 0, 0)
          [] h \in Vanilla -> ObserveVanilla(q, h)

\* The two flags of the result, by which an Insert that is not answered is
\* counted.  A target that flushes its bids is not skipped.
SkippedNonGateway(p, h) == h \in Vanilla /\ p.pending[h] = <<>>
SkippedInvalidGateway(h) == h \in Invalid

-----------------------------------------------------------------------------
(* forget: the transaction left the node's pool.                           *)

\* Faulty variant: the count is decremented whether the bid is parked or not.
UnparkedAlways(p, b) ==
    LET t == Target[b]
        copies == Copies(p, t, b)
    IN  [p EXCEPT !.pending[t] = Without(@, IF copies = {} THEN {} ELSE {FirstOf(copies, 0)}),
                  !.pendingCount = @ - 1]

\* Remove the first parked copy of bid b, if there is one.
Unparked(p, b) ==
    LET copies == Copies(p, Target[b], b)
    IN  IF copies = {} THEN p ELSE Taken(p, Target[b], {FirstOf(copies, 0)})

\* Faulty variant: the bids waiting for h stay parked.
ForgottenTargetOnly(p, h) ==
    LET q == [p EXCEPT !.cache[h] = Absent, !.streamed = @ \ {h}]
    IN  IF h \in Backrun THEN Unparked(q, h) ELSE q

Forgotten(p, h) ==
    LET q == [p EXCEPT !.cache[h] = Absent, !.streamed = @ \ {h}]
        r == Taken(q, h, DOMAIN q.pending[h])
    IN  IF h \in Backrun THEN Unparked(r, h) ELSE r

\* One tick of the clock: every stored age grows, up to TTL.
Older(a) == IF a \in {Absent, TTL} THEN a ELSE a + 1
Aged(p) ==
    [p EXCEPT !.cache = [h \in Hash |-> Older(p.cache[h])],
              !.pending = [t \in Hash |-> [i \in DOMAIN p.pending[t] |->
                              [p.pending[t][i] EXCEPT !.age = Older(@)]]]]
=============================================================================

------------------------- MODULE PendingPoolProofs -------------------------
(***************************************************************************)
(* What holds of PendingPool for every set of transactions, every choice   *)
(* of targets, every capacity and every TTL.  Three invariants, each on    *)
(* top of the one before:                                                  *)
(*                                                                         *)
(*   IInv     what every call keeps, and a well-formed answer; its parts   *)
(*            need each other, as PendingPoolOpsProofs explains            *)
(*   Backed   pending_order names each bid as often as it is parked, and   *)
(*            no more are parked than fit                                  *)
(*   Placed   a bid is parked under the target it names; with it the pool  *)
(*            implements BackrunPairing                                    *)
(*                                                                         *)
(* From the three together follows what the answers say: no bid is lost    *)
(* silently, a target is offered once, and the order in which a bid and    *)
(* its target arrive makes no difference.                                  *)
(***************************************************************************)
EXTENDS PendingPool, PendingPoolOpsProofs

-----------------------------------------------------------------------------
(* The invariant.                                                          *)

OutcomeOK ==
    /\ last.reinjections \in Seq(Reinjection)
    /\ {last.matched, last.pended, last.evicted, last.expired} \subseteq Nat

IInv == Keeps(pool) /\ OutcomeOK

\* The empty outcome is well typed.
LEMMA NoOutcomeOK == last = NoOutcome => OutcomeOK
<1>1. <<>> \in Seq(Reinjection)
  BY EmptySeq
<1> QED
  BY <1>1 DEF NoOutcome, OutcomeOK

\* The empty pool satisfies the invariant.
LEMMA InitEstablishes == Init => IInv
BY NoOutcomeOK, EmptyPoolKeeps DEF Init, IInv

\* An Insert keeps the invariant, and leaves the newcomer in the cache.
LEMMA InsertPreserves ==
    ASSUME IInv, NEW h \in Hash, Insert(h)
    PROVE  IInv' /\ pool'.cache[h] # Absent
<1> DEFINE pruned == Pruned(pool)
<1>1. PICK seen \in {pruned, Aged(pruned)} :
        LET r == Observed(seen, h)
        IN  /\ pool' = r.pool
            /\ last' = [reinjections |-> r.reinjections, matched |-> r.matched,
                         pended |-> r.pended, evicted |-> r.evicted,
                         expired |-> Expired(pool)]
  BY DEF Insert
<1> DEFINE r == Observed(seen, h)
<1>2. /\ Core(seen) /\ Within(seen) /\ NoMissedBut({}, seen) /\ HeadLive(seen)
      /\ Expired(pool) \in Nat
  BY SeenProperties DEF IInv, Keeps
<1>3. Sound(r) /\ h \in Cached(r.pool)
  BY <1>2, ObservedSound
<1> HIDE DEF r, pruned
<1>4. Core(pool') /\ Within(pool') /\ NoMissedBut({}, pool') /\ h \in Cached(pool')
  BY <1>1, <1>3 DEF Sound, r
<1>5. OutcomeOK'
  <2>1. /\ last'.reinjections = r.reinjections /\ last'.matched = r.matched
        /\ last'.pended = r.pended /\ last'.evicted = r.evicted
        /\ last'.expired = Expired(pool)
    BY <1>1 DEF r
  <2> QED
    BY <1>2, <1>3, <2>1 DEF Sound, OutcomeOK
<1> QED
  BY <1>4, <1>5 DEF IInv, Keeps, Cached

\* A departure keeps the invariant.
LEMMA ForgetPreserves == ASSUME IInv, NEW h \in Hash, Forget(h) PROVE IInv'
<1>1. pool' = Forgotten(pool, h) /\ OutcomeOK'
  <2>1. last' = NoOutcome
    BY DEF Forget
  <2>2. <<>> \in Seq(Reinjection)
    BY EmptySeq
  <2> QED
    BY <2>1, <2>2 DEF Forget, OutcomeOK, NoOutcome
<1> QED
  BY <1>1, ForgottenKeeps DEF IInv

\* The clock keeps the invariant: it changes ages only.
LEMMA TickPreserves == ASSUME IInv, Tick PROVE IInv'
<1>1. pool' = Aged(pool) /\ OutcomeOK'
  <2>1. last' = NoOutcome
    BY DEF Tick
  <2>2. <<>> \in Seq(Reinjection)
    BY EmptySeq
  <2> QED
    BY <2>1, <2>2 DEF Tick, OutcomeOK, NoOutcome
<1> QED
  BY <1>1, AgedKeeps DEF IInv

\* Every step keeps the invariant.
LEMMA StepPreserves == IInv /\ [Next]_vars => IInv'
<1> SUFFICES ASSUME IInv, [Next]_vars PROVE IInv'
  OBVIOUS
<1>1. ASSUME NEW h \in Hash, Insert(h) PROVE IInv'
  BY <1>1, InsertPreserves
<1>2. ASSUME NEW h \in Hash, Forget(h) PROVE IInv'
  BY <1>2, ForgetPreserves
<1>3. CASE Tick
  BY <1>3, TickPreserves
<1>4. CASE UNCHANGED vars
  BY <1>4 DEF vars, IInv, OutcomeOK
<1> QED
  BY <1>1, <1>2, <1>3, <1>4 DEF Next

\* The invariant holds in every reachable state of the pool, for all kinds of
\* transactions, capacities, TTLs and queue bounds.
THEOREM Invariance == Spec => []IInv
BY InitEstablishes, StepPreserves, PTL DEF Spec

\* Type correctness: in particular pending_count and the counters of every
\* outcome are natural numbers, so no usize subtraction of the pool underflows.
THEOREM TypeCorrect == Spec => []TypeOK
<1>1. IInv => TypeOK
  BY DEF IInv, Keeps, Core, OutcomeOK, TypeOK
<1> QED
  BY <1>1, Invariance, PTL

\* pending_count is the number of parked bids, however they are parked,
\* flushed, expired, evicted and forgotten.
THEOREM CountCorrect == Spec => []CountMatches
<1>1. IInv => CountMatches
  BY DEF IInv, Keeps, Core, Counted, CountMatches
<1> QED
  BY <1>1, Invariance, PTL

\* A streamed mark never outlives its cache entry.
THEOREM MarksBounded == Spec => []StreamedAreCached
<1>1. IInv => StreamedAreCached
  BY DEF IInv, Keeps, Core, StreamedAreCached
<1> QED
  BY <1>1, Invariance, PTL

\* No bid waits for a vanilla transaction that is already cached.
THEOREM PairsNotMissed == Spec => []NoMissedPair
<1>1. IInv => NoMissedPair
  <2> SUFFICES ASSUME IInv, NEW t \in Vanilla, pool.cache[t] # Absent
               PROVE  Parked(pool, t) = {}
    BY DEF NoMissedPair, NoMissedPairAmong
  <2>1. t \in Hash
    BY DEF Hash
  <2>2. pool.pending[t] = <<>>
    BY <2>1 DEF IInv, Keeps, NoMissedBut, Cached
  <2> QED
    BY <2>2 DEF Parked, Copies
<1> QED
  BY <1>1, Invariance, PTL

\* The transaction an Insert shows to the pool is in the cache afterwards.
\* The argument needs prune before observe: prune leaves a live entry at the
\* front of the queue, and that entry is the one insert_cache evicts.
THEOREM NewcomerStays == Spec => NewcomerIsCached
<1>1. IInv /\ [Next]_vars => [\A h \in Hash : Insert(h) => pool'.cache[h] # Absent]_vars
  BY InsertPreserves
<1> QED
  BY <1>1, Invariance, PTL DEF Spec, NewcomerIsCached

\* A list of reinjections in which every bid comes behind its target, for a
\* pool that has marked the targets in marks.
LEMMA InsertFollows ==
    ASSUME IInv, NEW h \in Hash, Insert(h)
    PROVE  \A i \in DOMAIN last'.reinjections :
             LET r == last'.reinjections[i]
             IN  r.class = "bid" =>
                   \/ r.group \in pool.streamed
                   \/ \E j \in 1..(i - 1) : last'.reinjections[j] =
                         [hash |-> r.group, class |-> "opportunity", group |-> r.group]
<1>1. PICK seen \in {Pruned(pool), Aged(Pruned(pool))} :
        /\ pool' = Observed(seen, h).pool
        /\ last'.reinjections = Observed(seen, h).reinjections
  BY DEF Insert
<1>2. Core(seen) /\ Within(seen) /\ HeadLive(seen) /\ seen.streamed \subseteq pool.streamed
  BY SeenProperties, SeenMarks DEF IInv, Keeps
<1> DEFINE r == Observed(seen, h)
<1>3. Follows(r, seen.streamed)
  BY <1>2, ObservedFollows
<1> HIDE DEF r
<1>4. last'.reinjections = r.reinjections
  BY <1>1 DEF r
<1> QED
  BY <1>2, <1>3, <1>4 DEF Follows, Offer

\* No bid is answered with before its target: the target is earlier in the
\* same answer, or is marked as streamed before.
THEOREM BidsBehindTargets == Spec => BidsFollowTarget
<1> DEFINE Step ==
      \A i \in DOMAIN last'.reinjections :
        LET r == last'.reinjections[i]
        IN  r.class = "bid" =>
              \/ r.group \in pool.streamed
              \/ \E j \in 1..(i - 1) : last'.reinjections[j] =
                    [hash |-> r.group, class |-> "opportunity", group |-> r.group]
<1>1. ASSUME last' = NoOutcome PROVE Step
  BY <1>1 DEF NoOutcome
<1>2. IInv /\ [Next]_vars => [Step]_vars
  <2> SUFFICES ASSUME IInv, Next PROVE Step
    OBVIOUS
  <2>1. ASSUME NEW h \in Hash, Insert(h) PROVE Step
    BY <2>1, InsertFollows
  <2>2. ASSUME NEW h \in Hash, Forget(h) PROVE Step
    BY <1>1, <2>2 DEF Forget
  <2>3. CASE Tick
    BY <1>1, <2>3 DEF Tick
  <2> HIDE DEF Step
  <2> QED
    BY <2>1, <2>2, <2>3 DEF Next
<1> QED
  BY <1>2, Invariance, PTL DEF Spec, BidsFollowTarget

-----------------------------------------------------------------------------
(* The queue of parked bids.                                               *)

\* The queue names every parked bid in every reachable state, and the parked
\* bids stay within their capacity.
THEOREM BidsBacked == Spec => []Backed(pool)
<1>1. Init => Backed(pool)
  BY EmptyPoolBacked DEF Init
<1>2. IInv /\ Backed(pool) /\ [Next]_vars => Backed(pool)'
  <2> SUFFICES ASSUME IInv, Backed(pool), [Next]_vars PROVE Backed(pool')
    OBVIOUS
  <2>1. Core(pool) /\ Within(pool) /\ NoMissedBut({}, pool)
    BY DEF IInv, Keeps
  <2>2. ASSUME NEW h \in Hash, Insert(h) PROVE Backed(pool')
    <3>1. PICK seen \in {Pruned(pool), Aged(Pruned(pool))} : pool' = Observed(seen, h).pool
      BY <2>2 DEF Insert
    <3>2. Core(Pruned(pool)) /\ Backed(Pruned(pool))
      BY <2>1, PrunedProperties, PrunedKeepsBacked
    <3>3. Core(seen)
      BY <2>1, SeenProperties
    <3>4. Backed(seen)
      BY <3>2, AgedKeepsBacked
    <3> QED
      BY <3>1, <3>3, <3>4, ObservedKeepsBacked
  <2>3. ASSUME NEW h \in Hash, Forget(h) PROVE Backed(pool')
    BY <2>1, <2>3, ForgottenKeepsBacked DEF Forget
  <2>4. CASE Tick
    BY <2>1, <2>4, AgedKeepsBacked DEF Tick
  <2>5. CASE UNCHANGED vars
    BY <2>5 DEF vars
  <2> QED
    BY <2>2, <2>3, <2>4, <2>5 DEF Next
<1> QED
  BY <1>1, <1>2, Invariance, PTL DEF Spec

\* Cache and parked bids stay within their capacities: eviction on every
\* insertion is enough, because the queue it walks names what is there.
THEOREM CapacityKept == Spec => []CapacityHeld
<1>1. IInv /\ Backed(pool) => CapacityHeld
  BY DEF IInv, Keeps, Within, Backed, Roomy, CapacityHeld
<1> QED
  BY <1>1, Invariance, BidsBacked, PTL

\* Nothing is cached or parked outside the queues by which pruning and
\* eviction find it.
THEOREM QueuesCover == Spec => []QueuesCoverEntries
<1>1. IInv /\ Backed(pool) => QueuesCoverEntries
  <2> SUFFICES ASSUME IInv, Backed(pool) PROVE QueuesCoverEntries
    OBVIOUS
  <2>1. pool \in Pool /\ Queued(pool) /\ Covered(pool)
    BY DEF IInv, Keeps, Core, Backed
  <2> QED
    BY <2>1, CopyIsNamed DEF QueuesCoverEntries, Covered
<1> QED
  BY <1>1, Invariance, BidsBacked, PTL

\* The counters of an Insert, counted removal by removal, account for what
\* happens to the vectors: no parked copy appears or goes uncounted.
THEOREM BidsBalance == Spec => BidsAccounted
<1> DEFINE Step == \A h \in Hash : Insert(h) =>
             Cardinality(Slots(pool)) + last'.pended =
               Cardinality(Slots(pool')) + last'.evicted + last'.expired
                 + (IF h \in Vanilla THEN last'.matched ELSE 0)
<1>1. IInv /\ [Next]_vars => [Step]_vars
  <2> SUFFICES ASSUME IInv, NEW h \in Hash, Insert(h)
               PROVE  Cardinality(Slots(pool)) + last'.pended =
                        Cardinality(Slots(pool')) + last'.evicted + last'.expired
                          + (IF h \in Vanilla THEN last'.matched ELSE 0)
    OBVIOUS
  <2> DEFINE pruned == Pruned(pool)
  <2>1. PICK seen \in {pruned, Aged(pruned)} :
          LET r == Observed(seen, h)
          IN  /\ pool' = r.pool
              /\ last' = [reinjections |-> r.reinjections, matched |-> r.matched,
                           pended |-> r.pended, evicted |-> r.evicted,
                           expired |-> Expired(pool)]
    BY DEF Insert
  <2> DEFINE r == Observed(seen, h)
  <2>2. /\ Core(pool) /\ Within(pool) /\ NoMissedBut({}, pool)
        /\ pool.pendingCount \in Nat
    BY PoolFields DEF IInv, Keeps, Core
  <2>3. Core(pruned) /\ Core(seen) /\ Within(seen) /\ NoMissedBut({}, seen)
    BY <2>2, SeenProperties, PrunedProperties
  <2>4. pruned.pendingCount \in Nat /\ seen.pendingCount = pruned.pendingCount
    <3>1. Aged(pruned).pendingCount = pruned.pendingCount
      BY <2>3, AgedProperties
    <3> HIDE DEF pruned
    <3> QED
      BY <2>3, <3>1, PoolFields DEF Core
  <2>5. /\ seen.pendingCount + r.pended =
             r.pool.pendingCount + r.evicted + (IF h \in Vanilla THEN r.matched ELSE 0)
        /\ r.pool.pendingCount \in Nat /\ r.evicted \in Nat
        /\ r.matched \in Nat /\ r.pended \in Nat
    BY <2>3, ObservedBalances, ObservedSound, PoolFields DEF Sound, Core
  <2>6. Expired(pool) = pool.pendingCount - pruned.pendingCount
    BY <2>2, ExpiredExact
  <2> HIDE DEF r, pruned
  <2>7. /\ pool' = r.pool /\ last'.matched = r.matched /\ last'.pended = r.pended
        /\ last'.evicted = r.evicted /\ last'.expired = Expired(pool)
    BY <2>1 DEF r
  <2>8. pool.pendingCount = Cardinality(Slots(pool))
    BY <2>2 DEF Core, Counted
  <2>9. pool'.pendingCount = Cardinality(Slots(pool'))
    BY InsertPreserves DEF IInv, Keeps, Core, Counted
  <2> QED
    BY <2>2, <2>4, <2>5, <2>6, <2>7, <2>8, <2>9
<1> QED
  BY <1>1, Invariance, PTL DEF Spec, BidsAccounted

-----------------------------------------------------------------------------
(* The pool as a pairing.                                                  *)

\* The invariant behind the refinement.
MInv == IInv /\ Backed(pool) /\ Placed(pool)

\* The two specifications count alike.
LEMMA PairingCardinality == \A S : Pairing!Cardinality(S) = Cardinality(S)
BY Zenon DEF Pairing!Cardinality, Cardinality

\* The empty pool knows nothing and nothing waits.
LEMMA InitMaps == Init => Placed(pool) /\ Pairing!Start
<1> SUFFICES ASSUME Init PROVE Placed(pool) /\ Pairing!Start
  OBVIOUS
<1>1. pool = EmptyPool /\ last.reinjections = <<>>
  BY DEF Init, NoOutcome
<1>2. \A t \in Hash : DOMAIN pool.pending[t] = {}
  BY <1>1 DEF EmptyPool
<1>3. Waiting(pool) = {}
  BY <1>2 DEF Waiting, Parked, Copies
<1>4. Cached(pool) = {} /\ pool.streamed = {}
  BY <1>1 DEF EmptyPool, Cached
<1>5. ToSet(<<>>) = {}
  BY DEF ToSet
<1> QED
  BY <1>1, <1>2, <1>3, <1>4, <1>5 DEF Placed, Pairing!Start

\* An Insert is a receipt: K is what prune and eviction leave of the cache,
\* and observe adds the newcomer.
LEMMA InsertMaps ==
    ASSUME MInv, NEW h \in Hash, Insert(h)
    PROVE  Placed(pool') /\ Pairing!Step
<1> DEFINE pruned == Pruned(pool)
<1>1. PICK seen \in {pruned, Aged(pruned)} :
        /\ pool' = Observed(seen, h).pool
        /\ last'.reinjections = Observed(seen, h).reinjections
  BY DEF Insert
<1> DEFINE q == InsertCache(seen, h)
           r == Observed(seen, h)
           K == Cached(seen) \cap Cached(q)
<1>2. /\ Core(pool) /\ Within(pool) /\ NoMissedBut({}, pool)
      /\ Backed(pool) /\ Placed(pool)
  BY DEF MInv, IInv, Keeps
<1>3. Core(seen) /\ Within(seen) /\ HeadLive(seen)
  BY <1>2, SeenProperties
<1>4. /\ Placed(seen) /\ Backed(seen) /\ BidHead(seen)
      /\ Waiting(seen) \subseteq Waiting(pool)
      /\ Cached(seen) \subseteq Cached(pool)
      /\ seen.streamed = pool.streamed \cap Cached(seen)
  BY <1>2, SeenMaps
<1> HIDE DEF pruned
<1>5. /\ Core(q) /\ SameBids(q, seen) /\ Within(q)
      /\ Cached(q) \subseteq Cached(seen) \cup {h} /\ h \in Cached(q)
  BY <1>3, InsertCacheProperties
<1>6. q.streamed = seen.streamed \cap Cached(q)
  BY <1>3, InsertCacheMarksKept
<1>7. Placed(q) /\ Backed(q) /\ BidHead(q) /\ Waiting(q) = Waiting(seen)
  BY <1>4, <1>5, SameBidsSameWaiting, BackedWhenSame
<1>8. /\ h \in Tob => r = ObserveTob(q, h)
      /\ h \in Backrun => r = ObserveBackrun(q, h)
      /\ h \in Invalid => r = Result(q, <<>>, 0, 0, 0)
      /\ h \in Vanilla => r = ObserveVanilla(q, h)
  BY KindAssumption DEF Observed
<1> HIDE DEF q, r
<1>9. /\ K \in SUBSET Cached(pool) /\ Cached(q) = K \cup {h}
      /\ pool.streamed \cap K = q.streamed
      /\ Waiting(q) \in SUBSET Waiting(pool)
      /\ Cardinality(Cached(q)) <= CacheCap
  BY <1>4, <1>5, <1>6, <1>7 DEF Within
<1> HIDE DEF K
<1>10. pool' = r.pool /\ last'.reinjections = r.reinjections
  BY <1>1 DEF r
<1>11. CASE h \in Vanilla
  <2> DEFINE B == Parked(q, h)
             W == Waiting(q)
  <2>1. /\ Placed(r.pool) /\ Cached(r.pool) = Cached(q)
        /\ Waiting(r.pool) = W \ B
        /\ B = {} => ToSet(r.reinjections) = {} /\ r.pool.streamed = q.streamed
        /\ B # {} => /\ ToSet(r.reinjections) =
                          {BidReinjection(b, h) : b \in B} \cup OfferSet(q, h)
                     /\ r.pool.streamed = q.streamed \cup {h}
    BY <1>5, <1>7, <1>8, <1>11, VanillaMaps
  <2>2. Pairing!BidsFor(h, W) = B /\ \A b \in B : Target[b] = h
    BY <1>5, <1>7, WaitingElements DEF Core, Pairing!BidsFor
  <2>3. {Pairing!SendBid(b) : b \in B} = {BidReinjection(b, h) : b \in B}
    BY <2>2 DEF Pairing!SendBid, Pairing!Send, BidReinjection
  <2>4. OfferSet(q, h) =
          IF h \in pool.streamed \cap K THEN {} ELSE {Pairing!Send("opportunity", h, h)}
    BY <1>9 DEF OfferSet, Offer, Pairing!Send
  <2> HIDE DEF B, W
  <2>5. Pairing!Learn(h, K)
    BY <1>9, <1>10, <2>1, PairingCardinality DEF Pairing!Learn
  <2>6. Waiting(pool') = W \ B
    BY <1>10, <2>1
  <2>7. CASE B = {}
    <3>1. Pairing!SendAlone({}, K)
      BY <1>9, <1>10, <2>1, <2>7 DEF Pairing!SendAlone
    <3> QED
      BY <1>9, <1>10, <1>11, <2>1, <2>2, <2>5, <2>6, <2>7, <3>1
      DEF Pairing!Step, Pairing!ReceiveVanilla, Waiting, W
  <2>8. CASE B # {}
    <3>1. Pairing!SendBehind(h, B, K)
      BY <1>9, <1>10, <2>1, <2>3, <2>4, <2>8 DEF Pairing!SendBehind
    <3> QED
      BY <1>9, <1>10, <1>11, <2>1, <2>2, <2>5, <2>6, <2>8, <3>1
      DEF Pairing!Step, Pairing!ReceiveVanilla, Waiting, W
  <2> QED
    BY <2>7, <2>8
<1>12. CASE h \in Backrun
  <2> DEFINE t == Target[h]
             W == Waiting(q)
  <2>1. /\ Placed(r.pool) /\ Cached(r.pool) = Cached(q)
        /\ t \in Cached(q) =>
             /\ ToSet(r.reinjections) = {BidReinjection(h, t)} \cup OfferSet(q, t)
             /\ r.pool.streamed = q.streamed \cup {t}
             /\ Waiting(r.pool) = W
        /\ t \notin Cached(q) =>
             /\ ToSet(r.reinjections) = {} /\ r.pool.streamed = q.streamed
             /\ Waiting(r.pool) \subseteq W \cup {h}
             /\ h \in Waiting(r.pool)
             /\ Cardinality(Waiting(r.pool)) <= PendingCap
    BY <1>5, <1>7, <1>8, <1>12, BackrunMaps
  <2>2. Pairing!Learn(h, K)
    BY <1>9, <1>10, <2>1, PairingCardinality DEF Pairing!Learn
  <2>3. CASE t \in Cached(q)
    <3>1. {Pairing!SendBid(b) : b \in {h}} = {BidReinjection(h, t)}
      BY DEF Pairing!SendBid, Pairing!Send, BidReinjection
    <3>2. OfferSet(q, t) =
            IF t \in pool.streamed \cap K THEN {} ELSE {Pairing!Send("opportunity", t, t)}
      BY <1>9 DEF OfferSet, Offer, Pairing!Send
    <3>3. Pairing!SendBehind(t, {h}, K)
      <4> HIDE DEF t
      <4> QED
        BY <1>9, <1>10, <2>1, <2>3, <3>1, <3>2 DEF Pairing!SendBehind
    <3>4. t \in Cached(pool') /\ Waiting(pool') \in SUBSET Waiting(pool)
      BY <1>9, <1>10, <2>1, <2>3
    <3> QED
      BY <1>9, <1>10, <1>12, <2>1, <2>2, <3>3, <3>4
      DEF Pairing!Step, Pairing!ReceivePairedBid, Waiting
  <2>4. CASE t \notin Cached(q)
    <3> DEFINE V == Waiting(r.pool) \cap W
    <3>1. V \in SUBSET Waiting(pool) /\ Waiting(pool') = V \cup {h}
      BY <1>9, <1>10, <2>1, <2>4
    <3>2. Cardinality(Waiting(pool')) <= PendingCap /\ t \notin Cached(pool')
      BY <1>10, <2>1, <2>4
    <3>3. Pairing!SendAlone({}, K)
      BY <1>9, <1>10, <2>1, <2>4 DEF Pairing!SendAlone
    <3> HIDE DEF V
    <3> QED
      BY <1>9, <1>10, <1>12, <2>1, <2>2, <3>1, <3>2, <3>3, PairingCardinality
      DEF Pairing!Step, Pairing!ReceiveEarlyBid, Waiting
  <2> QED
    BY <2>3, <2>4
<1>13. CASE h \in Tob \cup Invalid
  <2> DEFINE S == {Pairing!LeadBlock(t) : t \in {h} \cap Tob}
  <2>1. r.pool = q /\ ToSet(r.reinjections) = S
    <3>1. CASE h \in Tob
      <4> DEFINE e == [hash |-> h, class |-> IF h \in ZeroScore THEN "fallback" ELSE "tob",
                       group |-> h]
      <4>1. r.pool = q /\ r.reinjections = <<e>>
        BY <1>8, <3>1 DEF ObserveTob, Result
      <4>2. S = {e}
        BY <3>1 DEF Pairing!LeadBlock, Pairing!Send
      <4> HIDE DEF e, S
      <4>3. ToSet(<<e>>) = {e}
        BY DEF ToSet
      <4> QED
        BY <4>1, <4>2, <4>3
    <3>2. CASE h \in Invalid
      <4>1. r.pool = q /\ r.reinjections = <<>>
        BY <1>8, <3>2 DEF Result
      <4>2. S = {} /\ ToSet(<<>>) = {}
        BY <3>2, KindAssumption DEF ToSet
      <4> QED
        BY <4>1, <4>2
    <3> QED
      BY <1>13, <3>1, <3>2
  <2> HIDE DEF S
  <2>2. Pairing!Learn(h, K) /\ Pairing!SendAlone(S, K)
    BY <1>9, <1>10, <2>1, PairingCardinality DEF Pairing!Learn, Pairing!SendAlone
  <2>3. Waiting(pool') \in SUBSET Waiting(pool)
    BY <1>9, <1>10, <2>1
  <2> QED
    BY <1>7, <1>9, <1>10, <1>13, <2>1, <2>2, <2>3
    DEF Pairing!Step, Pairing!ReceiveUnpaired, Waiting, S
<1> QED
  BY <1>11, <1>12, <1>13 DEF Hash

\* A departure is a Leave.
LEMMA ForgetMaps ==
    ASSUME MInv, NEW h \in Hash, Forget(h)
    PROVE  Placed(pool') /\ Pairing!Step
<1>1. Core(pool) /\ Placed(pool)
  BY DEF MInv, IInv, Keeps
<1>2. pool' = Forgotten(pool, h) /\ last'.reinjections = <<>>
  BY DEF Forget, NoOutcome
<1> DEFINE W == Waiting(pool) \ Parked(pool, h)
<1>3. /\ Placed(pool') /\ Cached(pool') = Cached(pool) \ {h}
      /\ pool'.streamed = pool.streamed \ {h}
      /\ Waiting(pool') \in {W, W \ {h}}
  BY <1>1, <1>2, ForgottenMaps
<1>4. Pairing!BidsFor(h, Waiting(pool)) = Parked(pool, h)
  BY <1>1, WaitingElements DEF Core, Pairing!BidsFor
<1>5. ToSet(<<>>) = {}
  BY DEF ToSet
<1>6. h \in Pairing!Tx
  BY DEF Pairing!Tx, Hash
<1>7. W \ {h} = Waiting(pool) \ (Parked(pool, h) \cup {h})
  OBVIOUS
<1>8. Pairing!Leave(h)
  BY <1>2, <1>3, <1>4, <1>5, <1>7 DEF Pairing!Leave, Waiting
<1> QED
  BY <1>3, <1>6, <1>8 DEF Pairing!Step

\* A tick is invisible but for the end of the last answer.
LEMMA TickMaps == ASSUME MInv, Tick PROVE Placed(pool') /\ Pairing!Step
<1>1. Core(pool) /\ Placed(pool)
  BY DEF MInv, IInv, Keeps
<1>2. pool' = Aged(pool) /\ last'.reinjections = <<>>
  BY DEF Tick, NoOutcome
<1>3. Cached(pool') = Cached(pool) /\ pool'.streamed = pool.streamed
  BY <1>1, <1>2, AgedProperties
<1>4. Placed(pool') /\ Waiting(pool') = Waiting(pool)
  BY <1>1, <1>2, AgedSameWaiting
<1>5. ToSet(<<>>) = {}
  BY DEF ToSet
<1>6. Pairing!Rest
  BY <1>2, <1>3, <1>4, <1>5 DEF Pairing!Rest, Waiting
<1> QED
  BY <1>4, <1>6 DEF Pairing!Step

\* The invariant of the refinement holds in every reachable state.
LEMMA AlwaysMInv == Spec => []MInv
<1>1. Init => Placed(pool)
  BY InitMaps
<1>2. MInv /\ [Next]_vars => Placed(pool)'
  <2> SUFFICES ASSUME MInv, [Next]_vars PROVE Placed(pool')
    OBVIOUS
  <2>1. ASSUME NEW h \in Hash, Insert(h) PROVE Placed(pool')
    BY <2>1, InsertMaps
  <2>2. ASSUME NEW h \in Hash, Forget(h) PROVE Placed(pool')
    BY <2>2, ForgetMaps
  <2>3. CASE Tick
    BY <2>3, TickMaps
  <2>4. CASE UNCHANGED vars
    BY <2>4 DEF vars, MInv
  <2> QED
    BY <2>1, <2>2, <2>3, <2>4 DEF Next
<1>3. IInv /\ Backed(pool) /\ Placed(pool) => MInv
  BY DEF MInv
<1>4. MInv => Placed(pool)
  BY DEF MInv
<1> QED
  BY <1>1, <1>2, <1>3, Invariance, BidsBacked, PTL DEF Spec

\* The pool implements the pairing it promises: every behaviour of the maps,
\* queues, ages and counters is one of the known, offered and waiting sets of
\* BackrunPairing.
THEOREM Implementation == Spec => ImplementsPairing
<1>1. Init => Pairing!Start
  BY InitMaps
<1>2. MInv /\ [Next]_vars => [Pairing!Step]_(Pairing!pairing)
  <2> SUFFICES ASSUME MInv, [Next]_vars
               PROVE  [Pairing!Step]_(Pairing!pairing)
    OBVIOUS
  <2>1. ASSUME NEW h \in Hash, Insert(h) PROVE Pairing!Step
    BY <2>1, InsertMaps
  <2>2. ASSUME NEW h \in Hash, Forget(h) PROVE Pairing!Step
    BY <2>2, ForgetMaps
  <2>3. CASE Tick
    BY <2>3, TickMaps
  <2>4. CASE UNCHANGED vars
    BY <2>4 DEF vars, Pairing!pairing
  <2> QED
    BY <2>1, <2>2, <2>3, <2>4 DEF Next
<1> QED
  BY <1>1, <1>2, AlwaysMInv, PTL DEF Spec, ImplementsPairing, Pairing!Spec

-----------------------------------------------------------------------------
(* What the answers say, on top of the same invariant.                     *)

\* An Insert loses no bid silently.
LEMMA InsertLosesForAReason ==
    ASSUME MInv, NEW h \in Hash, Insert(h),
           NEW t \in Hash, NEW b \in Parked(pool, t), b \notin Parked(pool', t)
    PROVE  \/ BidReinjection(b, t) \in ToSet(last'.reinjections)
           \/ last'.expired > 0 /\ \E c \in Copies(pool, t, b) : pool.pending[t][c].age = TTL
           \/ last'.evicted > 0 /\ pool.pendingCount = PendingCap
<1> DEFINE pruned == Pruned(pool)
<1>1. PICK seen \in {pruned, Aged(pruned)} :
        LET r == Observed(seen, h)
        IN  /\ pool' = r.pool
            /\ last' = [reinjections |-> r.reinjections, matched |-> r.matched,
                         pended |-> r.pended, evicted |-> r.evicted,
                         expired |-> Expired(pool)]
  BY DEF Insert
<1> DEFINE r == Observed(seen, h)
<1>2. /\ pool' = r.pool /\ last'.reinjections = r.reinjections /\ last'.evicted = r.evicted
      /\ last'.expired = pool.pendingCount - pruned.pendingCount
  BY <1>1, ExpiredExact DEF MInv, IInv, Keeps
<1>3. /\ Core(pool) /\ Within(pool) /\ NoMissedBut({}, pool)
      /\ Backed(pool) /\ Placed(pool)
  BY DEF MInv, IInv, Keeps
<1>4. Core(seen) /\ Within(seen) /\ NoMissedBut({}, seen) /\ HeadLive(seen)
  BY <1>3, SeenProperties
<1>5. Placed(seen) /\ Backed(seen)
  BY <1>3, SeenMaps
<1>6. Core(pruned) /\ pruned.pendingCount <= pool.pendingCount
  BY <1>3, PrunedProperties
<1>7. Parked(seen, t) = Parked(pruned, t) /\ seen.pendingCount = pruned.pendingCount
  <2> HIDE DEF pruned
  <2> QED
    BY <1>6, AgedSameWaiting, AgedProperties
<1>8. /\ pool.pendingCount \in Nat /\ pruned.pendingCount \in Nat
      /\ pool.pendingCount <= PendingCap /\ PendingCap \in Nat
  <2> HIDE DEF pruned
  <2> QED
    BY <1>3, <1>6, PoolFields, PendingCapType DEF Core, Backed, Roomy
<1>9. CASE b \notin Parked(pruned, t)
  <2>1. /\ \E c \in Copies(pool, t, b) : pool.pending[t][c].age = TTL
        /\ pruned.pendingCount < pool.pendingCount
    BY <1>3, <1>9, PrunedLosesOld
  <2> HIDE DEF pruned, r
  <2> QED
    BY <1>2, <1>8, <2>1
<1>10. CASE b \in Parked(pruned, t)
  <2>1. b \in Parked(seen, t)
    BY <1>7, <1>10
  <2> HIDE DEF pruned
  <2>2. \/ BidReinjection(b, t) \in ToSet(r.reinjections)
        \/ seen.pendingCount = PendingCap /\ r.evicted > 0
    BY <1>2, <1>4, <1>5, <2>1, ObservedLosesForAReason
  <2> HIDE DEF r
  <2> QED
    BY <1>2, <1>6, <1>7, <1>8, <2>2
<1> QED
  BY <1>9, <1>10

\* A departure takes the bid that left, and the bids of the target that left.
LEMMA ForgetLosesForAReason ==
    ASSUME MInv, NEW h \in Hash, Forget(h),
           NEW t \in Hash, NEW b \in Parked(pool, t), b \notin Parked(pool', t)
    PROVE  h \in {b, t}
<1>1. Core(pool) /\ Placed(pool) /\ pool' = Forgotten(pool, h)
  BY DEF MInv, IInv, Keeps, Forget
<1> DEFINE W == Waiting(pool) \ Parked(pool, h)
<1>2. Placed(pool') /\ Waiting(pool') \in {W, W \ {h}} /\ Core(pool')
  BY <1>1, ForgottenMaps, ForgottenProperties
<1>3. /\ b \in Waiting(pool) /\ Target[b] = t /\ b \notin Waiting(pool')
      /\ b \in Parked(pool, h) => Target[b] = h
  BY <1>1, <1>2, WaitingElements DEF Core
<1> QED
  BY <1>2, <1>3

\* No step of the pool loses a bid silently: a bid that stops being parked was
\* sent, outlived the TTL, was evicted at capacity, or left the node's pool
\* with its target or by itself; and the counters of the Insert tell.
THEOREM BidsLeaveWithReason == Spec => BidsLeaveForAReason
<1> DEFINE Step ==
      \A t \in Hash : \A b \in Parked(pool, t) \ Parked(pool', t) :
         \/ BidReinjection(b, t) \in ToSet(last'.reinjections)
         \/ last'.expired > 0 /\ \E c \in Copies(pool, t, b) : pool.pending[t][c].age = TTL
         \/ last'.evicted > 0 /\ pool.pendingCount = PendingCap
         \/ Forget(b) \/ Forget(t)
<1>1. MInv /\ [Next]_vars => [Step]_vars
  <2> SUFFICES ASSUME MInv, Next PROVE Step
    OBVIOUS
  <2>1. ASSUME NEW h \in Hash, Insert(h) PROVE Step
    BY <2>1, InsertLosesForAReason
  <2>2. ASSUME NEW h \in Hash, Forget(h) PROVE Step
    <3> SUFFICES ASSUME NEW t \in Hash, NEW b \in Parked(pool, t) \ Parked(pool', t)
                 PROVE  Forget(b) \/ Forget(t)
      OBVIOUS
    <3>1. h \in {b, t}
      BY <2>2, ForgetLosesForAReason
    <3> QED
      BY <2>2, <3>1
  <2>3. CASE Tick
    <3>1. \A t \in Hash : Parked(pool', t) = Parked(pool, t)
      BY <2>3, AgedSameWaiting DEF Tick, MInv, IInv, Keeps
    <3> QED
      BY <3>1
  <2> HIDE DEF Step
  <2> QED
    BY <2>1, <2>2, <2>3 DEF Next
<1> QED
  BY <1>1, AlwaysMInv, PTL DEF Spec, BidsLeaveForAReason

\* An Insert offers at most one target, once, that the pool had not offered.
LEMMA InsertOffersOnce ==
    ASSUME MInv, NEW h \in Hash, Insert(h)
    PROVE  \A i \in DOMAIN last'.reinjections :
             LET r == last'.reinjections[i]
             IN  r.class = "opportunity" =>
                   /\ i = 1
                   /\ r.hash \notin pool.streamed
                   /\ r.hash \in pool'.streamed
<1>1. PICK seen \in {Pruned(pool), Aged(Pruned(pool))} :
        /\ pool' = Observed(seen, h).pool
        /\ last'.reinjections = Observed(seen, h).reinjections
  BY DEF Insert
<1> DEFINE q == InsertCache(seen, h)
           r == Observed(seen, h)
<1>2. /\ Core(pool) /\ Within(pool) /\ NoMissedBut({}, pool)
      /\ Backed(pool) /\ Placed(pool)
  BY DEF MInv, IInv, Keeps
<1>3. Core(seen) /\ Within(seen) /\ HeadLive(seen)
  BY <1>2, SeenProperties
<1>4. /\ Placed(seen) /\ seen.streamed = pool.streamed \cap Cached(seen)
      /\ NoNewBids(seen, pool)
  <2>1. Core(Pruned(pool)) /\ NoNewBids(Pruned(pool), pool)
    BY <1>2, PrunedProperties
  <2>2. NoNewBids(seen, pool)
    BY <2>1, AgedProperties DEF NoNewBids
  <2> QED
    BY <1>2, <2>2, SeenMaps
<1>5. /\ Core(q) /\ SameBids(q, seen) /\ h \in Cached(q)
      /\ Cached(q) \subseteq Cached(seen) \cup {h}
      /\ q.streamed = seen.streamed \cap Cached(q)
  BY <1>3, InsertCacheProperties, InsertCacheMarksKept
<1>6. Placed(q) /\ q.pending = seen.pending
  BY <1>4, <1>5, SameBidsSameWaiting DEF SameBids
<1>7. /\ h \in Tob => r = ObserveTob(q, h)
      /\ h \in Backrun => r = ObserveBackrun(q, h)
      /\ h \in Invalid => r = Result(q, <<>>, 0, 0, 0)
      /\ h \in Vanilla => r = ObserveVanilla(q, h)
  BY KindAssumption DEF Observed
<1>8. pool' = r.pool /\ last'.reinjections = r.reinjections
  BY <1>1
<1> HIDE DEF q, r
<1> SUFFICES ASSUME NEW i \in DOMAIN r.reinjections, r.reinjections[i].class = "opportunity"
             PROVE  /\ i = 1
                    /\ r.reinjections[i].hash \notin pool.streamed
                    /\ r.reinjections[i].hash \in r.pool.streamed
  BY <1>8
<1>9. CASE h \in Tob
  <2> DEFINE e == [hash |-> h, class |-> IF h \in ZeroScore THEN "fallback" ELSE "tob",
                   group |-> h]
  <2>1. r.reinjections = <<e>> /\ e.class # "opportunity"
    BY <1>7, <1>9 DEF ObserveTob, Result
  <2> HIDE DEF e
  <2>2. r.reinjections[i] = e
    BY <2>1
  <2> QED
    BY <2>1, <2>2
<1>10. CASE h \in Invalid
  BY <1>7, <1>10 DEF Result
<1>11. CASE h \in Vanilla
  <2>1. q.pending[h] # <<>>
    <3> SUFFICES ASSUME q.pending[h] = <<>> PROVE FALSE
      OBVIOUS
    <3> QED
      BY <1>7, <1>11 DEF ObserveVanilla, Result
  <2>2. Offers(r, h, q.streamed)
    BY <1>5, <1>6, <1>7, <1>11, <2>1, ObserveVanillaOffers
  <2>3. h \notin Cached(pool)
    BY <1>2, <1>4, <1>6, <1>11, <2>1 DEF NoMissedBut, NoNewBids
  <2>4. h \notin pool.streamed
    BY <1>2, <2>3 DEF Core
  <2> QED
    BY <2>2, <2>4 DEF Offers
<1>12. CASE h \in Backrun
  <2> DEFINE t == Target[h]
  <2>1. t \in Cached(q)
    <3> SUFFICES ASSUME t \notin Cached(q) PROVE FALSE
      OBVIOUS
    <3>1. q.cache[t] = Absent
      BY <1>12, TargetAssumption DEF Cached
    <3> QED
      BY <1>7, <1>12, <3>1 DEF ObserveBackrun, Result
  <2>2. Offers(r, t, q.streamed)
    BY <1>5, <1>7, <1>12, <2>1, ObserveBackrunOffers
  <2>3. t \in Cached(seen)
    BY <1>5, <1>12, <2>1, NoSelfTarget
  <2> HIDE DEF t
  <2>4. t \in pool.streamed => t \in q.streamed
    BY <1>4, <1>5, <2>1, <2>3
  <2> QED
    BY <2>2, <2>4 DEF Offers
<1> QED
  BY <1>9, <1>10, <1>11, <1>12 DEF Hash

\* An Insert leaves the mark of every target that stays cached, unless the
\* target is the newcomer and its entry had outlived the TTL.
LEMMA InsertKeepsMarks ==
    ASSUME MInv, NEW h \in Hash, Insert(h),
           NEW t \in Hash, t \in pool.streamed, t \in Cached(pool')
    PROVE  t \in pool'.streamed \/ (t = h /\ pool.cache[t] = TTL)
<1>1. PICK seen \in {Pruned(pool), Aged(Pruned(pool))} : pool' = Observed(seen, h).pool
  BY DEF Insert
<1> DEFINE q == InsertCache(seen, h)
           r == Observed(seen, h)
<1>2. /\ Core(pool) /\ Within(pool) /\ NoMissedBut({}, pool)
      /\ Backed(pool) /\ Placed(pool)
  BY DEF MInv, IInv, Keeps
<1>3. Core(seen) /\ Within(seen) /\ HeadLive(seen)
  BY <1>2, SeenProperties
<1>4. /\ Placed(seen) /\ Backed(seen) /\ BidHead(seen)
      /\ seen.streamed = pool.streamed \cap Cached(seen)
  BY <1>2, SeenMaps
<1>5. /\ Core(q) /\ SameBids(q, seen) /\ h \in Cached(q)
      /\ Cached(q) \subseteq Cached(seen) \cup {h}
      /\ q.streamed = seen.streamed \cap Cached(q)
  BY <1>3, InsertCacheProperties, InsertCacheMarksKept
<1>6. Placed(q) /\ Backed(q) /\ BidHead(q)
  BY <1>4, <1>5, SameBidsSameWaiting, BackedWhenSame
<1>7. Cached(r.pool) = Cached(q) /\ q.streamed \subseteq r.pool.streamed
  <2>1. CASE h \in Vanilla
    <3>1. r = ObserveVanilla(q, h)
      BY <2>1, KindAssumption DEF Observed
    <3> HIDE DEF q, r
    <3>2. Cached(r.pool) = Cached(q) /\ r.pool.streamed \in {q.streamed, q.streamed \cup {h}}
      BY <1>5, <1>6, <2>1, <3>1, VanillaMaps
    <3> QED
      BY <3>2
  <2>2. CASE h \in Backrun
    <3>1. r = ObserveBackrun(q, h)
      BY <2>2, KindAssumption DEF Observed
    <3> HIDE DEF q, r
    <3>2. /\ Cached(r.pool) = Cached(q)
          /\ r.pool.streamed \in {q.streamed, q.streamed \cup {Target[h]}}
      BY <1>5, <1>6, <2>2, <3>1, BackrunMaps
    <3> QED
      BY <3>2
  <2>3. CASE h \in Tob
    <3>1. r = ObserveTob(q, h)
      BY <2>3, KindAssumption DEF Observed
    <3> QED
      BY <3>1 DEF ObserveTob, Result
  <2>4. CASE h \in Invalid
    <3>1. r = Result(q, <<>>, 0, 0, 0)
      BY <2>4, KindAssumption DEF Observed
    <3> QED
      BY <3>1 DEF Result
  <2> QED
    BY <2>1, <2>2, <2>3, <2>4 DEF Hash
<1>8. pool' = r.pool
  BY <1>1
<1> HIDE DEF q, r
<1>9. t \in Cached(q)
  BY <1>7, <1>8
<1>10. CASE t \in Cached(seen)
  BY <1>4, <1>5, <1>7, <1>8, <1>9, <1>10
<1>11. CASE t \notin Cached(seen)
  <2>1. t = h
    BY <1>5, <1>9, <1>11
  <2>2. pool.cache[t] \notin 0..(TTL - 1)
    <3> SUFFICES ASSUME pool.cache[t] \in 0..(TTL - 1) PROVE FALSE
      OBVIOUS
    <3>1. t \in Cached(PrunedCache(pool))
      BY <1>2, FreshStays
    <3>2. Cached(Pruned(pool)) = Cached(PrunedCache(pool))
      <4>1. Core(PrunedCache(pool)) /\ PrunedCache(pool) \in Pool
        BY <1>2, PrunedCacheProperties DEF Core
      <4>2. Pruned(pool).cache = PrunedCache(pool).cache
        <5> DEFINE p == PrunedCache(pool)
        <5>1. Pruned(pool) = PrunedPending(p)
          BY DEF Pruned
        <5> HIDE DEF p
        <5> QED
          BY <5>1, <4>1 DEF PrunedPending, PopPending, Pool, p
      <4> QED
        BY <4>2 DEF Cached
    <3>3. Cached(seen) = Cached(Pruned(pool))
      BY <1>2, PrunedProperties, AgedProperties
    <3> QED
      BY <1>11, <3>1, <3>2, <3>3
  <2>3. pool.cache[t] \in 0..TTL
    BY <1>2, PoolFields DEF Core, Cached, Age
  <2> QED
    BY <2>1, <2>2, <2>3, BoundAssumption
<1> QED
  BY <1>10, <1>11

\* A target is offered at most once while it stays cached: it is offered only
\* unmarked, it is marked by that, and no step takes the mark from an entry that
\* stays, so that no path of the pool can offer it a second time.
THEOREM OfferedOnce == Spec => OpportunityOnce
<1> DEFINE Once ==
      \A i \in DOMAIN last'.reinjections :
        LET r == last'.reinjections[i]
        IN  r.class = "opportunity" =>
              /\ r.hash \notin pool.streamed
              /\ r.hash \in pool'.streamed
              /\ \A j \in DOMAIN last'.reinjections :
                    last'.reinjections[j] = r => j = i
           Marked ==
      \A h \in pool.streamed \cap Cached(pool') : h \in pool'.streamed \/ Renewed(h)
<1>1. ASSUME last' = NoOutcome PROVE Once
  BY <1>1 DEF NoOutcome
<1>2. MInv /\ [Next]_vars => [Once /\ Marked]_vars
  <2> SUFFICES ASSUME MInv, Next PROVE Once /\ Marked
    OBVIOUS
  <2>0. Core(pool) /\ pool.streamed \subseteq Hash
    BY PoolFields DEF MInv, IInv, Keeps, Core
  <2>1. ASSUME NEW h \in Hash, Insert(h) PROVE Once /\ Marked
    <3>1. Once
      BY <2>1, InsertOffersOnce
    <3> HIDE DEF Once
    <3>2. Marked
      <4> SUFFICES ASSUME NEW t \in pool.streamed \cap Cached(pool')
                   PROVE  t \in pool'.streamed \/ Renewed(t)
        OBVIOUS
      <4>1. t \in pool'.streamed \/ (t = h /\ pool.cache[t] = TTL)
        BY <2>0, <2>1, InsertKeepsMarks
      <4> QED
        BY <2>1, <4>1 DEF Renewed
    <3> QED
      BY <3>1, <3>2
  <2>2. ASSUME NEW h \in Hash, Forget(h) PROVE Once /\ Marked
    <3>1. Once
      BY <1>1, <2>2 DEF Forget
    <3>2. Cached(pool') = Cached(pool) \ {h} /\ pool'.streamed = pool.streamed \ {h}
      BY <2>2, ForgottenMaps DEF Forget, MInv, IInv, Keeps
    <3> HIDE DEF Once
    <3> QED
      BY <3>1, <3>2
  <2>3. CASE Tick
    <3>1. Once
      BY <1>1, <2>3 DEF Tick
    <3>2. pool'.streamed = pool.streamed
      BY <2>0, <2>3, AgedProperties DEF Tick
    <3> HIDE DEF Once
    <3> QED
      BY <3>1, <3>2
  <2> HIDE DEF Once, Marked
  <2> QED
    BY <2>1, <2>2, <2>3 DEF Next
<1> QED
  BY <1>2, AlwaysMInv, PTL DEF Spec, OpportunityOnce

\* The outcome of showing the pool a bid and its target, in either order.
Paired(p, b, t) ==
    [sent |-> {BidReinjection(x, t) : x \in Parked(p, t) \cup {b}} \cup {Offer(t)},
     parked |-> [u \in Hash |-> IF u = t THEN {} ELSE Parked(p, u)]]

\* The bid first: it is parked, and released with the others by its target.
LEMMA BidThenTarget ==
    ASSUME NEW p, Keeps(p), Placed(p), NEW b \in Backrun, Target[b] \in Vanilla,
           HasRoomFor(p, b, Target[b])
    PROVE  Reinjected(p, b, Target[b]) = Paired(p, b, Target[b])
<1> DEFINE t == Target[b]
           q == InsertCache(p, b)
           r1 == Observed(p, b)
           q2 == InsertCache(r1.pool, t)
           r2 == Observed(r1.pool, t)
<1>1. t \in Hash /\ b \in Hash /\ b # t /\ t \in Vanilla
  BY KindAssumption DEF Hash
<1>2. /\ b \notin Cached(p) /\ t \notin Cached(p) /\ Lodged(p, t)
      /\ p.pendingCount + 1 <= PendingCap
  BY DEF HasRoomFor, Lodged
<1> HIDE DEF t
<1>3. /\ Core(q) /\ Within(q) /\ Placed(q)
      /\ \A u \in Hash : Parked(q, u) = Parked(p, u)
      /\ q.streamed \subseteq p.streamed /\ q.pendingCount = p.pendingCount
      /\ t \notin Cached(q)
  <2>1. /\ Core(q) /\ Within(q) /\ Placed(q)
        /\ \A u \in Hash : Parked(q, u) = Parked(p, u)
        /\ q.streamed \subseteq p.streamed /\ q.pendingCount = p.pendingCount
        /\ Cached(q) \subseteq Cached(p) \cup {b}
    BY <1>1, CachedForObserve
  <2> HIDE DEF q
  <2> QED
    BY <1>1, <1>2, <2>1
<1>4. r1 = ObserveBackrun(q, b)
  BY KindAssumption DEF Observed
<1>5. Sound(r1)
  BY <1>1, ObservedSound DEF Keeps
<1> HIDE DEF q, r1
<1>6. r1.pool = PushPending(q, b) /\ r1.reinjections = <<>>
  BY <1>1, <1>3, <1>4 DEF ObserveBackrun, Result, Cached, t
<1>7. /\ Core(r1.pool) /\ SameTargets(r1.pool, q) /\ r1.pool.streamed = q.streamed
      /\ Placed(r1.pool)
      /\ \A u \in Hash : Parked(r1.pool, u) = Parked(q, u) \cup (IF u = t THEN {b} ELSE {})
  BY <1>2, <1>3, <1>6, PushingWithRoom DEF t
<1>8. t \in Cached(q2)
  BY <1>1, <1>2, <1>7, KeptAsSecond DEF Keeps, q
<1>9. Keeps(r1.pool)
  BY <1>5 DEF Sound, Keeps
<1>10. /\ Core(q2) /\ Within(q2) /\ Placed(q2) /\ NoMissedBut({t}, q2)
       /\ \A u \in Hash : Parked(q2, u) = Parked(r1.pool, u)
       /\ q2.streamed \subseteq r1.pool.streamed
  BY <1>1, <1>7, <1>9, CachedForObserve
<1>11. r2 = ObserveVanilla(q2, t)
  BY <1>1, KindAssumption DEF Observed
<1> HIDE DEF q2, r2
<1>12. Parked(q2, t) = Parked(p, t) \cup {b}
  BY <1>1, <1>3, <1>7, <1>10
<1>13. ToSet(r2.reinjections) = {BidReinjection(x, t) : x \in Parked(p, t) \cup {b}} \cup {Offer(t)}
  <2>1. t \notin q2.streamed
    BY <1>2, <1>3, <1>7, <1>10 DEF Keeps, Core
  <2>2. ToSet(r2.reinjections) =
          {BidReinjection(x, t) : x \in Parked(q2, t)} \cup OfferSet(q2, t)
    BY <1>1, <1>8, <1>10, <1>11, <1>12, VanillaMaps
  <2> QED
    BY <1>12, <2>1, <2>2 DEF OfferSet
<1>14. \A u \in Hash : Parked(r2.pool, u) = IF u = t THEN {} ELSE Parked(p, u)
  <2>1. \A u \in Hash : Parked(r2.pool, u) = IF u = t THEN {} ELSE Parked(q2, u)
    BY <1>1, <1>8, <1>10, <1>11, VanillaParked
  <2> QED
    BY <1>3, <1>7, <1>10, <2>1
<1>15. ToSet(r1.reinjections) = {}
  BY <1>6 DEF ToSet
<1>16. Reinjected(p, b, t) =
         [sent |-> ToSet(r1.reinjections) \cup ToSet(r2.reinjections),
          parked |-> [u \in Hash |-> Parked(r2.pool, u)]]
  BY DEF Reinjected, r1, r2
<1>17. [u \in Hash |-> Parked(r2.pool, u)] = [u \in Hash |-> IF u = t THEN {} ELSE Parked(p, u)]
  BY <1>14
<1>18. Reinjected(p, b, t) = Paired(p, b, t)
  BY <1>13, <1>15, <1>16, <1>17 DEF Paired
<1> QED
  BY <1>18 DEF t

\* The target first: it is cached, and the bid pairs with it at once.
LEMMA TargetThenBid ==
    ASSUME NEW p, Keeps(p), Placed(p), NEW b \in Backrun, Target[b] \in Vanilla,
           HasRoomFor(p, b, Target[b])
    PROVE  Reinjected(p, Target[b], b) = Paired(p, b, Target[b])
<1> DEFINE t == Target[b]
           q == InsertCache(p, t)
           r1 == Observed(p, t)
           q2 == InsertCache(r1.pool, b)
           r2 == Observed(r1.pool, b)
           B == Parked(p, t)
<1>1. t \in Hash /\ b \in Hash /\ b # t /\ t \in Vanilla
  BY KindAssumption DEF Hash
<1>2. b \notin Cached(p) /\ t \notin Cached(p) /\ Lodged(p, t)
  BY DEF HasRoomFor, Lodged
<1>3. r2 = ObserveBackrun(q2, b)
  BY KindAssumption DEF Observed
<1> HIDE DEF t, q2, r2
<1>4. /\ Core(q) /\ Within(q) /\ Placed(q) /\ NoMissedBut({t}, q)
      /\ \A u \in Hash : Parked(q, u) = Parked(p, u)
      /\ q.streamed \subseteq p.streamed
  BY <1>1, CachedForObserve
<1>5. t \in Cached(q) /\ \A r : Core(r) /\ SameTargets(r, q) => t \in Cached(InsertCache(r, b))
  BY <1>1, <1>2, KeptAsFirst DEF Keeps
<1>6. r1 = ObserveVanilla(q, t)
  BY <1>1, KindAssumption DEF Observed
<1>7. Keeps(r1.pool)
  BY <1>1, ObservedSound DEF Sound, Keeps
<1> HIDE DEF q, r1, B
<1>8. /\ Core(r1.pool) /\ SameTargets(r1.pool, q)
      /\ \A u \in Hash : Parked(r1.pool, u) = IF u = t THEN {} ELSE Parked(p, u)
  BY <1>1, <1>4, <1>5, <1>6, VanillaParked
<1>9. t \notin q.streamed /\ Parked(q, t) = B
  BY <1>1, <1>2, <1>4 DEF Keeps, Core, B
<1>10. /\ Placed(r1.pool)
       /\ B = {} => ToSet(r1.reinjections) = {} /\ r1.pool.streamed = q.streamed
       /\ B # {} => ToSet(r1.reinjections) = {BidReinjection(x, t) : x \in B} \cup {Offer(t)}
  <2>1. /\ Placed(r1.pool)
        /\ B = {} => ToSet(r1.reinjections) = {} /\ r1.pool.streamed = q.streamed
        /\ B # {} => ToSet(r1.reinjections) =
                       {BidReinjection(x, t) : x \in B} \cup OfferSet(q, t)
    BY <1>1, <1>4, <1>5, <1>6, <1>9, VanillaMaps
  <2> QED
    BY <1>9, <2>1 DEF OfferSet
<1>11. t \in Cached(q2)
  BY <1>5, <1>8 DEF q2
<1>12. /\ Core(q2) /\ Placed(q2) /\ \A u \in Hash : Parked(q2, u) = Parked(r1.pool, u)
       /\ q2.streamed \subseteq r1.pool.streamed
  BY <1>1, <1>7, <1>10, CachedForObserve DEF q2
<1>13. /\ ToSet(r2.reinjections) = {BidReinjection(b, t)} \cup OfferSet(q2, t)
       /\ \A u \in Hash : Parked(r2.pool, u) = Parked(q2, u)
  BY <1>3, <1>11, <1>12, PairedMaps DEF t
<1>14. /\ OfferSet(q2, t) \subseteq {Offer(t)}
       /\ B = {} => OfferSet(q2, t) = {Offer(t)}
  BY <1>9, <1>10, <1>12 DEF OfferSet
<1>15. ToSet(r1.reinjections) \cup ToSet(r2.reinjections) =
         {BidReinjection(x, t) : x \in B \cup {b}} \cup {Offer(t)}
  <2>1. CASE B = {}
    BY <1>10, <1>13, <1>14, <2>1
  <2>2. CASE B # {}
    BY <1>10, <1>13, <1>14, <2>2
  <2> QED
    BY <2>1, <2>2
<1>16. \A u \in Hash : Parked(r2.pool, u) = IF u = t THEN {} ELSE Parked(p, u)
  BY <1>8, <1>12, <1>13
<1>17. Reinjected(p, t, b) =
         [sent |-> ToSet(r1.reinjections) \cup ToSet(r2.reinjections),
          parked |-> [u \in Hash |-> Parked(r2.pool, u)]]
  BY DEF Reinjected, r1, r2
<1>18. [u \in Hash |-> Parked(r2.pool, u)] = [u \in Hash |-> IF u = t THEN {} ELSE Parked(p, u)]
  BY <1>16
<1>19. Reinjected(p, t, b) = Paired(p, b, t)
  BY <1>15, <1>17, <1>18 DEF Paired, B
<1> QED
  BY <1>19 DEF t

\* Whichever of a bid and its target the node reports first, the block builder
\* is sent the same, and the same bids are left parked.
THEOREM OrderIrrelevant == Spec => []ArrivalOrderIrrelevant
<1>1. MInv => ArrivalOrderIrrelevant
  <2> SUFFICES ASSUME MInv, NEW b \in Backrun, Target[b] \in Vanilla,
                      HasRoomFor(pool, b, Target[b])
               PROVE  Reinjected(pool, b, Target[b]) = Reinjected(pool, Target[b], b)
    BY DEF ArrivalOrderIrrelevant
  <2>1. Keeps(pool) /\ Placed(pool)
    BY DEF MInv, IInv
  <2> QED
    BY <2>1, BidThenTarget, TargetThenBid
<1> QED
  BY <1>1, AlwaysMInv, PTL
=============================================================================

------------------------ MODULE PendingPoolOpsProofs ------------------------
(***************************************************************************)
(* What the operators of PendingPoolOps keep, for every set of             *)
(* transactions, every choice of targets, every capacity and every TTL:    *)
(*                                                                         *)
(*   Core         types, the count of parked bids, marks on cached targets *)
(*                only, and every cached hash is named by cache_order      *)
(*   Within       the cache within its capacity.  Eviction can keep it so  *)
(*                because it finds a victim through the queue (Core)       *)
(*   NoMissedBut  no bid is parked for a cached vanilla transaction, with  *)
(*                exceptions while a call is under way: insert_cache puts  *)
(*                h in the cache before its bids are flushed               *)
(*   HeadLive     after prune the front of cache_order is live, so that    *)
(*                one eviction takes the front and not the newcomer        *)
(*   Follows      every bid of an answer comes behind its target           *)
(*   Backed       pending_order names each bid as often as it is parked,   *)
(*                and no more are parked than fit                          *)
(*   Placed       a bid is parked under the target it names                *)
(*   BidHead      after prune the front of pending_order is live, so that  *)
(*                one eviction takes the front and not the bid just parked *)
(*   Offers       an answer holds one opportunity at most, at its front,   *)
(*                for a target that had no mark                            *)
(*   Lodged       what keeps a target cached while one more is cached      *)
(*                                                                         *)
(* One lemma per operator says which parts it keeps; PendingPoolProofs and *)
(* IpcLoopProofs compose them the way the actions do.                      *)
(***************************************************************************)
EXTENDS PendingPoolOps, OrderQueuesProofs

-----------------------------------------------------------------------------
(* Counting parked bids.                                                   *)

SlotsOf(P) == UNION {{t} \X DOMAIN P[t] : t \in Hash}

\* A slot is a target with a position in its vector.
LEMMA SlotsElements ==
    ASSUME NEW P
    PROVE  \A x : x \in SlotsOf(P) <=> \E t \in Hash : \E i \in DOMAIN P[t] : x = <<t, i>>
<1>1. \A t, x : x \in {t} \X DOMAIN P[t] <=> \E i \in DOMAIN P[t] : x = <<t, i>>
  OBVIOUS
<1> QED
  BY <1>1 DEF SlotsOf

\* There are finitely many slots, so counting them makes sense.
LEMMA SlotsFinite ==
    ASSUME NEW P \in [Hash -> Seq(PendingBid)]
    PROVE  IsFiniteSet(SlotsOf(P)) /\ Cardinality(SlotsOf(P)) \in Nat
<1> DEFINE column == [t \in Hash |-> {t} \X DOMAIN P[t]]
           columns == {{t} \X DOMAIN P[t] : t \in Hash}
<1>1. column \in Surjection(Hash, columns)
  BY Fun_IsSurj
<1>2. IsFiniteSet(columns)
  BY <1>1, FS_Surjection, KindAssumption
<1>3. \A c \in columns : IsFiniteSet(c)
  <2> SUFFICES ASSUME NEW t \in Hash PROVE IsFiniteSet({t} \X DOMAIN P[t])
    OBVIOUS
  <2>1. P[t] \in Seq(PendingBid)
    OBVIOUS
  <2>2. Len(P[t]) \in Nat /\ DOMAIN P[t] = 1..Len(P[t])
    BY <2>1, LenProperties
  <2>3. IsFiniteSet({t}) /\ IsFiniteSet(DOMAIN P[t])
    <3> DEFINE k == Len(P[t])
    <3>1. k \in Int
      BY <2>2
    <3> HIDE DEF k
    <3>2. IsFiniteSet(1..k)
      BY <3>1, FS_Interval
    <3> QED
      BY <2>2, <3>2, FS_Singleton DEF k
  <2> QED
    BY <2>3, FS_Product
<1>4. IsFiniteSet(UNION columns)
  BY <1>2, <1>3, FS_UNION
<1> QED
  BY <1>4, FS_CardinalityType DEF SlotsOf

\* The places gone, given for every target.
Places(gone) == UNION {{t} \X gone[t] : t \in Hash}

\* Taking bids out of their vectors lowers the number of slots by the number
\* of the slots taken.
LEMMA SlotsWithout ==
    ASSUME NEW P \in [Hash -> Seq(PendingBid)],
           NEW Q \in [Hash -> Seq(PendingBid)],
           NEW gone \in [Hash -> SUBSET Nat],
           \A t \in Hash : gone[t] \subseteq DOMAIN P[t] /\ Q[t] = Without(P[t], gone[t])
    PROVE  /\ Places(gone) \subseteq SlotsOf(P)
           /\ Cardinality(Places(gone)) \in Nat
           /\ Cardinality(SlotsOf(Q)) = Cardinality(SlotsOf(P)) - Cardinality(Places(gone))
<1> DEFINE removed == Places(gone)
           keep == SlotsOf(P) \ removed
           origin(x) == <<x[1], Origin(P[x[1]], gone[x[1]])[x[2]]>>
           F == [x \in SlotsOf(Q) |-> origin(x)]
<1>1. removed \subseteq SlotsOf(P)
  BY DEF SlotsOf, Places
<1>2. /\ IsFiniteSet(SlotsOf(P)) /\ Cardinality(SlotsOf(P)) \in Nat
      /\ IsFiniteSet(SlotsOf(Q)) /\ Cardinality(SlotsOf(Q)) \in Nat
  BY SlotsFinite
<1>3. IsFiniteSet(removed) /\ Cardinality(removed) \in Nat
  BY <1>1, <1>2, FS_Subset, FS_CardinalityType
<1>4. Cardinality(keep) = Cardinality(SlotsOf(P)) - Cardinality(removed)
  <2>1. SlotsOf(P) \cap removed = removed
    BY <1>1
  <2> QED
    BY <1>2, <2>1, FS_Difference
<1>5. \A t \in Hash :
        /\ DOMAIN Q[t] = 1..Cardinality(Kept(P[t], gone[t]))
        /\ Origin(P[t], gone[t]) \in [DOMAIN Q[t] -> Kept(P[t], gone[t])]
        /\ \A m, n \in DOMAIN Q[t] :
              m < n => Origin(P[t], gone[t])[m] < Origin(P[t], gone[t])[n]
        /\ \A i \in Kept(P[t], gone[t]) : \E n \in DOMAIN Q[t] : Origin(P[t], gone[t])[n] = i
        /\ Kept(P[t], gone[t]) \in SUBSET Nat
        /\ Cardinality(Kept(P[t], gone[t])) \in Nat
  <2> SUFFICES ASSUME NEW t \in Hash
               PROVE  /\ DOMAIN Q[t] = 1..Cardinality(Kept(P[t], gone[t]))
                      /\ Origin(P[t], gone[t]) \in [DOMAIN Q[t] -> Kept(P[t], gone[t])]
                      /\ \A m, n \in DOMAIN Q[t] :
                           m < n => Origin(P[t], gone[t])[m] < Origin(P[t], gone[t])[n]
                      /\ \A i \in Kept(P[t], gone[t]) :
                           \E n \in DOMAIN Q[t] : Origin(P[t], gone[t])[n] = i
                      /\ Kept(P[t], gone[t]) \in SUBSET Nat
                      /\ Cardinality(Kept(P[t], gone[t])) \in Nat
    OBVIOUS
  <2> DEFINE s == P[t]
             g == gone[t]
  <2>1. s \in Seq(PendingBid) /\ Q[t] = Without(s, g)
    OBVIOUS
  <2> HIDE DEF s, g
  <2>2. /\ Kept(s, g) \in SUBSET (1..Len(s))
        /\ Cardinality(Kept(s, g)) \in Nat
        /\ Origin(s, g) \in [1..Cardinality(Kept(s, g)) -> Kept(s, g)]
        /\ \A m, n \in 1..Cardinality(Kept(s, g)) :
              m < n => Origin(s, g)[m] < Origin(s, g)[n]
        /\ \A i \in Kept(s, g) :
              \E n \in 1..Cardinality(Kept(s, g)) : Origin(s, g)[n] = i
        /\ Without(s, g) = [n \in 1..Cardinality(Kept(s, g)) |-> s[Origin(s, g)[n]]]
    BY <2>1, WithoutOrigin
  <2>3. DOMAIN Q[t] = 1..Cardinality(Kept(s, g))
    BY <2>1, <2>2
  <2>4. /\ Origin(s, g) \in [DOMAIN Q[t] -> Kept(s, g)]
        /\ \A m, n \in DOMAIN Q[t] : m < n => Origin(s, g)[m] < Origin(s, g)[n]
        /\ \A i \in Kept(s, g) : \E n \in DOMAIN Q[t] : Origin(s, g)[n] = i
    BY <2>2, <2>3
  <2>5. Kept(s, g) \in SUBSET Nat /\ Cardinality(Kept(s, g)) \in Nat
    BY <2>2
  <2> QED
    BY <2>3, <2>4, <2>5 DEF s, g
<1>6. F \in [SlotsOf(Q) -> keep]
  <2> SUFFICES ASSUME NEW t \in Hash, NEW n \in DOMAIN Q[t]
               PROVE  origin(<<t, n>>) \in keep
    BY DEF SlotsOf
  <2>1. Origin(P[t], gone[t])[n] \in Kept(P[t], gone[t])
    BY <1>5
  <2> QED
    BY <2>1 DEF SlotsOf, Kept, Places
<1>7. \A x, y \in SlotsOf(Q) : F[x] = F[y] => x = y
  <2>1. ASSUME NEW t \in Hash, NEW n \in DOMAIN Q[t],
               NEW u \in Hash, NEW m \in DOMAIN Q[u],
               origin(<<t, n>>) = origin(<<u, m>>)
        PROVE  t = u /\ n = m
    <3>1. t = u /\ Origin(P[t], gone[t])[n] = Origin(P[t], gone[t])[m]
      BY <2>1
    <3>2. n \in Nat /\ m \in Nat
      BY <1>5
    <3>3. Origin(P[t], gone[t])[n] \in Nat /\ Origin(P[t], gone[t])[m] \in Nat
      BY <1>5, <3>1
    <3>4. ~(n < m) /\ ~(m < n)
      BY <1>5, <3>1, <3>3
    <3> QED
      BY <3>1, <3>2, <3>4
  <2> SUFFICES ASSUME NEW x \in SlotsOf(Q), NEW y \in SlotsOf(Q), F[x] = F[y]
               PROVE  x = y
    OBVIOUS
  <2>2. PICK t \in Hash : \E n \in DOMAIN Q[t] : x = <<t, n>>
    BY SlotsElements
  <2>3. PICK n \in DOMAIN Q[t] : x = <<t, n>>
    BY <2>2
  <2>4. PICK u \in Hash : \E m \in DOMAIN Q[u] : y = <<u, m>>
    BY SlotsElements
  <2>5. PICK m \in DOMAIN Q[u] : y = <<u, m>>
    BY <2>4
  <2>6. origin(<<t, n>>) = origin(<<u, m>>)
    BY <2>3, <2>5
  <2> QED
    BY <2>1, <2>3, <2>5, <2>6
<1>8. \A y \in keep : \E x \in SlotsOf(Q) : F[x] = y
  <2> SUFFICES ASSUME NEW y \in keep PROVE \E x \in SlotsOf(Q) : F[x] = y
    OBVIOUS
  <2>1. PICK t \in Hash : \E i \in DOMAIN P[t] : y = <<t, i>>
    BY SlotsElements
  <2>2. PICK i \in DOMAIN P[t] : y = <<t, i>>
    BY <2>1
  <2>3. i \in Kept(P[t], gone[t])
    BY <2>2 DEF Kept, Places
  <2>4. PICK n \in DOMAIN Q[t] : Origin(P[t], gone[t])[n] = i
    BY <1>5, <2>3
  <2>5. <<t, n>> \in SlotsOf(Q)
    BY SlotsElements
  <2>6. F[<<t, n>>] = y
    BY <2>2, <2>4, <2>5
  <2> QED
    BY <2>5, <2>6
<1>9. Cardinality(SlotsOf(Q)) = Cardinality(keep)
  <2> HIDE DEF F, keep
  <2>1. F \in Bijection(SlotsOf(Q), keep)
    BY <1>6, <1>7, <1>8, Fun_IsSurj, Fun_IsBij
  <2> QED
    BY <1>2, <2>1, FS_Bijection, Fun_ExistsBij
<1> QED
  BY <1>1, <1>3, <1>4, <1>9

-----------------------------------------------------------------------------
(* What every operator keeps of a pool.                                    *)

Counted(p) == p.pendingCount = Cardinality(Slots(p))
Covered(p) == Cached(p) \subseteq ToSet(p.cacheOrder)
Core(p) == p \in Pool /\ Counted(p) /\ p.streamed \subseteq Cached(p) /\ Covered(p)

\* r has the same parked bids as p.
SameBids(r, p) ==
    /\ r.pending = p.pending
    /\ r.pendingOrder = p.pendingOrder
    /\ r.pendingCount = p.pendingCount

\* r has the same targets as p.
SameTargets(r, p) ==
    /\ r.cache = p.cache
    /\ r.cacheOrder = p.cacheOrder

\* The fields of a pool have the types Pool gives them.
LEMMA PoolFields ==
    ASSUME NEW p \in Pool
    PROVE  /\ p.cache \in [Hash -> Age \cup {Absent}]
           /\ p.cacheOrder \in Seq(Hash)
           /\ p.pending \in [Hash -> Seq(PendingBid)]
           /\ p.pendingOrder \in Seq([target : Hash, bid : Backrun])
           /\ p.pendingCount \in Nat
           /\ p.streamed \in SUBSET Hash
BY DEF Pool

\* Ages are natural numbers, Absent is none of them.
LEMMA AgeType == Age \in SUBSET Nat /\ Absent \notin Age /\ 0 \in Age /\ TTL \in Age
BY BoundAssumption DEF Age, Absent

\* Every set of hashes is finite.
LEMMA HashFinite ==
    ASSUME NEW S \in SUBSET Hash
    PROVE  IsFiniteSet(S) /\ Cardinality(S) \in Nat
BY KindAssumption, FS_Subset, FS_CardinalityType

\* The cache has room for at least one transaction.
LEMMA CacheCapType == CacheCap \in Nat /\ CacheCap >= 1
BY BoundAssumption DEF CacheCap, AtLeastOne

\* What is cached are hashes.
LEMMA CachedType ==
    ASSUME NEW p \in Pool
    PROVE  Cached(p) \in SUBSET Hash
BY DEF Cached

\* A step that leaves the bids and their count alone leaves the count right.
LEMMA CountedWhenSame ==
    ASSUME NEW p, NEW r, Counted(p), SameBids(r, p)
    PROVE  Counted(r)
BY DEF Counted, SameBids, Slots

\* Popping the cache queue keeps the invariant and forgets what is popped.
LEMMA PopCacheProperties ==
    ASSUME NEW p, Core(p), NEW n \in 0..Len(p.cacheOrder)
    PROVE  LET r == PopCache(p, n)
               popped == {p.cacheOrder[i] : i \in 1..n}
           IN  /\ Core(r)
               /\ r.cache = [h \in Hash |-> IF h \in popped THEN Absent ELSE p.cache[h]]
               /\ r.cacheOrder = Dropped(p.cacheOrder, n)
               /\ Cached(r) = Cached(p) \ popped
               /\ SameBids(r, p)
<1> DEFINE r == PopCache(p, n)
           popped == {p.cacheOrder[i] : i \in 1..n}
           order == Dropped(p.cacheOrder, n)
<1>0. p \in Pool /\ n \in Nat
  BY PoolFields, LenProperties DEF Core
<1>1. /\ r.cache = [h \in Hash |-> IF h \in popped THEN Absent ELSE p.cache[h]]
      /\ r.cacheOrder = order
      /\ r.pending = p.pending
      /\ r.pendingOrder = p.pendingOrder
      /\ r.pendingCount = p.pendingCount
      /\ r.streamed = p.streamed \ (popped \cap Cached(p))
  BY <1>0 DEF Pool, PopCache
<1>2. /\ order \in Seq(Hash)
      /\ Len(order) = Len(p.cacheOrder) - n
      /\ DOMAIN order = 1..Len(order)
      /\ DOMAIN p.cacheOrder = 1..Len(p.cacheOrder)
      /\ Len(p.cacheOrder) \in Nat
      /\ \A i \in 1..Len(order) : order[i] = p.cacheOrder[n + i]
  <2>1. p.cacheOrder \in Seq(Hash)
    BY <1>0, PoolFields
  <2>2. Len(p.cacheOrder) \in Nat /\ n <= Len(p.cacheOrder)
    BY <2>1, LenProperties
  <2>3. /\ order \in Seq(Hash)
        /\ Len(order) = IF n <= Len(p.cacheOrder) THEN Len(p.cacheOrder) - n ELSE 0
        /\ \A i \in 1..Len(order) : order[i] = p.cacheOrder[n + i]
    BY <1>0, <2>1, DroppedProperties
  <2> QED
    BY <2>1, <2>2, <2>3, LenProperties
<1>3. r.cache \in [Hash -> Age \cup {Absent}] /\ r.streamed \in SUBSET Hash
  BY <1>0, <1>1, PoolFields
<1>4. r \in Pool
  <2> DEFINE c == [h \in Hash |-> IF h \in popped THEN Absent ELSE p.cache[h]]
             s == p.streamed \ (popped \cap Cached(p))
  <2>1. r = [p EXCEPT !.cache = c, !.cacheOrder = order, !.streamed = s]
    BY DEF PopCache
  <2>2. c \in [Hash -> Age \cup {Absent}] /\ s \in SUBSET Hash
    BY <1>1, <1>3
  <2> HIDE DEF c, s, order, r
  <2> QED
    BY <1>0, <1>2, <2>1, <2>2 DEF Pool
<1> HIDE DEF r, order
<1>5. Cached(r) = Cached(p) \ popped
  BY <1>1 DEF Cached
<1>6. r.streamed \subseteq Cached(r)
  BY <1>1, <1>5 DEF Core
<1>7. Covered(r)
  <2> SUFFICES ASSUME NEW h \in Cached(p), h \notin popped PROVE h \in ToSet(order)
    BY <1>1, <1>5 DEF Covered
  <2>1. PICK i \in 1..Len(p.cacheOrder) : p.cacheOrder[i] = h
    BY <1>2 DEF Core, Covered, ToSet
  <2>2. i \notin 1..n
    BY <2>1
  <2>3. i - n \in 1..Len(order) /\ n + (i - n) = i
    BY <1>0, <1>2, <2>2
  <2> QED
    BY <1>2, <2>1, <2>3 DEF ToSet
<1>8. SameBids(r, p)
  BY <1>1 DEF SameBids
<1>9. Core(r)
  BY <1>4, <1>6, <1>7, <1>8, CountedWhenSame DEF Core
<1> QED
  BY <1>1, <1>5, <1>8, <1>9 DEF r, order

\* A step that leaves the cache and its queue alone and adds no mark keeps
\* the core invariant, if it keeps the count.
LEMMA CoreWhenSameTargets ==
    ASSUME NEW p, NEW r, Core(p), r \in Pool, Counted(r), SameTargets(r, p),
           r.streamed \subseteq p.streamed
    PROVE  Core(r)
<1>1. Cached(r) = Cached(p)
  BY DEF SameTargets, Cached
<1> QED
  BY <1>1 DEF Core, Covered, SameTargets

\* The places named by the first n entries of the queue, target by target.
Popped(p, n) ==
    [t \in Hash |-> UNION {Named(p, i) : i \in {j \in 1..n : p.pendingOrder[j].target = t}}]

\* An entry of pending_order names copies of its bid, in the vector of its
\* target.
LEMMA NamedType ==
    ASSUME NEW p \in Pool, NEW i \in DOMAIN p.pendingOrder
    PROVE  LET e == p.pendingOrder[i]
           IN  /\ e.target \in Hash /\ e.bid \in Backrun
               /\ Named(p, i) \subseteq Copies(p, e.target, e.bid)
               /\ Named(p, i) \subseteq DOMAIN p.pending[e.target]
<1>1. p.pendingOrder[i] \in [target : Hash, bid : Backrun]
  BY PoolFields, LenProperties, ElementOfSeq
<1> QED
  BY <1>1 DEF Named, Copies

\* The counters of removed bids are numbers.
LEMMA HitsType ==
    ASSUME NEW p, NEW n \in Nat
    PROVE  /\ IsFiniteSet({i \in 1..n : Named(p, i) # {}})
           /\ Hits(p, n) \in Nat
<1> DEFINE S == {i \in 1..n : Named(p, i) # {}}
<1>1. IsFiniteSet(1..n) /\ S \in SUBSET (1..n)
  BY FS_Interval
<1> HIDE DEF S
<1>2. IsFiniteSet(S) /\ Cardinality(S) \in Nat
  BY <1>1, FS_Subset, FS_CardinalityType
<1> QED
  BY <1>2 DEF S, Hits

\* Popping the bid queue keeps the invariant and the targets; pending_count is
\* decremented by exactly what leaves the vectors.
LEMMA PopPendingProperties ==
    ASSUME NEW p, Core(p), NEW n \in 0..Len(p.pendingOrder)
    PROVE  LET r == PopPending(p, n)
           IN  /\ Core(r)
               /\ SameTargets(r, p)
               /\ r.streamed = p.streamed
               /\ r.pendingCount <= p.pendingCount
               /\ r.pending = [t \in Hash |-> Without(p.pending[t], Popped(p, n)[t])]
               /\ r.pendingOrder = Dropped(p.pendingOrder, n)
               /\ \A t \in Hash : Popped(p, n)[t] \subseteq DOMAIN p.pending[t]
               /\ r.pendingCount =
                    p.pendingCount - Cardinality(Places(Popped(p, n)))
<1> DEFINE r == PopPending(p, n)
           g == Popped(p, n)
           Q == [t \in Hash |-> Without(p.pending[t], g[t])]
           removed == Places(g)
           order == Dropped(p.pendingOrder, n)
<1>0. p \in Pool /\ n \in Nat /\ p.pendingCount \in Nat
  BY PoolFields, LenProperties DEF Core
<1>1. 1..n \subseteq DOMAIN p.pendingOrder
  <2>1. Len(p.pendingOrder) \in Nat /\ DOMAIN p.pendingOrder = 1..Len(p.pendingOrder)
    BY <1>0, PoolFields, LenProperties
  <2> QED
    BY <1>0, <2>1
<1>2. \A t \in Hash : g[t] \subseteq DOMAIN p.pending[t]
  BY <1>0, <1>1, NamedType DEF Popped
<1>3. \A t \in Hash : /\ p.pending[t] \in Seq(PendingBid)
                      /\ DOMAIN p.pending[t] \in SUBSET Nat
                      /\ Q[t] \in Seq(PendingBid)
  <2> SUFFICES ASSUME NEW t \in Hash
               PROVE  /\ p.pending[t] \in Seq(PendingBid)
                      /\ DOMAIN p.pending[t] \in SUBSET Nat
                      /\ Q[t] \in Seq(PendingBid)
    OBVIOUS
  <2>1. p.pending[t] \in Seq(PendingBid)
    BY <1>0, PoolFields
  <2>2. DOMAIN p.pending[t] = 1..Len(p.pending[t]) /\ Len(p.pending[t]) \in Nat
    BY <2>1, LenProperties
  <2>3. Without(p.pending[t], g[t]) \in Seq(PendingBid)
    BY <2>1, WithoutType
  <2> QED
    BY <2>1, <2>2, <2>3
<1>4. /\ Q \in [Hash -> Seq(PendingBid)]
      /\ g \in [Hash -> SUBSET Nat]
      /\ p.pending \in [Hash -> Seq(PendingBid)]
  <2>1. DOMAIN g = Hash
    BY DEF Popped
  <2>2. \A t \in Hash : g[t] \in SUBSET Nat
    BY <1>2, <1>3
  <2>3. g = [t \in Hash |-> g[t]]
    BY DEF Popped
  <2> HIDE DEF g
  <2> QED
    BY <1>0, <1>3, <2>2, <2>3, PoolFields
<1>5. /\ \A t \in Hash : Q[t] = Without(p.pending[t], g[t])
      /\ Slots(p) = SlotsOf(p.pending)
  BY DEF Slots, SlotsOf
<1>6. /\ removed = UNION {{t} \X UNION {Named(p, i) :
                        i \in {j \in 1..n : p.pendingOrder[j].target = t}} : t \in Hash}
      /\ Q = [t \in Hash |-> Without(p.pending[t],
                UNION {Named(p, i) : i \in {j \in 1..n : p.pendingOrder[j].target = t}})]
  BY DEF Popped, Places
<1>7. r = [p EXCEPT !.pending = Q, !.pendingOrder = order,
                    !.pendingCount = p.pendingCount - Cardinality(removed)]
  BY <1>6 DEF PopPending
<1> HIDE DEF g, r
<1>8. /\ removed \subseteq SlotsOf(p.pending)
      /\ Cardinality(removed) \in Nat
      /\ Cardinality(SlotsOf(Q)) = Cardinality(SlotsOf(p.pending)) - Cardinality(removed)
      /\ Cardinality(SlotsOf(Q)) \in Nat
  <2> HIDE DEF Q
  <2>1. Cardinality(SlotsOf(Q)) \in Nat
    BY <1>4, SlotsFinite
  <2> DEFINE P == p.pending
  <2>2. /\ P \in [Hash -> Seq(PendingBid)]
        /\ \A t \in Hash : g[t] \subseteq DOMAIN P[t] /\ Q[t] = Without(P[t], g[t])
    BY <1>2, <1>4, <1>5
  <2> HIDE DEF P
  <2>3. /\ removed \subseteq SlotsOf(P)
        /\ Cardinality(removed) \in Nat
        /\ Cardinality(SlotsOf(Q)) = Cardinality(SlotsOf(P)) - Cardinality(removed)
    BY <1>4, <2>2, SlotsWithout
  <2> QED
    BY <2>1, <2>3 DEF P
<1> HIDE DEF Q, removed
<1>9. p.pendingCount = Cardinality(SlotsOf(p.pending))
  BY <1>5 DEF Core, Counted
<1>10. p.pendingCount - Cardinality(removed) = Cardinality(SlotsOf(Q))
  BY <1>8, <1>9
<1>11. order \in Seq([target : Hash, bid : Backrun])
  BY <1>0, PoolFields, DroppedProperties
<1> HIDE DEF order
<1>12. r \in Pool
  <2> DEFINE c == p.pendingCount - Cardinality(removed)
  <2>1. c \in Nat /\ r = [p EXCEPT !.pending = Q, !.pendingOrder = order, !.pendingCount = c]
    BY <1>7, <1>8, <1>10
  <2> HIDE DEF c
  <2> QED
    BY <1>0, <1>4, <1>11, <2>1 DEF Pool
<1>13. /\ r.pending = Q /\ r.pendingOrder = order
       /\ r.pendingCount = p.pendingCount - Cardinality(removed)
       /\ SameTargets(r, p) /\ r.streamed = p.streamed
  BY <1>0, <1>7 DEF Pool, SameTargets
<1>14. Counted(r)
  BY <1>10, <1>13 DEF Counted, Slots, SlotsOf
<1>15. Core(r)
  BY <1>12, <1>13, <1>14, CoreWhenSameTargets
<1>16. r.pendingCount <= p.pendingCount
  BY <1>0, <1>8, <1>13
<1> QED
  BY <1>2, <1>13, <1>15, <1>16 DEF r, g, Q, removed, order

-----------------------------------------------------------------------------
(* prune.                                                                  *)

\* The front of the cache queue, if there is one, names a cached transaction.
HeadLive(p) == p.cacheOrder # <<>> => p.cache[p.cacheOrder[1]] # Absent

\* No target of r has bids waiting that has none in p.
NoNewBids(r, p) == \A t \in Hash : p.pending[t] = <<>> => r.pending[t] = <<>>

\* Capacity of the cache.
Within(p) == Cardinality(Cached(p)) <= CacheCap

\* There is nothing to remove from the empty sequence.
LEMMA WithoutOfEmpty ==
    ASSUME NEW gone
    PROVE  Without(<<>>, gone) = <<>>
<1> DEFINE s == <<>>
<1>1. s \in Seq({}) /\ DOMAIN s = {}
  BY EmptySeq
<1>2. Kept(s, gone) = {}
  BY <1>1 DEF Kept
<1> HIDE DEF s
<1>3. Without(s, gone) \in Seq({}) /\ Len(Without(s, gone)) = Cardinality(Kept(s, gone))
  BY <1>1, WithoutType
<1>4. Len(Without(s, gone)) = 0
  BY <1>2, <1>3, FS_EmptySet
<1>5. Without(s, gone) = <<>>
  BY <1>3, <1>4, EmptySeq
<1> QED
  BY <1>5 DEF s

\* Pruning the cache keeps the core invariant, leaves the bids alone and ends
\* with an empty queue or a live front.
LEMMA PrunedCacheProperties ==
    ASSUME NEW p, Core(p)
    PROVE  LET r == PrunedCache(p)
           IN  /\ Core(r) /\ SameBids(r, p)
               /\ Cached(r) \subseteq Cached(p)
               /\ HeadLive(r)
<1> DEFINE fresh == {i \in DOMAIN p.cacheOrder : p.cache[p.cacheOrder[i]] \in 0..(TTL - 1)}
           first == FirstOf(fresh, Len(p.cacheOrder) + 1)
           n == first - 1
           popped == {p.cacheOrder[i] : i \in 1..n}
           r == PopCache(p, n)
<1>1. PrunedCache(p) = r
  BY DEF PrunedCache
<1>2. p \in Pool /\ p.cacheOrder \in Seq(Hash)
  BY PoolFields DEF Core
<1>3. Len(p.cacheOrder) \in Nat /\ DOMAIN p.cacheOrder = 1..Len(p.cacheOrder)
  BY <1>2, LenProperties
<1>4. /\ first \in 1..(Len(p.cacheOrder) + 1)
      /\ first <= Len(p.cacheOrder) => first \in fresh
      /\ \A j \in fresh : first <= j
  <2> DEFINE len == Len(p.cacheOrder)
  <2>1. len \in Nat /\ fresh \in SUBSET (1..len) /\ len + 1 \in Nat
    BY <1>3
  <2>2. CASE fresh = {}
    <3>1. first = len + 1
      BY <2>2 DEF FirstOf
    <3> QED
      BY <2>1, <2>2, <3>1
  <2>3. CASE fresh # {}
    <3> HIDE DEF fresh, len
    <3>1. fresh \in SUBSET Nat
      BY <2>1
    <3>2. first \in fresh /\ \A j \in fresh : first <= j
      BY <2>3, <3>1, FirstOfLeast
    <3> HIDE DEF first
    <3>3. first \in 1..(len + 1)
      BY <2>1, <3>2
    <3> QED
      BY <3>2, <3>3 DEF len
  <2> QED
    BY <2>2, <2>3
<1> HIDE DEF first
<1>5. n \in 0..Len(p.cacheOrder)
  BY <1>3, <1>4
<1> DEFINE k == n
<1>6. /\ Core(r)
      /\ r.cache = [h \in Hash |-> IF h \in popped THEN Absent ELSE p.cache[h]]
      /\ r.cacheOrder = Dropped(p.cacheOrder, n)
      /\ Cached(r) = Cached(p) \ popped
      /\ SameBids(r, p)
  <2> HIDE DEF n
  <2> QED
    BY <1>5, PopCacheProperties
<1>7. HeadLive(r)
  <2> SUFFICES ASSUME r.cacheOrder # <<>> PROVE r.cache[r.cacheOrder[1]] # Absent
    BY DEF HeadLive
  <2>1. /\ r.cacheOrder \in Seq(Hash)
        /\ Len(r.cacheOrder) =
             IF n <= Len(p.cacheOrder) THEN Len(p.cacheOrder) - n ELSE 0
        /\ \A i \in 1..Len(r.cacheOrder) : r.cacheOrder[i] = p.cacheOrder[n + i]
    <3>1. n \in Nat
      BY <1>3, <1>5
    <3> HIDE DEF n
    <3> QED
      BY <1>2, <1>6, <3>1, DroppedProperties
  <2>2. Len(r.cacheOrder) \in Nat \ {0}
    BY <2>1, EmptySeq
  <2>3. r.cacheOrder[1] = p.cacheOrder[first] /\ first <= Len(p.cacheOrder)
    <3>1. 1 \in 1..Len(r.cacheOrder)
      BY <2>2
    <3>2. r.cacheOrder[1] = p.cacheOrder[n + 1]
      BY <2>1, <3>1
    <3>3. n + 1 = first
      BY <1>3, <1>4
    <3>4. first <= Len(p.cacheOrder)
      BY <1>3, <1>4, <1>5, <2>1, <2>2
    <3> QED
      BY <3>2, <3>3, <3>4
  <2>4. first \in fresh
    BY <1>4, <2>3
  <2>5. p.cacheOrder[first] \in Hash /\ p.cache[p.cacheOrder[first]] # Absent
    <3>1. p.cacheOrder[first] \in Hash
      BY <1>2, <1>3, <2>4, ElementOfSeq
    <3>2. p.cache[p.cacheOrder[first]] \in 0..(TTL - 1)
      BY <2>4
    <3> QED
      BY <3>1, <3>2 DEF Absent
  <2>6. p.cacheOrder[first] \notin popped
    <3> SUFFICES ASSUME NEW j \in 1..n, p.cacheOrder[j] = p.cacheOrder[first]
                 PROVE  FALSE
      OBVIOUS
    <3>1. j \in DOMAIN p.cacheOrder /\ j < first
      BY <1>3, <1>4, <1>5
    <3>2. j \in fresh
      BY <2>4, <3>1
    <3> QED
      BY <1>3, <1>4, <3>1, <3>2
  <2> HIDE DEF popped
  <2> QED
    BY <1>6, <2>3, <2>5, <2>6
<1>8. Cached(r) \subseteq Cached(p)
  BY <1>6
<1> QED
  BY <1>1, <1>6, <1>7, <1>8

\* Pruning keeps what is fresh: the loop stops before the first entry that is.
LEMMA FreshStays ==
    ASSUME NEW p, Core(p), NEW h \in Hash, p.cache[h] \in 0..(TTL - 1)
    PROVE  h \in Cached(PrunedCache(p))
<1> DEFINE fresh == {i \in DOMAIN p.cacheOrder : p.cache[p.cacheOrder[i]] \in 0..(TTL - 1)}
           first == FirstOf(fresh, Len(p.cacheOrder) + 1)
           n == first - 1
           popped == {p.cacheOrder[i] : i \in 1..n}
<1>1. p.cacheOrder \in Seq(Hash) /\ h \in Cached(p)
  BY PoolFields DEF Core, Cached, Absent
<1>2. Len(p.cacheOrder) \in Nat /\ DOMAIN p.cacheOrder = 1..Len(p.cacheOrder)
  BY <1>1, LenProperties
<1>3. fresh \in SUBSET (1..Len(p.cacheOrder))
  BY <1>2
<1>4. /\ first \in 1..(Len(p.cacheOrder) + 1)
      /\ \A j \in fresh : first <= j
  <2> HIDE DEF fresh
  <2>1. CASE fresh = {}
    BY <1>2, <2>1 DEF FirstOf
  <2>2. CASE fresh # {}
    <3>1. fresh \in SUBSET Nat
      BY <1>2, <1>3
    <3>2. first \in fresh /\ \A j \in fresh : first <= j
      BY <2>2, <3>1, FirstOfLeast
    <3> HIDE DEF first
    <3> QED
      BY <1>2, <1>3, <3>2
  <2> QED
    BY <2>1, <2>2
<1> HIDE DEF first
<1>5. h \notin popped
  <2> SUFFICES ASSUME NEW j \in 1..n, p.cacheOrder[j] = h PROVE FALSE
    OBVIOUS
  <2>1. j \in 1..Len(p.cacheOrder) /\ j < first
    BY <1>2, <1>4
  <2>2. j \in fresh
    BY <1>2, <2>1
  <2> QED
    BY <1>2, <1>4, <2>1, <2>2
<1>6. PrunedCache(p) = PopCache(p, n)
  BY DEF PrunedCache, first
<1>7. n \in 0..Len(p.cacheOrder)
  BY <1>2, <1>4
<1>8. Cached(PopCache(p, n)) = Cached(p) \ popped
  <2> HIDE DEF n
  <2> QED
    BY <1>7, PopCacheProperties
<1> QED
  BY <1>1, <1>5, <1>6, <1>8

\* Pruning the parked bids pops a prefix of their queue, and only what has
\* outlived the TTL.
LEMMA PrunedPendingPops ==
    ASSUME NEW p, Core(p)
    PROVE  LET n == Outdated(p) IN
             /\ n \in 0..Len(p.pendingOrder)
             /\ PrunedPending(p) = PopPending(p, n)
             /\ \A i \in 1..n : \A c \in Named(p, i) :
                   p.pending[p.pendingOrder[i].target][c].age = TTL
<1> DEFINE fresh == {i \in DOMAIN p.pendingOrder :
                       \E c \in Named(p, i) :
                          p.pending[p.pendingOrder[i].target][c].age < TTL}
           len == Len(p.pendingOrder)
           n == FirstOf(fresh, len + 1) - 1
<1>1. Outdated(p) = n /\ PrunedPending(p) = PopPending(p, n)
  BY DEF PrunedPending, Outdated
<1>2. len \in Nat /\ DOMAIN p.pendingOrder = 1..len /\ fresh \in SUBSET (1..len)
  <2>1. p.pendingOrder \in Seq([target : Hash, bid : Backrun])
    BY PoolFields DEF Core
  <2>2. len \in Nat /\ DOMAIN p.pendingOrder = 1..len
    BY <2>1, LenProperties
  <2> QED
    BY <2>2
<1> HIDE DEF fresh, len
<1>3. n \in 0..len /\ \A i \in 1..n : i \notin fresh /\ i \in 1..len
  <2>1. CASE fresh = {}
    <3>1. FirstOf(fresh, len + 1) = len + 1
      BY <2>1 DEF FirstOf
    <3> QED
      BY <1>2, <2>1, <3>1
  <2>2. CASE fresh # {}
    <3>1. /\ FirstOf(fresh, len + 1) \in 1..len
          /\ \A j \in fresh : FirstOf(fresh, len + 1) <= j
      <4>1. len + 1 \in Nat
        BY <1>2
      <4> QED
        BY <1>2, <2>2, <4>1, FirstOfRange
    <3> QED
      BY <1>2, <3>1
  <2> QED
    BY <2>1, <2>2
<1>4. ASSUME NEW i \in 1..n, NEW c \in Named(p, i)
      PROVE  p.pending[p.pendingOrder[i].target][c].age = TTL
  <2> DEFINE t == p.pendingOrder[i].target
             a == p.pending[t][c].age
  <2>1. i \in DOMAIN p.pendingOrder /\ i \notin fresh
    BY <1>2, <1>3, <1>4
  <2>2. t \in Hash /\ c \in DOMAIN p.pending[t] /\ p.pending[t] \in Seq(PendingBid)
    BY <1>4, <2>1, NamedType, PoolFields DEF Core
  <2>3. a \in Age
    <3> DEFINE s == p.pending[t]
    <3> HIDE DEF t
    <3>1. s \in Seq(PendingBid) /\ c \in DOMAIN s
      BY <2>2
    <3> HIDE DEF s
    <3>2. s[c] \in PendingBid
      BY <3>1, LenProperties, ElementOfSeq
    <3> QED
      BY <3>2 DEF PendingBid, s
  <2>4. ~(a < TTL)
    BY <1>4, <2>1 DEF fresh
  <2> HIDE DEF a
  <2>5. a = TTL
    BY <2>3, <2>4, BoundAssumption DEF Age
  <2> QED
    BY <2>5 DEF a
<1> QED
  BY <1>1, <1>3, <1>4 DEF len

\* Pruning the bids keeps the core invariant, leaves the targets alone and
\* parks nothing.
LEMMA PrunedPendingProperties ==
    ASSUME NEW p, Core(p)
    PROVE  LET r == PrunedPending(p)
           IN  /\ Core(r) /\ SameTargets(r, p)
               /\ r.pendingCount <= p.pendingCount
               /\ NoNewBids(r, p)
<1>1. PICK n \in 0..Len(p.pendingOrder) : PrunedPending(p) = PopPending(p, n)
  BY PrunedPendingPops
<1> DEFINE r == PopPending(p, n)
<1>2. /\ Core(r) /\ SameTargets(r, p)
      /\ r.pendingCount <= p.pendingCount
      /\ r.pending = [t \in Hash |-> Without(p.pending[t], Popped(p, n)[t])]
  BY PopPendingProperties
<1>3. NoNewBids(r, p)
  BY <1>2, WithoutOfEmpty DEF NoNewBids
<1> QED
  BY <1>1, <1>2, <1>3

\* What prune returns is a number.
LEMMA ExpiredType ==
    ASSUME NEW p, Core(p)
    PROVE  Expired(p) \in Nat
<1> DEFINE q == PrunedCache(p)
<1>1. Core(q)
  BY PrunedCacheProperties
<1>2. Outdated(q) \in Nat
  <2> HIDE DEF q
  <2>1. Len(q.pendingOrder) \in Nat
    BY <1>1, PoolFields, LenProperties DEF Core
  <2> QED
    BY <1>1, <2>1, PrunedPendingPops
<1> QED
  BY <1>2, HitsType DEF Expired

\* prune keeps the invariant, adds nothing, and leaves a live entry at the
\* front of the cache queue.
LEMMA PrunedProperties ==
    ASSUME NEW p, Core(p)
    PROVE  LET r == Pruned(p)
           IN  /\ Core(r)
               /\ Cached(r) \subseteq Cached(p)
               /\ HeadLive(r)
               /\ r.pendingCount <= p.pendingCount
               /\ NoNewBids(r, p)
<1> DEFINE q == PrunedCache(p)
           r == PrunedPending(q)
<1>1. Pruned(p) = r
  BY DEF Pruned
<1>2. Core(q) /\ SameBids(q, p) /\ Cached(q) \subseteq Cached(p) /\ HeadLive(q)
  BY PrunedCacheProperties
<1> HIDE DEF q
<1>3. /\ Core(r) /\ SameTargets(r, q) /\ r.pendingCount <= q.pendingCount
      /\ NoNewBids(r, q)
  BY <1>2, PrunedPendingProperties
<1> HIDE DEF r
<1>4. Cached(r) \subseteq Cached(p) /\ HeadLive(r)
  BY <1>2, <1>3 DEF SameTargets, Cached, HeadLive
<1>5. r.pendingCount <= p.pendingCount /\ NoNewBids(r, p)
  BY <1>2, <1>3 DEF SameBids, NoNewBids
<1> QED
  BY <1>1, <1>3, <1>4, <1>5

-----------------------------------------------------------------------------
(* insert_cache.                                                           *)

\* insert_cache before eviction.
Cacheing(p, h) ==
    [p EXCEPT !.cache[h] = 0,
              !.cacheOrder = IF p.cache[h] = Absent THEN Append(@, h) ELSE @]

\* The first half of insert_cache: h is cached, and named by the queue.
LEMMA CacheingProperties ==
    ASSUME NEW p, Core(p), NEW h \in Hash
    PROVE  LET q == Cacheing(p, h)
           IN  /\ Core(q) /\ SameBids(q, p)
               /\ Cached(q) = Cached(p) \cup {h}
               /\ q.streamed = p.streamed
               /\ q.cacheOrder =
                    IF h \in Cached(p) THEN p.cacheOrder ELSE Append(p.cacheOrder, h)
<1> DEFINE q == Cacheing(p, h)
           c == [p.cache EXCEPT ![h] = 0]
           order == IF h \in Cached(p) THEN p.cacheOrder ELSE Append(p.cacheOrder, h)
<1>1. /\ p \in Pool
      /\ p.cache \in [Hash -> Age \cup {Absent}]
      /\ p.cacheOrder \in Seq(Hash)
      /\ p.streamed \in SUBSET Hash
  BY PoolFields DEF Core
<1>2. order = IF p.cache[h] = Absent THEN Append(p.cacheOrder, h) ELSE p.cacheOrder
  BY DEF Cached
<1>3. q = [p EXCEPT !.cache = c, !.cacheOrder = order]
  BY <1>1, <1>2 DEF Cacheing, Pool
<1>4. c \in [Hash -> Age \cup {Absent}] /\ order \in Seq(Hash)
  <2>1. Append(p.cacheOrder, h) \in Seq(Hash)
    BY <1>1, AppendProperties
  <2> QED
    BY <1>1, <2>1, AgeType
<1>5. ToSet(p.cacheOrder) \cup {h} \subseteq ToSet(order) \/ h \in Cached(p)
  <2> SUFFICES ASSUME h \notin Cached(p)
               PROVE  ToSet(p.cacheOrder) \cup {h} \subseteq ToSet(Append(p.cacheOrder, h))
    OBVIOUS
  <2> DEFINE s == p.cacheOrder
  <2>1. s \in Seq(Hash)
    BY <1>1
  <2> HIDE DEF s
  <2>2. /\ Append(s, h) \in Seq(Hash)
        /\ Len(s) \in Nat
        /\ DOMAIN Append(s, h) = 1..(Len(s) + 1) /\ DOMAIN s = 1..Len(s)
        /\ \A i \in 1..Len(s) : Append(s, h)[i] = s[i]
        /\ Append(s, h)[Len(s) + 1] = h
    BY <2>1, LenProperties, AppendProperties
  <2>3. ToSet(s) \subseteq ToSet(Append(s, h)) /\ h \in ToSet(Append(s, h))
    BY <2>2 DEF ToSet
  <2> QED
    BY <2>3 DEF s
<1> HIDE DEF c, order, q
<1>6. q \in Pool
  BY <1>1, <1>3, <1>4 DEF Pool
<1>7. /\ q.cache = c /\ q.cacheOrder = order
      /\ q.pending = p.pending /\ q.pendingOrder = p.pendingOrder
      /\ q.pendingCount = p.pendingCount /\ q.streamed = p.streamed
  BY <1>1, <1>3 DEF Pool
<1>8. Cached(q) = Cached(p) \cup {h}
  BY <1>1, <1>7, AgeType DEF Cached, c
<1>9. SameBids(q, p)
  BY <1>7 DEF SameBids
<1>10. Covered(q)
  <2>1. CASE h \in Cached(p)
    BY <1>7, <1>8, <2>1 DEF order, Covered, Core
  <2>2. CASE h \notin Cached(p)
    BY <1>5, <1>7, <1>8, <2>2 DEF Covered, Core
  <2> QED
    BY <2>1, <2>2
<1>11. Core(q)
  BY <1>6, <1>7, <1>8, <1>9, <1>10, CountedWhenSame DEF Core
<1> QED
  BY <1>7, <1>8, <1>9, <1>11 DEF q, order

\* insert_cache ends within capacity.  When prune has left a live entry at the
\* front of the queue, the newcomer is not what it evicts.
LEMMA InsertCacheProperties ==
    ASSUME NEW p, Core(p), NEW h \in Hash
    PROVE  LET r == InsertCache(p, h)
           IN  /\ Core(r) /\ SameBids(r, p)
               /\ Cached(r) \subseteq Cached(p) \cup {h}
               /\ Within(p) => Within(r)
               /\ HeadLive(p) /\ Within(p) => h \in Cached(r)
<1> DEFINE q == Cacheing(p, h)
           present == {i \in DOMAIN q.cacheOrder : q.cache[q.cacheOrder[i]] # Absent}
           n == FirstOf(present, Len(q.cacheOrder))
           r == InsertCache(p, h)
           over == Cardinality(Cached(q)) > CacheCap
<1>1. r = IF over THEN PopCache(q, n) ELSE q
  BY DEF InsertCache, Cacheing, OverCapacity
<1>2. /\ Core(q) /\ SameBids(q, p)
      /\ Cached(q) = Cached(p) \cup {h}
      /\ q.cacheOrder = IF h \in Cached(p) THEN p.cacheOrder ELSE Append(p.cacheOrder, h)
  BY CacheingProperties
<1> HIDE DEF q
<1>3. /\ CacheCap \in Nat /\ CacheCap >= 1
      /\ Cardinality(Cached(p)) \in Nat /\ IsFiniteSet(Cached(p))
      /\ Cardinality(Cached(q)) \in Nat
      /\ Cardinality(Cached(q)) =
            IF h \in Cached(p) THEN Cardinality(Cached(p)) ELSE Cardinality(Cached(p)) + 1
  <2>1. Cached(p) \in SUBSET Hash
    BY CachedType DEF Core
  <2>2. IsFiniteSet(Cached(p)) /\ Cardinality(Cached(p)) \in Nat
    BY <2>1, HashFinite
  <2>3. Cardinality(Cached(q)) =
            IF h \in Cached(p) THEN Cardinality(Cached(p)) ELSE Cardinality(Cached(p)) + 1
    BY <1>2, <2>2, FS_AddElement
  <2> QED
    BY <2>2, <2>3, CacheCapType
<1>4. CASE ~over
  <2>1. r = q
    BY <1>1, <1>4
  <2>2. Within(q)
    BY <1>3, <1>4 DEF Within
  <2> HIDE DEF r
  <2> QED
    BY <1>2, <2>1, <2>2 DEF r
<1>5. CASE over
  <2>1. r = PopCache(q, n)
    BY <1>1, <1>5
  <2>2. /\ q.cacheOrder \in Seq(Hash) /\ Len(q.cacheOrder) \in Nat
        /\ DOMAIN q.cacheOrder = 1..Len(q.cacheOrder)
    BY <1>2, PoolFields, LenProperties DEF Core
  <2>3. present # {}
    <3>1. Cached(q) # {}
      BY <1>2
    <3>2. PICK x \in Cached(q) : x \in ToSet(q.cacheOrder)
      BY <1>2, <3>1 DEF Core, Covered
    <3> QED
      BY <3>2 DEF ToSet, Cached
  <2>4. /\ n \in present /\ n \in 1..Len(q.cacheOrder)
        /\ \A j \in present : n <= j
    <3>1. present \in SUBSET Nat /\ present \in SUBSET (1..Len(q.cacheOrder))
      BY <2>2
    <3> HIDE DEF present
    <3> QED
      BY <2>3, <3>1, FirstOfLeast
  <2> DEFINE popped == {q.cacheOrder[i] : i \in 1..n}
  <2>5. /\ Core(r) /\ SameBids(r, q) /\ Cached(r) = Cached(q) \ popped
    <3>1. n \in 0..Len(q.cacheOrder)
      BY <2>2, <2>4
    <3> HIDE DEF n, r
    <3>2. LET s == PopCache(q, n)
          IN  Core(s) /\ SameBids(s, q) /\ Cached(s) = Cached(q) \ popped
      BY <1>2, <3>1, PopCacheProperties
    <3> QED
      BY <2>1, <3>2
  <2>6. q.cacheOrder[n] \in Cached(q) /\ q.cacheOrder[n] \in popped
    <3>1. q.cache[q.cacheOrder[n]] # Absent /\ n \in 1..Len(q.cacheOrder)
      BY <2>4
    <3> HIDE DEF n
    <3>2. q.cacheOrder[n] \in Hash
      BY <2>2, <3>1, ElementOfSeq
    <3>3. n \in 1..n
      BY <2>2, <3>1
    <3> QED
      BY <3>1, <3>2, <3>3 DEF Cached
  <2> HIDE DEF r
  <2>7. SameBids(r, p) /\ Cached(r) \subseteq Cached(p) \cup {h}
    BY <1>2, <2>5 DEF SameBids
  <2>8. ASSUME Within(p) PROVE Within(r)
    <3>1. Cached(q) \in SUBSET Hash
      BY <1>2, CachedType DEF Core
    <3>2. IsFiniteSet(Cached(q)) /\ IsFiniteSet(Cached(r)) /\ Cardinality(Cached(r)) \in Nat
      BY <2>5, <3>1, HashFinite
    <3>3. Cardinality(Cached(r)) <= Cardinality(Cached(q))
          /\ Cardinality(Cached(r)) # Cardinality(Cached(q))
      <4> HIDE DEF popped
      <4> QED
        BY <2>5, <2>6, <3>2, FS_Subset
    <3>4. Cardinality(Cached(q)) <= CacheCap + 1
      BY <1>3, <2>8 DEF Within
    <3> QED
      BY <1>3, <3>2, <3>3, <3>4 DEF Within
  <2>9. ASSUME HeadLive(p), Within(p) PROVE h \in Cached(r)
    <3>1. h \notin Cached(p)
      BY <1>3, <1>5, <2>9 DEF Within
    <3>2. q.cacheOrder = Append(p.cacheOrder, h)
      BY <1>2, <3>1
    <3>3. p.cacheOrder # <<>>
      <4> SUFFICES ASSUME p.cacheOrder = <<>> PROVE FALSE
        OBVIOUS
      <4>1. Cached(p) = {}
        BY DEF Core, Covered, ToSet
      <4>2. Cardinality(Cached(p)) = 0
        BY <4>1, FS_EmptySet
      <4> QED
        BY <1>3, <1>5, <4>2
    <3>4. p.cacheOrder \in Seq(Hash) /\ Len(p.cacheOrder) \in Nat \ {0}
      BY <3>3, PoolFields, EmptySeq DEF Core
    <3>5. q.cacheOrder[1] = p.cacheOrder[1] /\ p.cacheOrder[1] \in Hash
      BY <3>2, <3>4, AppendProperties, ElementOfSeq
    <3>6. p.cacheOrder[1] \in Cached(p)
      BY <2>9, <3>3, <3>5 DEF HeadLive, Cached
    <3>7. 1 \in present
      <4>1. q.cacheOrder[1] \in Cached(q)
        BY <1>2, <3>5, <3>6
      <4>2. 1 \in DOMAIN q.cacheOrder
        BY <2>2, <2>4
      <4> QED
        BY <4>1, <4>2 DEF Cached
    <3>8. n = 1
      BY <2>2, <2>4, <3>7
    <3>9. popped = {p.cacheOrder[1]}
      <4> HIDE DEF n
      <4>1. 1..n = {1}
        BY <3>8
      <4> QED
        BY <3>5, <4>1
    <3> HIDE DEF popped
    <3> QED
      BY <1>2, <2>5, <3>1, <3>6, <3>9
  <2> QED
    BY <2>5, <2>7, <2>8, <2>9 DEF r
<1> QED
  BY <1>4, <1>5

-----------------------------------------------------------------------------
(* Taking bids out of one vector, and parking a bid.                       *)

\* Taking bids out of one vector keeps the core invariant, when the count is
\* reduced by what was taken.
LEMMA TakenProperties ==
    ASSUME NEW p, Core(p), NEW t \in Hash, NEW gone \in SUBSET DOMAIN p.pending[t]
    PROVE  LET r == Taken(p, t, gone)
           IN  /\ Core(r) /\ SameTargets(r, p)
               /\ r.streamed = p.streamed
               /\ r.pending = [p.pending EXCEPT ![t] = Without(p.pending[t], gone)]
               /\ r.pendingOrder = p.pendingOrder
               /\ r.pendingCount = p.pendingCount - Cardinality(gone)
               /\ Cardinality(gone) \in Nat
<1> DEFINE P == p.pending
           Q == [P EXCEPT ![t] = Without(P[t], gone)]
           g == [u \in Hash |-> IF u = t THEN gone ELSE {}]
           r == Taken(p, t, gone)
<1>1. p \in Pool /\ P \in [Hash -> Seq(PendingBid)] /\ p.pendingCount \in Nat
  BY PoolFields DEF Core
<1>2. \A u \in Hash : P[u] \in Seq(PendingBid)
                     /\ Without(P[u], {}) = P[u]
                     /\ Without(P[u], gone) \in Seq(PendingBid)
  BY <1>1, WithoutNothing, WithoutType
<1>3. gone \in SUBSET Nat
  <2>1. P[t] \in Seq(PendingBid)
    BY <1>2
  <2>2. DOMAIN P[t] = 1..Len(P[t]) /\ Len(P[t]) \in Nat
    BY <2>1, LenProperties
  <2> QED
    BY <2>2
<1>4. /\ Q \in [Hash -> Seq(PendingBid)]
      /\ g \in [Hash -> SUBSET Nat]
      /\ \A u \in Hash : g[u] \subseteq DOMAIN P[u] /\ Q[u] = Without(P[u], g[u])
  <2>1. Q \in [Hash -> Seq(PendingBid)]
    BY <1>1, <1>2
  <2>2. g \in [Hash -> SUBSET Nat]
    BY <1>3
  <2>3. ASSUME NEW u \in Hash PROVE g[u] \subseteq DOMAIN P[u] /\ Q[u] = Without(P[u], g[u])
    <3>1. CASE u = t
      BY <1>1, <3>1
    <3>2. CASE u # t
      BY <1>1, <1>2, <3>2
    <3> QED
      BY <3>1, <3>2
  <2> QED
    BY <2>1, <2>2, <2>3
<1>5. Places(g) = {t} \X gone
  <2>1. \A x : x \in Places(g) <=> \E u \in Hash : x \in {u} \X g[u]
    BY DEF Places
  <2>2. \A u \in Hash : {u} \X g[u] = IF u = t THEN {t} \X gone ELSE {}
    OBVIOUS
  <2> HIDE DEF g
  <2> QED
    BY <2>1, <2>2
<1>6. Cardinality(Places(g)) = Cardinality(gone) /\ Cardinality(gone) \in Nat
  <2>1. P[t] \in Seq(PendingBid)
    BY <1>2
  <2> DEFINE k == Len(P[t])
  <2>2. DOMAIN P[t] = 1..k /\ k \in Int
    BY <2>1, LenProperties
  <2>3. gone \in SUBSET (1..k)
    BY <2>2
  <2> HIDE DEF k
  <2>4. IsFiniteSet(1..k)
    BY <2>2, FS_Interval
  <2>5. IsFiniteSet(gone) /\ Cardinality(gone) \in Nat
    BY <2>3, <2>4, FS_Subset, FS_CardinalityType
  <2>6. IsFiniteSet({t}) /\ Cardinality({t}) = 1
    BY FS_Singleton
  <2>7. Cardinality({t} \X gone) = 1 * Cardinality(gone)
    BY <2>5, <2>6, FS_Product
  <2>8. 1 * Cardinality(gone) = Cardinality(gone)
    BY <2>5
  <2> HIDE DEF g
  <2> QED
    BY <1>5, <2>5, <2>7, <2>8
<1>7. Slots(p) = SlotsOf(P)
  BY DEF Slots, SlotsOf
<1>8. r = [p EXCEPT !.pending = Q, !.pendingCount = p.pendingCount - Cardinality(gone)]
  BY <1>1 DEF Taken
<1> HIDE DEF g, r, P, Q
<1>9. /\ Cardinality(SlotsOf(Q)) = Cardinality(SlotsOf(P)) - Cardinality(Places(g))
      /\ Cardinality(SlotsOf(Q)) \in Nat
  BY <1>1, <1>4, SlotsWithout, SlotsFinite
<1>10. p.pendingCount - Cardinality(gone) = Cardinality(SlotsOf(Q))
  BY <1>6, <1>7, <1>9 DEF Core, Counted
<1>11. r \in Pool
  <2> DEFINE c == p.pendingCount - Cardinality(gone)
  <2>1. c \in Nat /\ r = [p EXCEPT !.pending = Q, !.pendingCount = c]
    BY <1>8, <1>9, <1>10
  <2> HIDE DEF c
  <2> QED
    BY <1>1, <1>4, <2>1 DEF Pool
<1>12. /\ r.pending = Q /\ r.pendingOrder = p.pendingOrder
       /\ r.pendingCount = p.pendingCount - Cardinality(gone)
       /\ SameTargets(r, p) /\ r.streamed = p.streamed
  BY <1>1, <1>8 DEF Pool, SameTargets
<1>13. Counted(r)
  BY <1>10, <1>12 DEF Counted, Slots, SlotsOf
<1>14. Core(r)
  BY <1>11, <1>12, <1>13, CoreWhenSameTargets
<1> QED
  BY <1>6, <1>12, <1>14 DEF r, P, Q

\* The first half of push_pending: one more bid, one more entry.
LEMMA ParkingProperties ==
    ASSUME NEW p, Core(p), NEW b \in Backrun
    PROVE  LET q == Parking(p, b)
               t == Target[b]
           IN  /\ Core(q) /\ SameTargets(q, p)
               /\ q.streamed = p.streamed
               /\ q.pendingCount = p.pendingCount + 1
               /\ q.pending =
                    [p.pending EXCEPT ![t] = Append(p.pending[t], [hash |-> b, age |-> 0])]
               /\ q.pendingOrder = Append(p.pendingOrder, [target |-> t, bid |-> b])
<1> DEFINE t == Target[b]
           P == p.pending
           bid == [hash |-> b, age |-> 0]
           s == P[t]
           Q == [P EXCEPT ![t] = Append(s, bid)]
           entry == [target |-> t, bid |-> b]
           order == Append(p.pendingOrder, entry)
           q == Parking(p, b)
<1>1. /\ p \in Pool /\ P \in [Hash -> Seq(PendingBid)] /\ p.pendingCount \in Nat
      /\ p.pendingOrder \in Seq([target : Hash, bid : Backrun])
  BY PoolFields DEF Core
<1>2. t \in Hash /\ bid \in PendingBid /\ entry \in [target : Hash, bid : Backrun]
  BY TargetAssumption, AgeType DEF PendingBid
<1>3. s \in Seq(PendingBid) /\ order \in Seq([target : Hash, bid : Backrun])
  <2> HIDE DEF entry
  <2> QED
    BY <1>1, <1>2, AppendProperties
<1>4. q = [p EXCEPT !.pending = Q, !.pendingOrder = order, !.pendingCount = p.pendingCount + 1]
  BY <1>1 DEF Parking
<1> HIDE DEF bid, entry, q, t
<1>5. /\ Append(s, bid) \in Seq(PendingBid)
      /\ Len(s) \in Nat /\ DOMAIN s = 1..Len(s)
      /\ DOMAIN Append(s, bid) = 1..(Len(s) + 1)
  <2> HIDE DEF s
  <2> QED
    BY <1>2, <1>3, LenProperties, AppendProperties
<1>6. Q \in [Hash -> Seq(PendingBid)]
  BY <1>1, <1>2, <1>5
<1>7. \A u \in Hash : DOMAIN Q[u] = IF u = t THEN 1..(Len(s) + 1) ELSE DOMAIN P[u]
  BY <1>1, <1>2, <1>5
<1> DEFINE place == <<t, Len(s) + 1>>
<1>8. SlotsOf(Q) = SlotsOf(P) \cup {place} /\ place \notin SlotsOf(P)
  <2>1. \A x : x \in SlotsOf(Q) <=> \E u \in Hash : \E i \in DOMAIN Q[u] : x = <<u, i>>
    BY SlotsElements
  <2>2. \A x : x \in SlotsOf(P) <=> \E u \in Hash : \E i \in DOMAIN P[u] : x = <<u, i>>
    BY SlotsElements
  <2>3. ASSUME NEW x \in SlotsOf(Q) PROVE x \in SlotsOf(P) \cup {place}
    <3>1. PICK u \in Hash : \E i \in DOMAIN Q[u] : x = <<u, i>>
      BY <2>1
    <3>2. PICK i \in DOMAIN Q[u] : x = <<u, i>>
      BY <3>1
    <3>3. i \in DOMAIN P[u] \/ (u = t /\ i = Len(s) + 1)
      <4>1. CASE u = t
        BY <1>5, <1>7, <4>1
      <4>2. CASE u # t
        BY <1>7, <4>2
      <4> QED
        BY <4>1, <4>2
    <3> QED
      BY <2>2, <3>2, <3>3
  <2>4. ASSUME NEW x \in SlotsOf(P) PROVE x \in SlotsOf(Q)
    <3>1. PICK u \in Hash : \E i \in DOMAIN P[u] : x = <<u, i>>
      BY <2>2
    <3>2. PICK i \in DOMAIN P[u] : x = <<u, i>>
      BY <3>1
    <3>3. i \in DOMAIN Q[u]
      <4>1. CASE u = t
        BY <1>5, <1>7, <3>2, <4>1
      <4>2. CASE u # t
        BY <1>7, <3>2, <4>2
      <4> QED
        BY <4>1, <4>2
    <3> QED
      BY <2>1, <3>2, <3>3
  <2>5. place \in SlotsOf(Q)
    <3>1. Len(s) + 1 \in DOMAIN Q[t]
      BY <1>2, <1>5, <1>7
    <3> QED
      BY <1>2, <2>1, <3>1
  <2>6. place \notin SlotsOf(P)
    <3>1. Len(s) + 1 \notin DOMAIN P[t]
      BY <1>5
    <3> QED
      BY <2>2, <3>1
  <2> QED
    BY <2>3, <2>4, <2>5, <2>6
<1> HIDE DEF place, Q, P, s, order
<1>9. /\ Cardinality(SlotsOf(Q)) = Cardinality(SlotsOf(P)) + 1
      /\ Cardinality(SlotsOf(P)) \in Nat
  BY <1>1, <1>8, SlotsFinite, FS_AddElement
<1>10. q \in Pool
  <2> DEFINE c == p.pendingCount + 1
  <2>1. c \in Nat /\ q = [p EXCEPT !.pending = Q, !.pendingOrder = order, !.pendingCount = c]
    BY <1>1, <1>4
  <2> HIDE DEF c
  <2> QED
    BY <1>1, <1>3, <1>6, <2>1 DEF Pool, order
<1>11. /\ q.pending = Q /\ q.pendingOrder = order
       /\ q.pendingCount = p.pendingCount + 1
       /\ SameTargets(q, p) /\ q.streamed = p.streamed
  BY <1>1, <1>4 DEF Pool, SameTargets
<1>12. Counted(q)
  <2>1. p.pendingCount = Cardinality(SlotsOf(P))
    BY DEF Core, Counted, Slots, SlotsOf, P
  <2>2. q.pendingCount = Cardinality(SlotsOf(Q))
    BY <1>9, <1>11, <2>1
  <2> QED
    BY <1>11, <2>2 DEF Counted, Slots, SlotsOf
<1>13. Core(q)
  BY <1>10, <1>11, <1>12, CoreWhenSameTargets
<1> QED
  BY <1>11, <1>13 DEF q, Q, P, s, order, entry, bid, t

\* push_pending pops no more than there is.
LEMMA OverflowRange ==
    ASSUME NEW q \in Pool
    PROVE  Overflow(q) \in 0..Len(q.pendingOrder)
<1> DEFINE len == Len(q.pendingOrder)
           present == {i \in DOMAIN q.pendingOrder : Named(q, i) # {}}
<1>1. len \in Nat /\ DOMAIN q.pendingOrder = 1..len
  BY PoolFields, LenProperties
<1>2. present \in SUBSET (1..len) /\ Overflow(q) = FirstOf(present, len)
  BY <1>1 DEF Overflow
<1> HIDE DEF present, len
<1>3. CASE present = {}
  BY <1>1, <1>2, <1>3 DEF FirstOf, len
<1>4. CASE present # {}
  BY <1>1, <1>2, <1>4, FirstOfRange DEF len
<1> QED
  BY <1>3, <1>4

\* What push_pending returns is a number.
LEMMA EvictedType ==
    ASSUME NEW p, Core(p), NEW b \in Backrun
    PROVE  Evicted(p, b) \in Nat
<1>1. Overflow(Parking(p, b)) \in Nat
  <2>1. Parking(p, b) \in Pool
    BY ParkingProperties DEF Core
  <2>2. Len(Parking(p, b).pendingOrder) \in Nat
    BY <2>1, PoolFields, LenProperties
  <2> QED
    BY <2>1, <2>2, OverflowRange
<1>2. Hits(Parking(p, b), Overflow(Parking(p, b))) \in Nat
  BY <1>1, HitsType
<1> QED
  BY <1>2 DEF Evicted

\* push_pending keeps the core invariant, parks at most one more bid, and
\* nothing for another target.
LEMMA PushPendingProperties ==
    ASSUME NEW p, Core(p), NEW b \in Backrun
    PROVE  LET r == PushPending(p, b)
           IN  /\ Core(r) /\ SameTargets(r, p)
               /\ r.streamed = p.streamed
               /\ r.pendingCount <= p.pendingCount + 1
               /\ \A u \in Hash \ {Target[b]} :
                    p.pending[u] = <<>> => r.pending[u] = <<>>
<1> DEFINE q == Parking(p, b)
           present == {i \in DOMAIN q.pendingOrder : Named(q, i) # {}}
           n == FirstOf(present, Len(q.pendingOrder))
           r == PushPending(p, b)
<1>1. r = IF OverCapacity(q.pendingCount, PendingCap) THEN PopPending(q, n) ELSE q
  BY DEF PushPending, Overflow
<1>2. /\ Core(q) /\ SameTargets(q, p) /\ q.streamed = p.streamed
      /\ q.pendingCount = p.pendingCount + 1
      /\ p.pending \in [Hash -> Seq(PendingBid)]
      /\ p.pendingCount \in Nat
      /\ q.pending = [p.pending EXCEPT ![Target[b]] =
                        Append(p.pending[Target[b]], [hash |-> b, age |-> 0])]
  BY ParkingProperties, PoolFields DEF Core
<1>3. \A u \in Hash \ {Target[b]} : q.pending[u] = p.pending[u]
  BY <1>2
<1>4. n \in 0..Len(q.pendingOrder)
  BY <1>2, OverflowRange DEF Overflow, Core
<1> HIDE DEF q, n, r
<1>5. CASE ~OverCapacity(q.pendingCount, PendingCap)
  <2>1. r = q
    BY <1>1, <1>5
  <2> QED
    BY <1>2, <1>3, <2>1 DEF r
<1>6. CASE OverCapacity(q.pendingCount, PendingCap)
  <2>1. r = PopPending(q, n)
    BY <1>1, <1>6
  <2>2. /\ Core(r) /\ SameTargets(r, q) /\ r.streamed = q.streamed
        /\ r.pendingCount <= q.pendingCount
        /\ r.pending = [t \in Hash |-> Without(q.pending[t], Popped(q, n)[t])]
    BY <1>2, <1>4, <2>1, PopPendingProperties
  <2>3. \A u \in Hash : q.pending[u] = <<>> => r.pending[u] = <<>>
    BY <2>2, WithoutOfEmpty
  <2>4. SameTargets(r, p)
    BY <1>2, <2>2 DEF SameTargets
  <2> QED
    BY <1>2, <1>3, <2>2, <2>3, <2>4 DEF r
<1> QED
  BY <1>5, <1>6

-----------------------------------------------------------------------------
(* Emitting a target, forgetting, and the clock.                           *)

\* Marking a cached target keeps the core invariant.
LEMMA StreamingProperties ==
    ASSUME NEW p, Core(p), NEW t \in Hash
    PROVE  LET r == Streaming(p, t)
           IN  Core(r) /\ SameTargets(r, p) /\ SameBids(r, p)
<1> DEFINE r == Streaming(p, t)
<1>1. CASE p.cache[t] = Absent
  BY <1>1 DEF Streaming, SameTargets, SameBids
<1>2. CASE p.cache[t] # Absent
  <2> DEFINE s == p.streamed \cup {t}
  <2>1. r = [p EXCEPT !.streamed = s]
    BY <1>2 DEF Streaming
  <2>2. p \in Pool /\ s \in SUBSET Hash /\ s \subseteq Cached(p)
    BY <1>2, PoolFields DEF Core, Cached
  <2> HIDE DEF r, s
  <2>3. r \in Pool
    BY <2>1, <2>2 DEF Pool
  <2>4. SameTargets(r, p) /\ SameBids(r, p) /\ r.streamed = s
    BY <2>1, <2>2 DEF Pool, SameTargets, SameBids
  <2>5. Cached(r) = Cached(p)
    BY <2>4 DEF SameTargets, Cached
  <2>6. Counted(r)
    BY <2>4, CountedWhenSame DEF Core
  <2>7. Core(r)
    BY <2>2, <2>3, <2>4, <2>5, <2>6 DEF Core, Covered, SameTargets
  <2> QED
    BY <2>4, <2>7 DEF r
<1> QED
  BY <1>1, <1>2

\* emit_opportunity_once answers with a list of reinjections.
LEMMA OpportunityType ==
    ASSUME NEW p, NEW t \in Hash
    PROVE  Opportunity(p, t) \in Seq(Reinjection)
<1> DEFINE e == [hash |-> t, class |-> "opportunity", group |-> t]
<1>1. e \in Reinjection
  BY DEF Reinjection
<1> HIDE DEF e
<1>2. <<e>> \in Seq(Reinjection) /\ <<>> \in Seq(Reinjection)
  BY <1>1, EmptySeq
<1>3. Opportunity(p, t) = <<e>> \/ Opportunity(p, t) = <<>>
  BY DEF Opportunity, e
<1> QED
  BY <1>2, <1>3

\* Unparking removes at most one copy of the bid.
LEMMA UnparkedProperties ==
    ASSUME NEW p, Core(p), NEW b \in Backrun
    PROVE  LET r == Unparked(p, b)
           IN  /\ Core(r) /\ SameTargets(r, p)
               /\ r.streamed = p.streamed
               /\ r.pendingCount <= p.pendingCount
               /\ NoNewBids(r, p)
<1> DEFINE t == Target[b]
           copies == Copies(p, t, b)
           gone == {FirstOf(copies, 0)}
<1>0. p \in Pool /\ p.pendingCount \in Nat /\ t \in Hash
  BY PoolFields, TargetAssumption DEF Core
<1>1. CASE copies = {}
  <2>1. Unparked(p, b) = p
    BY <1>1 DEF Unparked
  <2> QED
    BY <1>0, <2>1 DEF SameTargets, NoNewBids
<1>2. CASE copies # {}
  <2>1. Unparked(p, b) = Taken(p, t, gone)
    BY <1>2 DEF Unparked
  <2>2. gone \in SUBSET DOMAIN p.pending[t]
    <3>1. p.pending[t] \in Seq(PendingBid)
      BY <1>0, PoolFields
    <3>2. DOMAIN p.pending[t] = 1..Len(p.pending[t]) /\ Len(p.pending[t]) \in Nat
      BY <3>1, LenProperties
    <3>3. copies \subseteq DOMAIN p.pending[t]
      BY DEF Copies
    <3>4. copies \in SUBSET Nat
      BY <3>2, <3>3
    <3> HIDE DEF copies
    <3>5. FirstOf(copies, 0) \in copies
      BY <1>2, <3>4, FirstOfLeast
    <3> QED
      BY <3>3, <3>5
  <2> DEFINE r == Taken(p, t, gone)
  <2> HIDE DEF gone, t
  <2>3. /\ Core(r) /\ SameTargets(r, p) /\ r.streamed = p.streamed
        /\ r.pending = [p.pending EXCEPT ![t] = Without(p.pending[t], gone)]
        /\ r.pendingCount = p.pendingCount - Cardinality(gone)
        /\ Cardinality(gone) \in Nat
    BY <1>0, <2>2, TakenProperties
  <2> HIDE DEF r
  <2>4. r.pendingCount <= p.pendingCount
    BY <1>0, <2>3
  <2>5. NoNewBids(r, p)
    <3>1. p.pending \in [Hash -> Seq(PendingBid)]
      BY <1>0, PoolFields
    <3> QED
      BY <1>0, <2>3, <3>1, WithoutOfEmpty DEF NoNewBids
  <2> QED
    BY <2>1, <2>3, <2>4, <2>5 DEF r
<1> QED
  BY <1>1, <1>2

\* Removing every position leaves nothing.
LEMMA WithoutAll ==
    ASSUME NEW T, NEW s \in Seq(T)
    PROVE  Without(s, DOMAIN s) = <<>>
<1> DEFINE w == Without(s, DOMAIN s)
<1>1. Kept(s, DOMAIN s) = {}
  BY DEF Kept
<1>2. w \in Seq(T) /\ Len(w) = 0
  BY <1>1, WithoutType, FS_EmptySet
<1> QED
  BY <1>2, EmptySeq

\* forget begins with the entry of the hash itself.
EntryForgotten(p, h) == [p EXCEPT !.cache[h] = Absent, !.streamed = @ \ {h}]

LEMMA EntryForgottenProperties ==
    ASSUME NEW p, Core(p), NEW h \in Hash
    PROVE  LET q == EntryForgotten(p, h)
           IN  /\ Core(q) /\ SameBids(q, p)
               /\ Cached(q) = Cached(p) \ {h}
<1> DEFINE c == [p.cache EXCEPT ![h] = Absent]
           s == p.streamed \ {h}
           q == EntryForgotten(p, h)
<1>1. /\ p \in Pool /\ p.cache \in [Hash -> Age \cup {Absent}]
      /\ q = [p EXCEPT !.cache = c, !.streamed = s]
  BY PoolFields DEF Core, EntryForgotten
<1>2. c \in [Hash -> Age \cup {Absent}] /\ s \in SUBSET Hash
  BY <1>1, PoolFields
<1> HIDE DEF q
<1>3. /\ q.cache = c /\ q.cacheOrder = p.cacheOrder /\ q.streamed = s
      /\ SameBids(q, p)
  BY <1>1 DEF Pool, SameBids
<1>4. q \in Pool
  <2> HIDE DEF c, s
  <2> QED
    BY <1>1, <1>2 DEF Pool
<1>5. Cached(q) = Cached(p) \ {h}
  BY <1>1, <1>3 DEF Cached
<1>6. Counted(q)
  BY <1>3, CountedWhenSame DEF Core
<1>7. Core(q)
  BY <1>3, <1>4, <1>5, <1>6 DEF Core, Covered
<1> QED
  BY <1>3, <1>5, <1>7 DEF q

\* forget removes the entry and the bids that wait for it, and adds nothing.
LEMMA ForgottenProperties ==
    ASSUME NEW p, Core(p), NEW h \in Hash
    PROVE  LET r == Forgotten(p, h)
           IN  /\ Core(r)
               /\ Cached(r) = Cached(p) \ {h}
               /\ r.pendingCount <= p.pendingCount
               /\ NoNewBids(r, p)
<1> DEFINE q == EntryForgotten(p, h)
           d == DOMAIN q.pending[h]
           t == Taken(q, h, d)
           r == Forgotten(p, h)
<1>1. r = IF h \in Backrun THEN Unparked(t, h) ELSE t
  BY DEF Forgotten, EntryForgotten
<1>2. p.pendingCount \in Nat /\ p.pending \in [Hash -> Seq(PendingBid)]
  BY PoolFields DEF Core
<1>3. Core(q) /\ SameBids(q, p) /\ Cached(q) = Cached(p) \ {h}
  BY EntryForgottenProperties
<1> HIDE DEF q, r, t
<1>4. /\ Core(t) /\ SameTargets(t, q)
      /\ t.pending = [q.pending EXCEPT ![h] = Without(q.pending[h], d)]
      /\ t.pendingCount = q.pendingCount - Cardinality(d)
      /\ Cardinality(d) \in Nat
  <2>1. d \in SUBSET DOMAIN q.pending[h]
    OBVIOUS
  <2> HIDE DEF d
  <2> QED
    BY <1>3, <2>1, TakenProperties DEF t
<1>5. /\ Cached(t) = Cached(p) \ {h}
      /\ t.pendingCount <= p.pendingCount /\ t.pendingCount \in Nat
      /\ NoNewBids(t, p)
  <2>1. Cached(t) = Cached(p) \ {h}
    BY <1>3, <1>4 DEF SameTargets, Cached
  <2>2. t.pendingCount \in Nat
    BY <1>4, PoolFields DEF Core
  <2>3. t.pendingCount <= p.pendingCount
    <3> HIDE DEF d
    <3> QED
      BY <1>2, <1>3, <1>4, <2>2 DEF SameBids
  <2>4. NoNewBids(t, p)
    <3> HIDE DEF d
    <3> QED
      BY <1>2, <1>3, <1>4, WithoutOfEmpty DEF SameBids, NoNewBids
  <2> QED
    BY <2>1, <2>2, <2>3, <2>4
<1>6. CASE h \in Backrun
  <2>1. r = Unparked(t, h)
    BY <1>1, <1>6
  <2>2. /\ Core(r) /\ SameTargets(r, t) /\ r.pendingCount <= t.pendingCount
        /\ NoNewBids(r, t)
    BY <1>4, <1>6, <2>1, UnparkedProperties
  <2>3. r.pendingCount \in Nat
    BY <2>2, PoolFields DEF Core
  <2>4. Cached(r) = Cached(p) \ {h} /\ r.pendingCount <= p.pendingCount
    BY <1>2, <1>5, <2>2, <2>3 DEF SameTargets, Cached
  <2>5. NoNewBids(r, p)
    BY <1>5, <2>2 DEF NoNewBids
  <2> QED
    BY <2>2, <2>4, <2>5 DEF r
<1>7. CASE h \notin Backrun
  BY <1>1, <1>4, <1>5, <1>7 DEF r
<1> QED
  BY <1>6, <1>7

\* Growing older keeps an age an age and Absent absent.
LEMMA OlderType ==
    ASSUME NEW a \in Age \cup {Absent}
    PROVE  Older(a) \in Age \cup {Absent} /\ (Older(a) = Absent <=> a = Absent)
BY BoundAssumption DEF Older, Age, Absent

\* The clock changes ages only.
LEMMA AgedProperties ==
    ASSUME NEW p, Core(p)
    PROVE  LET r == Aged(p)
           IN  /\ Core(r)
               /\ Cached(r) = Cached(p)
               /\ r.cacheOrder = p.cacheOrder
               /\ r.streamed = p.streamed
               /\ r.pendingCount = p.pendingCount
               /\ NoNewBids(r, p)
<1> DEFINE c == [h \in Hash |-> Older(p.cache[h])]
           vector(s) == [i \in DOMAIN s |-> [s[i] EXCEPT !.age = Older(@)]]
           Q == [t \in Hash |-> vector(p.pending[t])]
           r == Aged(p)
<1>1. /\ p \in Pool
      /\ p.cache \in [Hash -> Age \cup {Absent}]
      /\ p.pending \in [Hash -> Seq(PendingBid)]
  BY PoolFields DEF Core
<1>2. r = [p EXCEPT !.cache = c, !.pending = Q]
  BY DEF Aged
<1>3. c \in [Hash -> Age \cup {Absent}]
  BY <1>1, OlderType
<1>4. ASSUME NEW s \in Seq(PendingBid)
      PROVE  /\ vector(s) \in Seq(PendingBid)
             /\ DOMAIN vector(s) = DOMAIN s
             /\ Len(vector(s)) = Len(s)
  <2>1. Len(s) \in Nat /\ DOMAIN s = 1..Len(s)
    BY LenProperties
  <2>2. ASSUME NEW i \in 1..Len(s) PROVE [s[i] EXCEPT !.age = Older(@)] \in PendingBid
    <3> DEFINE e == s[i]
    <3>1. e \in PendingBid
      BY ElementOfSeq
    <3> HIDE DEF e
    <3>2. e.age \in Age
      BY <3>1 DEF PendingBid
    <3>3. Older(e.age) \in Age
      BY <3>2, OlderType, AgeType
    <3>4. [e EXCEPT !.age = Older(e.age)] \in PendingBid
      BY <3>1, <3>3 DEF PendingBid
    <3> QED
      BY <3>4 DEF e
  <2>3. vector(s) \in [1..Len(s) -> PendingBid]
    BY <2>1, <2>2
  <2>4. DOMAIN vector(s) = 1..Len(s)
    BY <2>1
  <2> HIDE DEF vector
  <2>5. vector(s) \in Seq(PendingBid)
    BY <2>1, <2>3, SeqDef
  <2>6. DOMAIN vector(s) = 1..Len(vector(s)) /\ Len(vector(s)) \in Nat
    BY <2>5, LenProperties
  <2> QED
    BY <2>1, <2>4, <2>5, <2>6
<1> HIDE DEF vector
<1>5. /\ Q \in [Hash -> Seq(PendingBid)]
      /\ \A t \in Hash : DOMAIN Q[t] = DOMAIN p.pending[t]
      /\ \A t \in Hash : Len(Q[t]) = Len(p.pending[t])
  BY <1>1, <1>4
<1> HIDE DEF c, Q, r
<1>6. r \in Pool
  BY <1>1, <1>2, <1>3, <1>5 DEF Pool
<1>7. /\ r.cache = c /\ r.pending = Q /\ r.cacheOrder = p.cacheOrder
      /\ r.streamed = p.streamed /\ r.pendingCount = p.pendingCount
  BY <1>1, <1>2 DEF Pool
<1>8. Cached(r) = Cached(p)
  <2>1. \A h \in Hash : r.cache[h] = Older(p.cache[h]) /\ p.cache[h] \in Age \cup {Absent}
    BY <1>1, <1>7 DEF c
  <2> QED
    BY <2>1, OlderType DEF Cached
<1>9. Counted(r)
  <2>1. Slots(r) = Slots(p)
    BY <1>5, <1>7 DEF Slots
  <2> QED
    BY <1>7, <2>1 DEF Core, Counted
<1>10. Core(r)
  BY <1>6, <1>7, <1>8, <1>9 DEF Core, Covered
<1>11. NoNewBids(r, p)
  <2> SUFFICES ASSUME NEW t \in Hash, p.pending[t] = <<>> PROVE Q[t] = <<>>
    BY <1>7 DEF NoNewBids
  <2>1. Q[t] \in Seq(PendingBid) /\ Len(Q[t]) = 0
    BY <1>5, EmptySeq
  <2> QED
    BY <2>1, EmptySeq
<1> QED
  BY <1>7, <1>8, <1>10, <1>11 DEF r

-----------------------------------------------------------------------------
(* observe.                                                                *)

\* No bid waits for a vanilla transaction that is cached, but for those of S.
NoMissedBut(S, p) == \A t \in Vanilla \ S : t \in Cached(p) => p.pending[t] = <<>>

\* What an outcome must look like.
Sound(r) ==
    /\ Core(r.pool) /\ Within(r.pool) /\ NoMissedBut({}, r.pool)
    /\ r.reinjections \in Seq(Reinjection)
    /\ r.matched \in Nat /\ r.pended \in Nat /\ r.evicted \in Nat

\* A step that leaves the cache alone leaves it within its capacity.
LEMMA WithinWhenSame ==
    ASSUME NEW p, NEW r, Within(p), SameTargets(r, p)
    PROVE  Within(r) /\ Cached(r) = Cached(p)
BY DEF Within, SameTargets, Cached

\* The reinjection of a bid is a reinjection.
LEMMA BidReinjectionType ==
    ASSUME NEW b \in Backrun, NEW t \in Hash
    PROVE  BidReinjection(b, t) \in Reinjection
BY DEF BidReinjection, Reinjection, Hash

\* Observing a lead-block bid changes nothing and answers with one reinjection.
LEMMA ObserveTobSound ==
    ASSUME NEW q, Core(q), Within(q), NoMissedBut({}, q), NEW h \in Hash
    PROVE  Sound(ObserveTob(q, h)) /\ ObserveTob(q, h).pool = q
<1> DEFINE e == [hash |-> h, class |-> IF h \in ZeroScore THEN "fallback" ELSE "tob",
                 group |-> h]
<1>1. e \in Reinjection
  BY DEF Reinjection
<1>2. ObserveTob(q, h) = Result(q, <<e>>, 0, 0, 0)
  BY DEF ObserveTob
<1> HIDE DEF e
<1>3. <<e>> \in Seq(Reinjection)
  BY <1>1
<1> QED
  BY <1>2, <1>3 DEF Result, Sound

\* Observing a backrun bid keeps the invariant, whether it is paired or parked.
LEMMA ObserveBackrunSound ==
    ASSUME NEW q, Core(q), Within(q), NoMissedBut({}, q), NEW b \in Backrun
    PROVE  Sound(ObserveBackrun(q, b)) /\ SameTargets(ObserveBackrun(q, b).pool, q)
<1> DEFINE t == Target[b]
           parked == PushPending(q, b)
           streaming == Streaming(q, t)
           sends == Append(Opportunity(q, t), BidReinjection(b, t))
           r == ObserveBackrun(q, b)
<1>0. t \in Hash /\ q \in Pool /\ q.pendingCount \in Nat
  BY TargetAssumption, PoolFields DEF Core
<1>1. CASE q.cache[t] # Absent
  <2>1. r = Result(streaming, sends, 1, 0, 0)
    BY <1>1 DEF ObserveBackrun
  <2>2. Core(streaming) /\ SameTargets(streaming, q) /\ SameBids(streaming, q)
    <3> HIDE DEF t
    <3> QED
      BY <1>0, StreamingProperties
  <2>3. sends \in Seq(Reinjection)
    BY <1>0, BidReinjectionType, OpportunityType, AppendProperties
  <2> HIDE DEF streaming, sends, r
  <2>4. Within(streaming) /\ NoMissedBut({}, streaming)
    BY <2>2, WithinWhenSame DEF NoMissedBut, SameBids
  <2> QED
    BY <2>1, <2>2, <2>3, <2>4 DEF Result, Sound, r
<1>2. CASE q.cache[t] = Absent
  <2>1. r = Result(parked, <<>>, 0, 1, Evicted(q, b))
    BY <1>2 DEF ObserveBackrun
  <2>2. /\ Core(parked) /\ SameTargets(parked, q)
        /\ \A u \in Hash \ {t} : q.pending[u] = <<>> => parked.pending[u] = <<>>
    BY PushPendingProperties
  <2> HIDE DEF parked, r
  <2>4. Evicted(q, b) \in Nat
    BY EvictedType
  <2>5. Within(parked) /\ Cached(parked) = Cached(q)
    BY <2>2, WithinWhenSame
  <2>6. NoMissedBut({}, parked)
    <3>1. t \notin Cached(q)
      BY <1>2 DEF Cached
    <3>2. Vanilla \subseteq Hash
      BY DEF Hash
    <3> QED
      BY <2>2, <2>5, <3>1, <3>2 DEF NoMissedBut
  <2>7. <<>> \in Seq(Reinjection)
    BY EmptySeq
  <2> QED
    BY <2>1, <2>2, <2>4, <2>5, <2>6, <2>7 DEF Result, Sound, r
<1> QED
  BY <1>1, <1>2

\* A vanilla transaction flushes what waits for it, so what may have been
\* missed when its entry was inserted is missed no longer.
LEMMA ObserveVanillaSound ==
    ASSUME NEW q, Core(q), Within(q), NEW h \in Vanilla, NoMissedBut({h}, q)
    PROVE  Sound(ObserveVanilla(q, h)) /\ SameTargets(ObserveVanilla(q, h).pool, q)
<1> DEFINE bids == q.pending[h]
           d == DOMAIN bids
           flushed == Taken(q, h, d)
           streaming == Streaming(flushed, h)
           sends == [i \in d |-> BidReinjection(bids[i].hash, h)]
           all == Opportunity(q, h) \o sends
           r == ObserveVanilla(q, h)
<1>0. h \in Hash /\ q \in Pool /\ q.pending \in [Hash -> Seq(PendingBid)]
  BY PoolFields DEF Core, Hash
<1>1. bids \in Seq(PendingBid) /\ Len(bids) \in Nat /\ d = 1..Len(bids)
  BY <1>0, LenProperties
<1>2. CASE bids = <<>>
  <2>1. r = Result(q, <<>>, 0, 0, 0)
    BY <1>2 DEF ObserveVanilla
  <2>2. NoMissedBut({}, q)
    BY <1>2 DEF NoMissedBut
  <2>3. <<>> \in Seq(Reinjection)
    BY EmptySeq
  <2> HIDE DEF r
  <2> QED
    BY <2>1, <2>2, <2>3 DEF Result, Sound, SameTargets, r
<1>3. CASE bids # <<>>
  <2>1. r = Result(streaming, all, Len(bids), 0, 0)
    BY <1>3 DEF ObserveVanilla
  <2>2. /\ Core(flushed) /\ SameTargets(flushed, q)
        /\ flushed.pending = [q.pending EXCEPT ![h] = Without(q.pending[h], d)]
    <3>1. d \in SUBSET DOMAIN q.pending[h]
      OBVIOUS
    <3>2. h \in Hash
      BY <1>0
    <3> HIDE DEF d, bids
    <3>3. LET s == Taken(q, h, d)
          IN  /\ Core(s) /\ SameTargets(s, q)
              /\ s.pending = [q.pending EXCEPT ![h] = Without(q.pending[h], d)]
      BY <3>1, <3>2, TakenProperties
    <3> QED
      BY <3>3
  <2>3. Without(q.pending[h], d) = <<>>
    BY <1>1, WithoutAll
  <2>4. flushed.pending[h] = <<>> /\ \A u \in Hash \ {h} : flushed.pending[u] = q.pending[u]
    <3> HIDE DEF flushed, d
    <3> QED
      BY <1>0, <2>2, <2>3
  <2> HIDE DEF flushed
  <2>5. Core(streaming) /\ SameTargets(streaming, flushed) /\ SameBids(streaming, flushed)
    BY <1>0, <2>2, StreamingProperties
  <2> HIDE DEF streaming, r
  <2>6. SameTargets(streaming, q) /\ Within(streaming) /\ Cached(streaming) = Cached(q)
    <3>1. SameTargets(streaming, q)
      BY <2>2, <2>5 DEF SameTargets
    <3> QED
      BY <3>1, WithinWhenSame
  <2>7. NoMissedBut({}, streaming)
    <3>1. Vanilla \subseteq Hash
      BY DEF Hash
    <3> QED
      BY <2>4, <2>5, <2>6, <3>1 DEF NoMissedBut, SameBids
  <2>8. sends \in Seq(Reinjection)
    <3>1. ASSUME NEW i \in d PROVE BidReinjection(bids[i].hash, h) \in Reinjection
      <4>1. bids[i] \in PendingBid
        BY <1>1, ElementOfSeq
      <4>2. bids[i].hash \in Backrun
        BY <4>1 DEF PendingBid
      <4> QED
        BY <1>0, <4>2, BidReinjectionType
    <3>2. sends \in [1..Len(bids) -> Reinjection]
      BY <1>1, <3>1
    <3> HIDE DEF sends
    <3> QED
      BY <1>1, <3>2, SeqDef
  <2>9. all \in Seq(Reinjection)
    <3> HIDE DEF sends
    <3> QED
      BY <1>0, <2>8, OpportunityType, ConcatProperties
  <2> HIDE DEF all, bids
  <2> QED
    BY <1>1, <2>1, <2>5, <2>6, <2>7, <2>9 DEF Result, Sound, r
<1> QED
  BY <1>2, <1>3

\* observe keeps the invariant of the pool and yields a well-formed outcome.
\* After prune it leaves the transaction it was shown in the cache.
LEMMA ObservedSound ==
    ASSUME NEW p, Core(p), Within(p), NoMissedBut({}, p), NEW h \in Hash
    PROVE  /\ Sound(Observed(p, h))
           /\ HeadLive(p) => h \in Cached(Observed(p, h).pool)
<1> DEFINE q == InsertCache(p, h)
           r == Observed(p, h)
<1>1. /\ Core(q) /\ SameBids(q, p) /\ Within(q)
      /\ Cached(q) \subseteq Cached(p) \cup {h}
      /\ HeadLive(p) => h \in Cached(q)
  BY InsertCacheProperties
<1>2. NoMissedBut({h}, q)
  BY <1>1 DEF NoMissedBut, SameBids
<1>3. h \notin Vanilla => NoMissedBut({}, q)
  BY <1>2 DEF NoMissedBut
<1> SUFFICES Sound(r) /\ (HeadLive(p) => h \in Cached(r.pool))
  OBVIOUS
<1>4. CASE h \in Tob
  <2>1. r = ObserveTob(q, h) /\ h \notin Vanilla
    BY <1>4, KindAssumption DEF Observed
  <2> HIDE DEF q, r
  <2> QED
    BY <1>1, <1>3, <2>1, ObserveTobSound
<1>5. CASE h \in Backrun
  <2>1. r = ObserveBackrun(q, h) /\ h \notin Vanilla
    BY <1>5, KindAssumption DEF Observed
  <2> HIDE DEF q, r
  <2>2. Sound(r) /\ SameTargets(r.pool, q)
    BY <1>1, <1>3, <1>5, <2>1, ObserveBackrunSound
  <2> QED
    BY <1>1, <2>2, WithinWhenSame
<1>6. CASE h \in Invalid
  <2>1. r = Result(q, <<>>, 0, 0, 0) /\ h \notin Vanilla
    BY <1>6, KindAssumption DEF Observed
  <2>2. <<>> \in Seq(Reinjection)
    BY EmptySeq
  <2> HIDE DEF q, r
  <2> QED
    BY <1>1, <1>3, <2>1, <2>2 DEF Result, Sound
<1>7. CASE h \in Vanilla
  <2>1. r = ObserveVanilla(q, h)
    BY <1>7, KindAssumption DEF Observed
  <2> HIDE DEF q, r
  <2>2. Sound(r) /\ SameTargets(r.pool, q)
    BY <1>1, <1>2, <1>7, <2>1, ObserveVanillaSound
  <2> QED
    BY <1>1, <2>2, WithinWhenSame
<1> QED
  BY <1>4, <1>5, <1>6, <1>7 DEF Hash

\* prune, and the tick that may follow it, keep the invariant of the pool and
\* prepare it for observe.
LEMMA SeenProperties ==
    ASSUME NEW p, Core(p), Within(p), NoMissedBut({}, p),
           NEW seen \in {Pruned(p), Aged(Pruned(p))}
    PROVE  /\ Core(seen) /\ Within(seen) /\ NoMissedBut({}, seen) /\ HeadLive(seen)
           /\ Expired(p) \in Nat
<1> DEFINE q == Pruned(p)
<1>1. /\ Core(q) /\ Cached(q) \subseteq Cached(p) /\ HeadLive(q)
      /\ q.pendingCount <= p.pendingCount /\ NoNewBids(q, p)
  BY PrunedProperties
<1> HIDE DEF q
<1>2. Expired(p) \in Nat
  BY ExpiredType
<1>3. Within(q)
  <2>1. Cached(p) \in SUBSET Hash
    BY CachedType DEF Core
  <2>2. /\ IsFiniteSet(Cached(p)) /\ Cardinality(Cached(p)) \in Nat
        /\ Cardinality(Cached(q)) \in Nat
    BY <1>1, <2>1, HashFinite
  <2>3. Cardinality(Cached(q)) <= Cardinality(Cached(p))
    BY <1>1, <2>2, FS_Subset
  <2> QED
    BY <2>2, <2>3, CacheCapType DEF Within
<1>4. Vanilla \subseteq Hash
  BY DEF Hash
<1>5. NoMissedBut({}, q)
  BY <1>1, <1>4 DEF NoMissedBut, NoNewBids
<1>6. CASE seen = q
  BY <1>1, <1>2, <1>3, <1>5, <1>6 DEF q
<1>7. CASE seen = Aged(q)
  <2>1. /\ Core(seen) /\ Cached(seen) = Cached(q) /\ seen.cacheOrder = q.cacheOrder
        /\ NoNewBids(seen, q)
    BY <1>1, <1>7, AgedProperties
  <2>2. Within(seen) /\ NoMissedBut({}, seen)
    BY <1>3, <1>4, <1>5, <2>1 DEF Within, NoMissedBut, NoNewBids
  <2>3. HeadLive(seen)
    <3> SUFFICES ASSUME q.cacheOrder # <<>> PROVE seen.cache[q.cacheOrder[1]] # Absent
      BY <2>1 DEF HeadLive
    <3>1. q.cacheOrder \in Seq(Hash) /\ Len(q.cacheOrder) \in Nat \ {0}
      BY <1>1, PoolFields, EmptySeq DEF Core
    <3>2. q.cacheOrder[1] \in Hash
      BY <3>1, ElementOfSeq
    <3> QED
      BY <1>1, <2>1, <3>2 DEF HeadLive, Cached
  <2> QED
    BY <1>2, <2>1, <2>2, <2>3 DEF q
<1> QED
  BY <1>6, <1>7 DEF q

\* What the pool keeps between two calls.
Keeps(p) == Core(p) /\ Within(p) /\ NoMissedBut({}, p)

\* The empty pool keeps it.
LEMMA EmptyPoolKeeps == Keeps(EmptyPool) /\ EmptyPool.pendingCount = 0 /\ Cached(EmptyPool) = {}
<1>1. EmptyPool \in Pool
  <2>1. <<>> \in Seq(Hash) /\ <<>> \in Seq(PendingBid)
        /\ <<>> \in Seq([target : Hash, bid : Backrun])
    BY EmptySeq
  <2> QED
    BY <2>1 DEF EmptyPool, Pool
<1>2. Cached(EmptyPool) = {} /\ EmptyPool.streamed = {} /\ EmptyPool.pendingCount = 0
  BY DEF EmptyPool, Cached
<1>3. Slots(EmptyPool) = {}
  <2>1. \A t \in Hash : DOMAIN EmptyPool.pending[t] = {}
    BY DEF EmptyPool
  <2> QED
    BY <2>1 DEF Slots
<1>4. Cardinality({}) = 0
  BY FS_EmptySet
<1>5. Core(EmptyPool)
  BY <1>1, <1>2, <1>3, <1>4 DEF Core, Counted, Covered
<1>6. Within(EmptyPool) /\ NoMissedBut({}, EmptyPool)
  BY <1>2, <1>4, CacheCapType DEF Within, NoMissedBut
<1> QED
  BY <1>2, <1>5, <1>6 DEF Keeps

\* forget keeps it: the cache and the parked bids only shrink.
LEMMA ForgottenKeeps ==
    ASSUME NEW p, Keeps(p), NEW h \in Hash
    PROVE  LET q == Forgotten(p, h)
           IN  /\ Keeps(q)
               /\ q.pendingCount <= p.pendingCount
               /\ Cardinality(Cached(q)) <= Cardinality(Cached(p))
<1> DEFINE q == Forgotten(p, h)
<1>1. /\ Core(q) /\ Cached(q) = Cached(p) \ {h} /\ NoNewBids(q, p)
      /\ q.pendingCount <= p.pendingCount
  BY ForgottenProperties DEF Keeps
<1> HIDE DEF q
<1>2. Cardinality(Cached(q)) <= Cardinality(Cached(p)) /\ Within(q)
  <2>1. Cached(p) \in SUBSET Hash
    BY CachedType DEF Keeps, Core
  <2>2. /\ IsFiniteSet(Cached(p)) /\ Cardinality(Cached(p)) \in Nat
        /\ Cardinality(Cached(q)) \in Nat
    BY <1>1, <2>1, HashFinite
  <2>3. Cardinality(Cached(q)) <= Cardinality(Cached(p))
    BY <1>1, <2>2, FS_Subset
  <2> QED
    BY <2>2, <2>3, CacheCapType DEF Keeps, Within
<1>3. NoMissedBut({}, q)
  <2>1. Vanilla \subseteq Hash
    BY DEF Hash
  <2> QED
    BY <1>1, <2>1 DEF Keeps, NoMissedBut, NoNewBids
<1> QED
  BY <1>1, <1>2, <1>3 DEF Keeps, q

\* The clock keeps it: it changes ages only.
LEMMA AgedKeeps ==
    ASSUME NEW p, Keeps(p)
    PROVE  LET q == Aged(p)
           IN  /\ Keeps(q) /\ Cached(q) = Cached(p) /\ q.streamed = p.streamed
               /\ q.pendingCount = p.pendingCount
<1> DEFINE q == Aged(p)
<1>1. /\ Core(q) /\ Cached(q) = Cached(p) /\ q.streamed = p.streamed
      /\ q.pendingCount = p.pendingCount /\ NoNewBids(q, p)
  BY AgedProperties DEF Keeps
<1> HIDE DEF q
<1>2. Vanilla \subseteq Hash
  BY DEF Hash
<1> QED
  BY <1>1, <1>2 DEF Keeps, Within, NoMissedBut, NoNewBids, q

-----------------------------------------------------------------------------
(* The order of an answer.                                                 *)

Offer(t) == [hash |-> t, class |-> "opportunity", group |-> t]

\* Every bid of r comes behind its target, or its target is in marks; and what
\* r leaves marked was in marks or is part of the answer.
Follows(r, marks) ==
    LET sends == r.reinjections
    IN  /\ \A i \in DOMAIN sends : sends[i].class = "bid" =>
             \/ sends[i].group \in marks
             \/ \E j \in 1..(i - 1) : sends[j] = Offer(sends[i].group)
        /\ r.pool.streamed \subseteq marks \cup {sends[j].hash : j \in DOMAIN sends}

\* Popping the cache queue sets no mark.
LEMMA PopCacheMarks ==
    ASSUME NEW p \in Pool, NEW n
    PROVE  PopCache(p, n).streamed \subseteq p.streamed
<1> DEFINE gone == {p.cacheOrder[i] : i \in 1..n} \cap Cached(p)
<1>1. PopCache(p, n).streamed = p.streamed \ gone
  BY DEF PopCache, Pool
<1> QED
  BY <1>1

\* prune sets no mark.
LEMMA PrunedMarks ==
    ASSUME NEW p, Core(p)
    PROVE  Pruned(p).streamed \subseteq p.streamed
<1> DEFINE q == PrunedCache(p)
<1>1. Core(q) /\ q \in Pool
  BY PrunedCacheProperties DEF Core
<1>2. q.streamed \subseteq p.streamed
  BY PopCacheMarks DEF PrunedCache, Core
<1> HIDE DEF q
<1>3. PrunedPending(q).streamed = q.streamed
  BY <1>1 DEF PrunedPending, PopPending, Pool
<1> QED
  BY <1>2, <1>3 DEF Pruned, q

\* insert_cache sets no mark.
LEMMA InsertCacheMarks ==
    ASSUME NEW p, Core(p), NEW h \in Hash
    PROVE  InsertCache(p, h).streamed \subseteq p.streamed
<1> DEFINE q == Cacheing(p, h)
           n == FirstOf({i \in DOMAIN q.cacheOrder : q.cache[q.cacheOrder[i]] # Absent},
                        Len(q.cacheOrder))
<1>1. q \in Pool
  BY CacheingProperties DEF Core
<1>2. q.streamed = p.streamed
  BY DEF Cacheing, Core, Pool
<1>3. InsertCache(p, h) = q \/ InsertCache(p, h) = PopCache(q, n)
  BY DEF InsertCache, Cacheing
<1> HIDE DEF q, n
<1> QED
  BY <1>1, <1>2, <1>3, PopCacheMarks

\* emit_opportunity_once offers a cached target, or finds it marked; either way
\* it is marked afterwards.
LEMMA OfferOrMark ==
    ASSUME NEW p, Core(p), NEW t \in Hash, p.cache[t] # Absent
    PROVE  /\ Streaming(p, t).streamed = p.streamed \cup {t}
           /\ \/ t \in p.streamed /\ Opportunity(p, t) = <<>>
              \/ Opportunity(p, t) = <<Offer(t)>>
BY DEF Streaming, Opportunity, Offer, Core, Pool

\* A list of bids of one target, offered first or marked, follows it.
LEMMA OfferedFollows ==
    ASSUME NEW marks, NEW t \in Hash, NEW offer, NEW bids \in Seq(Reinjection),
           NEW r, r.reinjections = offer \o bids,
           \A i \in DOMAIN bids : bids[i].group = t,
           \/ t \in marks /\ offer = <<>>
           \/ offer = <<Offer(t)>>,
           r.pool.streamed \subseteq marks \cup {t}
    PROVE  Follows(r, marks)
<1>0. Len(bids) \in Nat /\ DOMAIN bids = 1..Len(bids) /\ Offer(t).hash = t
  BY LenProperties DEF Offer
<1>1. CASE t \in marks /\ offer = <<>>
  <2>1. r.reinjections = bids
    BY <1>1
  <2> QED
    BY <1>1, <2>1 DEF Follows
<1>2. CASE offer = <<Offer(t)>>
  <2> DEFINE sends == r.reinjections
  <2>1. /\ DOMAIN sends = 1..(Len(bids) + 1)
        /\ sends[1] = Offer(t)
        /\ \A i \in 2..(Len(bids) + 1) : sends[i] = bids[i - 1]
    <3>1. Offer(t) \in Reinjection
      BY DEF Offer, Reinjection
    <3>2. offer \in Seq(Reinjection) /\ Len(offer) = 1 /\ offer[1] = Offer(t)
      BY <1>2, <3>1
    <3>3. sends = offer \o bids
      OBVIOUS
    <3> HIDE DEF sends
    <3>4. /\ sends \in Seq(Reinjection) /\ Len(sends) = 1 + Len(bids)
          /\ \A i \in 1..(1 + Len(bids)) :
               sends[i] = IF i <= 1 THEN offer[i] ELSE bids[i - 1]
      <4>1. /\ offer \o bids \in Seq(Reinjection)
            /\ Len(offer \o bids) = Len(offer) + Len(bids)
            /\ \A i \in 1..Len(offer) + Len(bids) : (offer \o bids)[i] =
                 IF i <= Len(offer) THEN offer[i] ELSE bids[i - Len(offer)]
        BY <3>2, ConcatProperties
      <4> QED
        BY <3>2, <3>3, <4>1
    <3>5. DOMAIN sends = 1..(Len(bids) + 1)
      BY <1>0, <3>4, LenProperties
    <3>6. sends[1] = Offer(t)
      BY <1>0, <3>2, <3>4
    <3>7. \A i \in 2..(Len(bids) + 1) : sends[i] = bids[i - 1]
      BY <1>0, <3>4
    <3> QED
      BY <3>5, <3>6, <3>7
  <2>2. \A i \in DOMAIN sends :
          sends[i].class = "bid" => \E j \in 1..(i - 1) : sends[j] = Offer(sends[i].group)
    <3> SUFFICES ASSUME NEW i \in DOMAIN sends, sends[i].class = "bid"
                 PROVE  \E j \in 1..(i - 1) : sends[j] = Offer(sends[i].group)
      OBVIOUS
    <3> HIDE DEF sends
    <3>1. i # 1
      BY <2>1 DEF Offer
    <3>2. i \in 2..(Len(bids) + 1) /\ i - 1 \in DOMAIN bids
      BY <1>0, <2>1, <3>1
    <3>3. sends[i].group = t
      BY <2>1, <3>2
    <3>4. 1 \in 1..(i - 1)
      BY <1>0, <3>2
    <3> QED
      BY <2>1, <3>3, <3>4
  <2>3. t \in {sends[j].hash : j \in DOMAIN sends}
    <3> HIDE DEF sends
    <3>1. 1 \in DOMAIN sends /\ sends[1].hash = t
      BY <1>0, <2>1
    <3> QED
      BY <3>1
  <2> QED
    BY <2>2, <2>3 DEF Follows
<1> QED
  BY <1>1, <1>2

\* An answer without bids that leaves the marks alone.
LEMMA BidlessFollows ==
    ASSUME NEW marks, NEW r,
           \A i \in DOMAIN r.reinjections : r.reinjections[i].class # "bid",
           r.pool.streamed \subseteq marks
    PROVE  Follows(r, marks)
BY DEF Follows

\* Observing a backrun bid: it comes behind its target.
LEMMA ObserveBackrunFollows ==
    ASSUME NEW q, Core(q), NEW b \in Backrun
    PROVE  Follows(ObserveBackrun(q, b), q.streamed)
<1> DEFINE t == Target[b]
           r == ObserveBackrun(q, b)
<1>0. t \in Hash
  BY TargetAssumption
<1>1. CASE q.cache[t] # Absent
  <2> DEFINE bids == <<BidReinjection(b, t)>>
  <2>1. BidReinjection(b, t) \in Reinjection
    BY <1>0, BidReinjectionType
  <2>2. bids \in Seq(Reinjection) /\ DOMAIN bids = {1} /\ bids[1].group = t
    <3>1. bids \in Seq(Reinjection) /\ Len(bids) = 1 /\ bids[1] = BidReinjection(b, t)
      BY <2>1
    <3> HIDE DEF bids
    <3>2. DOMAIN bids = 1..1
      BY <3>1, LenProperties
    <3> QED
      BY <3>1, <3>2 DEF BidReinjection
  <2>3. Opportunity(q, t) \in Seq(Reinjection)
    BY <1>0, OpportunityType
  <2>4. Append(Opportunity(q, t), BidReinjection(b, t)) = Opportunity(q, t) \o bids
    BY <2>1, <2>3, AppendIsConcat
  <2>5. /\ r.reinjections = Opportunity(q, t) \o bids
        /\ r.pool = Streaming(q, t)
    <3>1. r = Result(Streaming(q, t), Append(Opportunity(q, t), BidReinjection(b, t)), 1, 0, 0)
      BY <1>1 DEF ObserveBackrun
    <3> QED
      BY <2>4, <3>1 DEF Result
  <2>6. /\ Streaming(q, t).streamed = q.streamed \cup {t}
        /\ \/ t \in q.streamed /\ Opportunity(q, t) = <<>>
           \/ Opportunity(q, t) = <<Offer(t)>>
    BY <1>0, <1>1, OfferOrMark
  <2>7. /\ r.pool.streamed \subseteq q.streamed \cup {t}
        /\ \A i \in DOMAIN bids : bids[i].group = t
    BY <2>2, <2>5, <2>6
  <2> DEFINE offer == Opportunity(q, t)
             marks == q.streamed
  <2>8. /\ r.reinjections = offer \o bids
        /\ (t \in marks /\ offer = <<>>) \/ offer = <<Offer(t)>>
    BY <2>5, <2>6
  <2>9. Follows(r, marks)
    <3> HIDE DEF bids, r, t, offer, marks
    <3> QED
      BY <1>0, <2>2, <2>7, <2>8, OfferedFollows DEF marks
  <2> QED
    BY <2>9
<1>2. CASE q.cache[t] = Absent
  <2>1. r.reinjections = <<>> /\ r.pool = PushPending(q, b)
    BY <1>2 DEF ObserveBackrun, Result
  <2>2. r.pool.streamed = q.streamed
    BY <2>1, PushPendingProperties
  <2> HIDE DEF r
  <2> QED
    BY <2>1, <2>2, BidlessFollows DEF r
<1> QED
  BY <1>1, <1>2

\* Observing a cached vanilla transaction: the bids it flushes come behind it.
LEMMA ObserveVanillaFollows ==
    ASSUME NEW q, Core(q), NEW h \in Vanilla, h \in Cached(q)
    PROVE  Follows(ObserveVanilla(q, h), q.streamed)
<1> DEFINE waiting == q.pending[h]
           d == DOMAIN waiting
           flushed == Taken(q, h, d)
           bids == [i \in d |-> BidReinjection(waiting[i].hash, h)]
           r == ObserveVanilla(q, h)
<1>0. h \in Hash /\ q \in Pool /\ q.pending \in [Hash -> Seq(PendingBid)]
  BY PoolFields DEF Core, Hash
<1>1. waiting \in Seq(PendingBid) /\ Len(waiting) \in Nat /\ d = 1..Len(waiting)
  BY <1>0, LenProperties
<1>2. CASE waiting = <<>>
  <2>1. r.reinjections = <<>> /\ r.pool = q
    BY <1>2 DEF ObserveVanilla, Result
  <2> HIDE DEF r
  <2> QED
    BY <2>1, BidlessFollows DEF r
<1>3. CASE waiting # <<>>
  <2>1. r.reinjections = Opportunity(q, h) \o bids /\ r.pool = Streaming(flushed, h)
    BY <1>3 DEF ObserveVanilla, Result
  <2>2. /\ Core(flushed) /\ SameTargets(flushed, q) /\ flushed.streamed = q.streamed
    <3>1. d \in SUBSET DOMAIN q.pending[h]
      OBVIOUS
    <3> HIDE DEF d, waiting
    <3>2. LET s == Taken(q, h, d)
          IN  Core(s) /\ SameTargets(s, q) /\ s.streamed = q.streamed
      BY <1>0, <3>1, TakenProperties
    <3> QED
      BY <3>2
  <2>3. q.cache[h] # Absent
    BY DEF Cached
  <2>4. /\ \/ h \in q.streamed /\ Opportunity(q, h) = <<>>
           \/ Opportunity(q, h) = <<Offer(h)>>
    BY <1>0, <2>3, OfferOrMark
  <2> HIDE DEF flushed
  <2>5. Streaming(flushed, h).streamed = q.streamed \cup {h}
    <3>1. flushed.cache[h] # Absent
      BY <2>2, <2>3 DEF SameTargets
    <3> QED
      BY <1>0, <2>2, <3>1, OfferOrMark
  <2>6. bids \in Seq(Reinjection) /\ \A i \in DOMAIN bids : bids[i].group = h
    <3>1. ASSUME NEW i \in d
          PROVE  BidReinjection(waiting[i].hash, h) \in Reinjection
      <4>1. waiting[i] \in PendingBid
        BY <1>1, ElementOfSeq
      <4>2. waiting[i].hash \in Backrun
        BY <4>1 DEF PendingBid
      <4> QED
        BY <1>0, <4>2, BidReinjectionType
    <3>2. bids \in [1..Len(waiting) -> Reinjection]
      BY <1>1, <3>1
    <3>3. \A i \in DOMAIN bids : bids[i].group = h
      BY DEF BidReinjection
    <3> HIDE DEF bids
    <3> QED
      BY <1>1, <3>2, <3>3, SeqDef
  <2> HIDE DEF bids, r
  <2> QED
    BY <1>0, <2>1, <2>4, <2>5, <2>6, OfferedFollows DEF r
<1> QED
  BY <1>2, <1>3

\* observe, after prune: every bid it answers with comes behind its target.
LEMMA ObservedFollows ==
    ASSUME NEW p, Core(p), Within(p), HeadLive(p), NEW h \in Hash
    PROVE  Follows(Observed(p, h), p.streamed)
<1> DEFINE q == InsertCache(p, h)
           r == Observed(p, h)
<1>1. Core(q) /\ h \in Cached(q) /\ q.streamed \subseteq p.streamed
  BY InsertCacheProperties, InsertCacheMarks
<1> HIDE DEF q, r
<1>2. ASSUME Follows(r, q.streamed) PROVE Follows(r, p.streamed)
  BY <1>1, <1>2 DEF Follows
<1>3. CASE h \in Tob
  <2>1. r = ObserveTob(q, h)
    BY <1>3, KindAssumption DEF Observed, q, r
  <2> DEFINE e == [hash |-> h, class |-> IF h \in ZeroScore THEN "fallback" ELSE "tob",
                   group |-> h]
  <2>2. r.reinjections = <<e>> /\ r.pool = q /\ e.class # "bid"
    BY <2>1 DEF ObserveTob, Result
  <2> HIDE DEF e
  <2>3. \A i \in DOMAIN r.reinjections : r.reinjections[i] = e
    BY <2>2
  <2> QED
    BY <1>1, <2>2, <2>3, BidlessFollows DEF r
<1>4. CASE h \in Backrun
  <2>1. r = ObserveBackrun(q, h)
    BY <1>4, KindAssumption DEF Observed, q, r
  <2> QED
    BY <1>1, <1>2, <1>4, <2>1, ObserveBackrunFollows DEF r
<1>5. CASE h \in Invalid
  <2>1. r = Result(q, <<>>, 0, 0, 0)
    BY <1>5, KindAssumption DEF Observed, q, r
  <2>2. r.reinjections = <<>> /\ r.pool = q
    BY <2>1 DEF Result
  <2> QED
    BY <1>1, <2>2, BidlessFollows DEF r
<1>6. CASE h \in Vanilla
  <2>1. r = ObserveVanilla(q, h)
    BY <1>6, KindAssumption DEF Observed, q, r
  <2> QED
    BY <1>1, <1>2, <1>6, <2>1, ObserveVanillaFollows DEF r
<1> QED
  BY <1>3, <1>4, <1>5, <1>6 DEF Hash

\* The clock changes no mark, so what Insert shows to observe has no more marks
\* than the pool before it.
LEMMA SeenMarks ==
    ASSUME NEW p, Core(p), NEW seen \in {Pruned(p), Aged(Pruned(p))}
    PROVE  seen.streamed \subseteq p.streamed
<1>1. Core(Pruned(p)) /\ Pruned(p).streamed \subseteq p.streamed
  BY PrunedProperties, PrunedMarks
<1>2. Aged(Pruned(p)).streamed = Pruned(p).streamed
  BY <1>1, AgedProperties
<1> QED
  BY <1>1, <1>2

\* forget leaves no mark on the transaction that left, and sets none.
LEMMA ForgottenMarks ==
    ASSUME NEW p, Core(p), NEW h \in Hash
    PROVE  Forgotten(p, h).streamed \subseteq p.streamed \ {h}
<1>1. Core(Forgotten(p, h)) /\ Cached(Forgotten(p, h)) = Cached(p) \ {h}
  BY ForgottenProperties
<1> DEFINE q == [p EXCEPT !.cache[h] = Absent, !.streamed = @ \ {h}]
           r == Taken(q, h, DOMAIN q.pending[h])
<1>2. q.streamed = p.streamed \ {h} /\ "streamed" \in DOMAIN q
  BY DEF Core, Pool
<1> HIDE DEF q
<1>3. \A s, t, gone : Taken(s, t, gone).streamed = s.streamed
  BY DEF Taken
<1>4. \A s, b : Unparked(s, b).streamed = s.streamed
  BY <1>3 DEF Unparked
<1>5. Forgotten(p, h) = IF h \in Backrun THEN Unparked(r, h) ELSE r
  BY DEF Forgotten, q
<1> QED
  BY <1>2, <1>3, <1>4, <1>5

-----------------------------------------------------------------------------
(* Every observed transaction is accounted for.                            *)

Chosen(b) == IF b THEN 1 ELSE 0

\* observe skips a transaction, parks it, or answers it: exactly one of these.
LEMMA ObservedAccounted ==
    ASSUME NEW p, Core(p), Within(p), NoMissedBut({}, p), NEW h \in Hash
    PROVE  LET r == Observed(p, h)
           IN  /\ r.pended \in {0, 1}
               /\ Chosen(SkippedNonGateway(p, h)) + Chosen(SkippedInvalidGateway(h))
                    + r.pended + Chosen(r.reinjections # <<>>) = 1
               /\ ~(SkippedNonGateway(p, h) /\ SkippedInvalidGateway(h))
<1> DEFINE q == InsertCache(p, h)
           r == Observed(p, h)
<1>1. Core(q) /\ q.pending = p.pending
  BY InsertCacheProperties DEF SameBids
<1> HIDE DEF q, r
<1> SUFFICES /\ r.pended \in {0, 1}
             /\ Chosen(SkippedNonGateway(p, h)) + Chosen(SkippedInvalidGateway(h))
                  + r.pended + Chosen(r.reinjections # <<>>) = 1
             /\ ~(SkippedNonGateway(p, h) /\ SkippedInvalidGateway(h))
  BY DEF r
<1>2. CASE h \in Tob
  <2> DEFINE e == [hash |-> h, class |-> IF h \in ZeroScore THEN "fallback" ELSE "tob",
                   group |-> h]
  <2>1. r.reinjections = <<e>> /\ r.pended = 0
    BY <1>2, KindAssumption DEF Observed, q, r, ObserveTob, Result
  <2>2. <<e>> # <<>>
    OBVIOUS
  <2> HIDE DEF e
  <2> QED
    BY <1>2, <2>1, <2>2, KindAssumption DEF SkippedNonGateway, SkippedInvalidGateway, Chosen
<1>3. CASE h \in Backrun
  <2>1. r = ObserveBackrun(q, h)
    BY <1>3, KindAssumption DEF Observed, q, r
  <2>2. h \notin Vanilla /\ h \notin Invalid
    BY <1>3, KindAssumption
  <2>3. CASE q.cache[Target[h]] # Absent
    <3> DEFINE o == Opportunity(q, Target[h])
               e == BidReinjection(h, Target[h])
    <3>1. r.reinjections = Append(o, e) /\ r.pended = 0
      BY <2>1, <2>3 DEF ObserveBackrun, Result
    <3>2. o \in Seq(Reinjection) /\ e \in Reinjection
      BY <1>1, <1>3, TargetAssumption, OpportunityType, BidReinjectionType
    <3> HIDE DEF o, e
    <3>3. r.reinjections # <<>>
      BY <3>1, <3>2, AppendProperties
    <3> QED
      BY <2>2, <3>1, <3>3 DEF SkippedNonGateway, SkippedInvalidGateway, Chosen
  <2>4. CASE q.cache[Target[h]] = Absent
    <3>1. r.reinjections = <<>> /\ r.pended = 1
      BY <2>1, <2>4 DEF ObserveBackrun, Result
    <3> QED
      BY <2>2, <3>1 DEF SkippedNonGateway, SkippedInvalidGateway, Chosen
  <2> QED
    BY <2>3, <2>4
<1>4. CASE h \in Invalid
  <2>1. r.reinjections = <<>> /\ r.pended = 0
    BY <1>4, KindAssumption DEF Observed, q, r, Result
  <2>2. h \notin Vanilla
    BY <1>4, KindAssumption
  <2> QED
    BY <1>4, <2>1, <2>2 DEF SkippedNonGateway, SkippedInvalidGateway, Chosen
<1>5. CASE h \in Vanilla
  <2>1. r = ObserveVanilla(q, h) /\ h \notin Invalid
    BY <1>5, KindAssumption DEF Observed, q, r
  <2>2. CASE p.pending[h] = <<>>
    <3>1. r.reinjections = <<>> /\ r.pended = 0
      BY <1>1, <2>1, <2>2 DEF ObserveVanilla, Result
    <3> QED
      BY <1>5, <2>1, <2>2, <3>1 DEF SkippedNonGateway, SkippedInvalidGateway, Chosen
  <2>3. CASE p.pending[h] # <<>>
    <3> DEFINE waiting == q.pending[h]
               o == Opportunity(q, h)
               bids == [i \in DOMAIN waiting |-> BidReinjection(waiting[i].hash, h)]
    <3>1. r.reinjections = o \o bids /\ r.pended = 0
      BY <1>1, <2>1, <2>3 DEF ObserveVanilla, Result
    <3>2. waiting \in Seq(PendingBid) /\ waiting # <<>>
      BY <1>1, <2>3, PoolFields DEF Core
    <3>3. Len(waiting) \in Nat /\ Len(waiting) # 0 /\ DOMAIN waiting = 1..Len(waiting)
      BY <3>2, LenProperties, EmptySeq
    <3>4. o \in Seq(Reinjection)
      BY OpportunityType
    <3>5. bids \in Seq(Reinjection) /\ Len(bids) = Len(waiting)
      <4>1. ASSUME NEW i \in DOMAIN waiting PROVE BidReinjection(waiting[i].hash, h) \in Reinjection
        <5>1. waiting[i] \in PendingBid
          BY <3>2, <3>3, ElementOfSeq
        <5>2. waiting[i].hash \in Backrun
          BY <5>1 DEF PendingBid
        <5> QED
          BY <5>2, BidReinjectionType
      <4>2. bids \in [1..Len(waiting) -> Reinjection]
        BY <3>3, <4>1
      <4> HIDE DEF bids, waiting
      <4>3. bids \in Seq(Reinjection)
        BY <3>3, <4>2, SeqDef
      <4> QED
        BY <3>3, <4>2, <4>3, LenProperties
    <3> HIDE DEF waiting, o, bids
    <3>6. Len(o \o bids) = Len(o) + Len(bids) /\ Len(o) \in Nat
      BY <3>4, <3>5, ConcatProperties, LenProperties
    <3>7. r.reinjections # <<>>
      <4>1. Len(<<>>) = 0
        OBVIOUS
      <4> QED
        BY <3>1, <3>3, <3>5, <3>6, <4>1
    <3> QED
      BY <2>1, <2>3, <3>1, <3>7 DEF SkippedNonGateway, SkippedInvalidGateway, Chosen
  <2> QED
    BY <2>2, <2>3
<1> QED
  BY <1>2, <1>3, <1>4, <1>5 DEF Hash

-----------------------------------------------------------------------------
(* The queue of parked bids.  pending_order names a bid under a target at  *)
(* least as often as it is parked there: pushing adds one of each, popping *)
(* entries takes as many copies, and nothing else shortens the queue.      *)

\* The places of bid b in a vector, and of an entry in the queue.
BidsAt(s, b) == {i \in DOMAIN s : s[i].hash = b}
Entries(q, e) == {i \in DOMAIN q : q[i] = e}
Entry(t, b) == [target |-> t, bid |-> b]
QueueEntry == [target : Hash, bid : Backrun]

Queued(p) ==
    \A t \in Hash : \A b \in Backrun :
        Cardinality(BidsAt(p.pending[t], b)) <= Cardinality(Entries(p.pendingOrder, Entry(t, b)))

\* A set of places in a sequence is a finite set of numbers.
LEMMA PlacesFinite ==
    ASSUME NEW T, NEW s \in Seq(T), NEW S \in SUBSET DOMAIN s
    PROVE  S \in SUBSET Nat /\ IsFiniteSet(S) /\ Cardinality(S) \in Nat
<1>1. DOMAIN s = 1..Len(s) /\ Len(s) \in Nat
  BY LenProperties
<1>2. IsFiniteSet(1..Len(s))
  BY <1>1, FS_Interval
<1>3. S \in SUBSET (1..Len(s))
  BY <1>1
<1> QED
  BY <1>1, <1>2, <1>3, FS_Subset, FS_CardinalityType

\* So are the places of a bid.
LEMMA BidsFinite ==
    ASSUME NEW s \in Seq(PendingBid), NEW b
    PROVE  /\ BidsAt(s, b) \in SUBSET Nat /\ IsFiniteSet(BidsAt(s, b))
           /\ Cardinality(BidsAt(s, b)) \in Nat
BY PlacesFinite DEF BidsAt

\* The entries that name a bid are finitely many.
LEMMA EntriesFinite ==
    ASSUME NEW q \in Seq(QueueEntry), NEW e
    PROVE  /\ Entries(q, e) \in SUBSET Nat /\ IsFiniteSet(Entries(q, e))
           /\ Cardinality(Entries(q, e)) \in Nat
BY PlacesFinite DEF Entries

\* What is left of a vector names a bid at most as often as the places left.
LEMMA BidsWithout ==
    ASSUME NEW s \in Seq(PendingBid), NEW gone, NEW b
    PROVE  Cardinality(BidsAt(Without(s, gone), b)) <= Cardinality(BidsAt(s, b) \ gone)
<1> DEFINE N == Cardinality(Kept(s, gone))
           o == Origin(s, gone)
           w == Without(s, gone)
           A == BidsAt(w, b)
           B == BidsAt(s, b) \ gone
           f == [n \in A |-> o[n]]
<1>1. /\ N \in Nat /\ o \in [1..N -> Kept(s, gone)]
      /\ \A m, n \in 1..N : m < n => o[m] < o[n]
      /\ w = [n \in 1..N |-> s[o[n]]]
      /\ Kept(s, gone) \in SUBSET (1..Len(s))
  BY WithoutOrigin
<1>2. Len(s) \in Nat /\ DOMAIN s = 1..Len(s)
  BY LenProperties
<1> HIDE DEF o, w, N
<1>3. A \subseteq 1..N /\ \A n \in A : s[o[n]].hash = b
  BY <1>1 DEF BidsAt
<1>4. f \in [A -> B]
  <2> SUFFICES ASSUME NEW n \in A PROVE o[n] \in B
    OBVIOUS
  <2>1. o[n] \in Kept(s, gone) /\ s[o[n]].hash = b
    BY <1>1, <1>3
  <2> QED
    BY <2>1 DEF Kept, BidsAt
<1>5. ASSUME NEW m \in A, NEW n \in A, f[m] = f[n] PROVE m = n
  <2>1. m \in 1..N /\ n \in 1..N /\ o[m] = o[n]
    BY <1>3, <1>5
  <2>2. o[m] \in Nat /\ o[n] \in Nat
    BY <1>1, <1>2, <2>1
  <2>3. ~(m < n) /\ ~(n < m)
    BY <1>1, <2>1, <2>2
  <2> QED
    BY <1>1, <2>1, <2>3
<1>6. IsFiniteSet(B)
  BY BidsFinite, FS_Subset
<1> HIDE DEF f, A, B
<1>7. f \in Injection(A, B)
  BY <1>4, <1>5, Fun_IsInj
<1> QED
  BY <1>6, <1>7, FS_Injection DEF A, B, w

\* The k-th copy of a bid is named by the k-th of its entries.
LEMMA NamedByRank ==
    ASSUME NEW p \in Pool, NEW t \in Hash, NEW b,
           NEW c \in BidsAt(p.pending[t], b), NEW i \in Entries(p.pendingOrder, Entry(t, b)),
           Cardinality(UpTo(Entries(p.pendingOrder, Entry(t, b)), i)) =
             Cardinality(UpTo(BidsAt(p.pending[t], b), c))
    PROVE  c \in Named(p, i)
<1> DEFINE q == p.pendingOrder
           e == Entry(t, b)
<1>1. q \in Seq(QueueEntry)
  BY PoolFields DEF QueueEntry
<1>2. DOMAIN q = 1..Len(q) /\ Len(q) \in Nat
  BY <1>1, LenProperties
<1>3. i \in DOMAIN q /\ q[i] = e /\ e.target = t /\ e.bid = b
  BY DEF Entries, Entry
<1>4. UpTo(Entries(q, e), i) = {j \in 1..i : q[j] = e}
  BY <1>2, <1>3 DEF UpTo, Entries
<1>5. Copies(p, t, b) = BidsAt(p.pending[t], b)
  BY DEF Copies, BidsAt
<1>6. UpTo(BidsAt(p.pending[t], b), c) = {d \in Copies(p, t, b) : d <= c}
  BY <1>5 DEF UpTo
<1> HIDE DEF q, e
<1>7. Cardinality({d \in Copies(p, t, b) : d <= c}) = Cardinality({j \in 1..i : q[j] = e})
  BY <1>4, <1>6 DEF q, e
<1> QED
  BY <1>3, <1>5, <1>7 DEF Named, q

\* As long as the queue names every bid often enough, every copy is named.
LEMMA CopyIsNamed ==
    ASSUME NEW p \in Pool, Queued(p), NEW t \in Hash, NEW c \in DOMAIN p.pending[t]
    PROVE  \E i \in DOMAIN p.pendingOrder : p.pendingOrder[i].target = t /\ c \in Named(p, i)
<1> DEFINE b == p.pending[t][c].hash
           B == BidsAt(p.pending[t], b)
           E == Entries(p.pendingOrder, Entry(t, b))
<1>1. p.pending[t] \in Seq(PendingBid) /\ p.pendingOrder \in Seq(QueueEntry)
  BY PoolFields DEF QueueEntry
<1>2. b \in Backrun /\ c \in B
  <2>1. p.pending[t][c] \in PendingBid
    BY <1>1, LenProperties, ElementOfSeq
  <2> QED
    BY <2>1 DEF PendingBid, BidsAt
<1> HIDE DEF b
<1>3. /\ B \in SUBSET Nat /\ IsFiniteSet(B) /\ Cardinality(B) \in Nat
      /\ E \in SUBSET Nat /\ IsFiniteSet(E) /\ Cardinality(E) \in Nat
  BY <1>1, BidsFinite, EntriesFinite
<1>4. Cardinality(B) <= Cardinality(E)
  BY <1>2 DEF Queued
<1> HIDE DEF B, E
<1>5. Cardinality(UpTo(B, c)) \in 1..Cardinality(B)
  BY <1>2, <1>3, RankInRange
<1>6. Cardinality(UpTo(B, c)) \in 1..Cardinality(E)
  BY <1>3, <1>4, <1>5
<1>7. PICK i \in E : Cardinality(UpTo(E, i)) = Cardinality(UpTo(B, c))
  BY <1>3, <1>6, RankOnto
<1>8. c \in Named(p, i)
  BY <1>2, <1>7, NamedByRank DEF B, E
<1>9. i \in DOMAIN p.pendingOrder /\ p.pendingOrder[i].target = t
  BY DEF E, Entries, Entry
<1> QED
  BY <1>8, <1>9

\* Popping n entries leaves no more copies of a bid than entries for it.
LEMMA PoppingKeepsQueued ==
    ASSUME NEW p, Core(p), Queued(p), NEW n \in 0..Len(p.pendingOrder)
    PROVE  Queued(PopPending(p, n))
<1> DEFINE r == PopPending(p, n)
           q == p.pendingOrder
<1>1. /\ p \in Pool /\ q \in Seq(QueueEntry) /\ p.pending \in [Hash -> Seq(PendingBid)]
      /\ Len(q) \in Nat /\ DOMAIN q = 1..Len(q)
  BY PoolFields, LenProperties DEF Core, QueueEntry
<1>2. /\ r.pending = [t \in Hash |-> Without(p.pending[t], Popped(p, n)[t])]
      /\ r.pendingOrder = Dropped(q, n)
  BY PopPendingProperties
<1>3. /\ Dropped(q, n) \in Seq(QueueEntry) /\ Len(Dropped(q, n)) = Len(q) - n
      /\ DOMAIN Dropped(q, n) = 1..(Len(q) - n)
      /\ \A i \in 1..(Len(q) - n) : Dropped(q, n)[i] = q[n + i]
  <2> HIDE DEF q
  <2>1. n \in Nat /\ n <= Len(q)
    BY <1>1 DEF q
  <2>2. /\ Dropped(q, n) \in Seq(QueueEntry) /\ Len(Dropped(q, n)) = Len(q) - n
        /\ \A i \in 1..(Len(q) - n) : Dropped(q, n)[i] = q[n + i]
    BY <1>1, <2>1, DroppedProperties
  <2> QED
    BY <2>2, LenProperties
<1> SUFFICES ASSUME NEW t \in Hash, NEW b \in Backrun
             PROVE  Cardinality(BidsAt(Without(p.pending[t], Popped(p, n)[t]), b))
                      <= Cardinality(Entries(Dropped(q, n), Entry(t, b)))
  BY <1>2 DEF Queued
<1> DEFINE e == Entry(t, b)
           B == BidsAt(p.pending[t], b)
           E == Entries(q, e)
           L == B \ Popped(p, n)[t]
           F == Entries(Dropped(q, n), e)
           entry(c) == CHOOSE i \in E : Cardinality(UpTo(E, i)) = Cardinality(UpTo(B, c))
           f == [c \in L |-> entry(c) - n]
<1>4. /\ B \in SUBSET Nat /\ IsFiniteSet(B) /\ Cardinality(B) \in Nat
      /\ E \in SUBSET Nat /\ IsFiniteSet(E) /\ Cardinality(E) \in Nat
      /\ IsFiniteSet(F) /\ Cardinality(F) \in Nat
  BY <1>1, <1>3, BidsFinite, EntriesFinite
<1>5. Cardinality(B) <= Cardinality(E)
  BY DEF Queued
<1>6. \A c \in B : entry(c) \in E /\ Cardinality(UpTo(E, entry(c))) = Cardinality(UpTo(B, c))
  <2> SUFFICES ASSUME NEW c \in B
               PROVE  \E i \in E : Cardinality(UpTo(E, i)) = Cardinality(UpTo(B, c))
    OBVIOUS
  <2> HIDE DEF B, E
  <2>1. Cardinality(UpTo(B, c)) \in 1..Cardinality(B)
    BY <1>4, RankInRange
  <2>2. Cardinality(UpTo(B, c)) \in 1..Cardinality(E)
    BY <1>4, <1>5, <2>1
  <2> QED
    BY <1>4, <2>2, RankOnto
<1> HIDE DEF entry
<1>7. f \in [L -> F]
  <2> SUFFICES ASSUME NEW c \in L PROVE entry(c) - n \in F
    OBVIOUS
  <2>1. entry(c) \in E /\ c \in Named(p, entry(c))
    BY <1>1, <1>6, NamedByRank
  <2>2. entry(c) \in 1..Len(q) /\ q[entry(c)] = e /\ q[entry(c)].target = t
    BY <1>1, <2>1 DEF Entries, Entry
  <2>3. ~(entry(c) \in 1..n)
    <3>1. SUFFICES ASSUME entry(c) \in 1..n PROVE FALSE
      OBVIOUS
    <3>2. entry(c) \in {j \in 1..n : p.pendingOrder[j].target = t}
      BY <2>2, <3>1
    <3>3. c \in Popped(p, n)[t]
      BY <2>1, <3>2 DEF Popped
    <3> QED
      BY <3>3
  <2> HIDE DEF q
  <2>4. entry(c) - n \in 1..(Len(q) - n) /\ n + (entry(c) - n) = entry(c)
    BY <1>1, <2>2, <2>3
  <2>5. Dropped(q, n)[entry(c) - n] = q[entry(c)]
    BY <1>3, <2>4
  <2> QED
    BY <1>3, <2>2, <2>4, <2>5 DEF Entries
<1>8. ASSUME NEW c \in L, NEW d \in L, f[c] = f[d] PROVE c = d
  <2>1. entry(c) - n = entry(d) - n /\ c \in B /\ d \in B
    BY <1>8
  <2>2. entry(c) \in Nat /\ entry(d) \in Nat /\ n \in Nat
    BY <1>1, <1>4, <1>6
  <2>3. entry(c) = entry(d)
    BY <2>1, <2>2
  <2>4. Cardinality(UpTo(B, c)) = Cardinality(UpTo(B, d))
    BY <1>6, <2>1, <2>3
  <2> HIDE DEF B
  <2>5. /\ Cardinality(UpTo(B, c)) \in 1..Cardinality(B)
        /\ c < d => Cardinality(UpTo(B, c)) < Cardinality(UpTo(B, d))
        /\ d < c => Cardinality(UpTo(B, d)) < Cardinality(UpTo(B, c))
    BY <1>4, <2>1, RankInRange, RankMonotone
  <2>6. c \in Nat /\ d \in Nat /\ Cardinality(UpTo(B, c)) \in Nat
    BY <1>4, <2>1, <2>5
  <2> QED
    BY <2>4, <2>5, <2>6
<1> DEFINE s == p.pending[t]
           g == Popped(p, n)[t]
<1>9. s \in Seq(PendingBid)
  BY <1>1
<1>10. Cardinality(BidsAt(Without(s, g), b)) <= Cardinality(L)
  <2> HIDE DEF g, s
  <2>1. Cardinality(BidsAt(Without(s, g), b)) <= Cardinality(BidsAt(s, b) \ g)
    BY <1>9, BidsWithout
  <2> QED
    BY <2>1 DEF s, g
<1>11. Cardinality(BidsAt(Without(s, g), b)) \in Nat
  BY <1>9, WithoutType, BidsFinite
<1>12. IsFiniteSet(L) /\ Cardinality(L) \in Nat
  BY <1>4, FS_Subset, FS_CardinalityType
<1> HIDE DEF f, L, F
<1>13. f \in Injection(L, F)
  BY <1>7, <1>8, Fun_IsInj
<1>14. Cardinality(L) <= Cardinality(F)
  BY <1>4, <1>13, FS_Injection
<1> HIDE DEF s, g
<1>15. Cardinality(BidsAt(Without(s, g), b)) <= Cardinality(F)
  BY <1>4, <1>10, <1>11, <1>12, <1>14
<1> QED
  BY <1>15 DEF s, g, F, e

\* The queue names every parked copy, and there is no more parked than allowed.
Roomy(p) == p.pendingCount <= PendingCap
Backed(p) == Queued(p) /\ Roomy(p)

\* There is room for at least one parked bid.
LEMMA PendingCapType == PendingCap \in Nat /\ PendingCap >= 1
BY BoundAssumption DEF PendingCap, AtLeastOne

\* What does not touch the bids keeps them named.
LEMMA BackedWhenSame ==
    ASSUME NEW p, NEW r, Backed(p), SameBids(r, p)
    PROVE  Backed(r)
BY DEF Backed, Queued, Roomy, SameBids

\* Popping entries lowers the number of parked bids or leaves it.
LEMMA PoppingKeepsBacked ==
    ASSUME NEW p, Core(p), Backed(p), NEW n \in 0..Len(p.pendingOrder)
    PROVE  Backed(PopPending(p, n))
<1> DEFINE r == PopPending(p, n)
<1>1. Queued(r)
  BY PoppingKeepsQueued DEF Backed
<1>2. Core(r) /\ r.pendingCount <= p.pendingCount
  BY PopPendingProperties
<1> HIDE DEF r
<1>3. r.pendingCount \in Nat /\ p.pendingCount \in Nat /\ PendingCap \in Nat
  BY <1>2, PoolFields, PendingCapType DEF Core
<1>4. Roomy(r)
  BY <1>2, <1>3 DEF Backed, Roomy
<1> QED
  BY <1>1, <1>4 DEF Backed, r

\* One element more at the end of a sequence is one place more for its kind.
LEMMA PlacesAppended ==
    ASSUME NEW s \in Seq(PendingBid), NEW bid \in PendingBid, NEW b
    PROVE  Cardinality(BidsAt(Append(s, bid), b)) =
             IF bid.hash = b THEN Cardinality(BidsAt(s, b)) + 1 ELSE Cardinality(BidsAt(s, b))
<1> DEFINE w == Append(s, bid)
           l == Len(s) + 1
<1>1. /\ w \in Seq(PendingBid) /\ Len(w) = l /\ w[l] = bid
      /\ \A i \in 1..Len(s) : w[i] = s[i]
      /\ Len(s) \in Nat /\ DOMAIN s = 1..Len(s)
  BY AppendProperties, LenProperties
<1>2. DOMAIN w = 1..l
  BY <1>1, LenProperties
<1> HIDE DEF w
<1>3. 1..l = 1..Len(s) \cup {l} /\ l \notin 1..Len(s)
  BY <1>1
<1>4. BidsAt(w, b) = BidsAt(s, b) \cup (IF bid.hash = b THEN {l} ELSE {}) /\ l \notin BidsAt(s, b)
  BY <1>1, <1>2, <1>3 DEF BidsAt
<1>5. IsFiniteSet(BidsAt(s, b))
  BY BidsFinite
<1>6. CASE bid.hash = b
  <2>1. BidsAt(w, b) = BidsAt(s, b) \cup {l}
    BY <1>4, <1>6
  <2> HIDE DEF l
  <2>2. Cardinality(BidsAt(s, b) \cup {l}) = Cardinality(BidsAt(s, b)) + 1
    BY <1>4, <1>5, FS_AddElement
  <2> QED
    BY <1>6, <2>1, <2>2 DEF w
<1>7. CASE bid.hash # b
  BY <1>4, <1>7 DEF w
<1> QED
  BY <1>6, <1>7

\* One entry more at the end of the queue is one more for its bid.
LEMMA EntriesAppended ==
    ASSUME NEW q \in Seq(QueueEntry), NEW x \in QueueEntry, NEW e
    PROVE  Cardinality(Entries(Append(q, x), e)) =
             IF x = e THEN Cardinality(Entries(q, e)) + 1 ELSE Cardinality(Entries(q, e))
<1> DEFINE w == Append(q, x)
           l == Len(q) + 1
<1>1. /\ w \in Seq(QueueEntry) /\ Len(w) = l /\ w[l] = x
      /\ \A i \in 1..Len(q) : w[i] = q[i]
      /\ Len(q) \in Nat /\ DOMAIN q = 1..Len(q)
  BY AppendProperties, LenProperties
<1>2. DOMAIN w = 1..l
  BY <1>1, LenProperties
<1> HIDE DEF w
<1>3. 1..l = 1..Len(q) \cup {l} /\ l \notin 1..Len(q)
  BY <1>1
<1>4. Entries(w, e) = Entries(q, e) \cup (IF x = e THEN {l} ELSE {}) /\ l \notin Entries(q, e)
  BY <1>1, <1>2, <1>3 DEF Entries
<1>5. IsFiniteSet(Entries(q, e))
  BY EntriesFinite
<1>6. CASE x = e
  <2>1. Entries(w, e) = Entries(q, e) \cup {l}
    BY <1>4, <1>6
  <2> HIDE DEF l
  <2>2. Cardinality(Entries(q, e) \cup {l}) = Cardinality(Entries(q, e)) + 1
    BY <1>4, <1>5, FS_AddElement
  <2> QED
    BY <1>6, <2>1, <2>2 DEF w
<1>7. CASE x # e
  BY <1>4, <1>7 DEF w
<1> QED
  BY <1>6, <1>7

\* Parking a bid adds one copy and one entry for it.
LEMMA ParkingKeepsQueued ==
    ASSUME NEW p, Core(p), Queued(p), NEW b \in Backrun
    PROVE  Queued(Parking(p, b))
<1> DEFINE u == Target[b]
           bid == [hash |-> b, age |-> 0]
           x == Entry(u, b)
           q == Parking(p, b)
<1>1. /\ q.pending = [p.pending EXCEPT ![u] = Append(p.pending[u], bid)]
      /\ q.pendingOrder = Append(p.pendingOrder, x)
  BY ParkingProperties DEF Entry
<1>2. /\ p.pending \in [Hash -> Seq(PendingBid)] /\ p.pendingOrder \in Seq(QueueEntry)
      /\ u \in Hash /\ bid \in PendingBid /\ x \in QueueEntry
  BY PoolFields, TargetAssumption, AgeType DEF Core, PendingBid, QueueEntry, Entry
<1>3. bid.hash = b
  OBVIOUS
<1> HIDE DEF q, bid, x
<1> SUFFICES ASSUME NEW t \in Hash, NEW c \in Backrun
             PROVE  Cardinality(BidsAt(q.pending[t], c))
                      <= Cardinality(Entries(q.pendingOrder, Entry(t, c)))
  BY DEF Queued, q
<1> DEFINE m == Cardinality(BidsAt(p.pending[t], c))
           n == Cardinality(Entries(p.pendingOrder, Entry(t, c)))
<1>4. m \in Nat /\ n \in Nat /\ m <= n
  BY <1>2, BidsFinite, EntriesFinite DEF Queued
<1>5. Cardinality(Entries(q.pendingOrder, Entry(t, c))) = IF x = Entry(t, c) THEN n + 1 ELSE n
  BY <1>1, <1>2, EntriesAppended
<1>6. x = Entry(t, c) <=> t = u /\ c = b
  BY DEF x, Entry
<1>7. CASE t = u
  <2>1. q.pending[t] = Append(p.pending[t], bid)
    BY <1>1, <1>2, <1>7
  <2>2. Cardinality(BidsAt(q.pending[t], c)) = IF b = c THEN m + 1 ELSE m
    BY <1>2, <1>3, <2>1, PlacesAppended
  <2> HIDE DEF m, n
  <2> QED
    BY <1>4, <1>5, <1>6, <1>7, <2>2
<1>8. CASE t # u
  <2>1. Cardinality(BidsAt(q.pending[t], c)) = m
    BY <1>1, <1>2, <1>8
  <2> HIDE DEF m, n
  <2> QED
    BY <1>4, <1>5, <1>6, <1>8, <2>1
<1> QED
  BY <1>7, <1>8

\* push_pending keeps the number of parked bids within the capacity: eviction
\* finds a copy to take, because the queue names every one.
LEMMA PushingKeepsBacked ==
    ASSUME NEW p, Core(p), Backed(p), NEW b \in Backrun
    PROVE  Backed(PushPending(p, b))
<1> DEFINE q == Parking(p, b)
           present == {i \in DOMAIN q.pendingOrder : Named(q, i) # {}}
           n == FirstOf(present, Len(q.pendingOrder))
           r == PushPending(p, b)
<1>1. r = IF OverCapacity(q.pendingCount, PendingCap) THEN PopPending(q, n) ELSE q
  BY DEF PushPending, Overflow
<1>2. Core(q) /\ Queued(q) /\ q.pendingCount = p.pendingCount + 1
  BY ParkingProperties, ParkingKeepsQueued DEF Backed
<1>3. /\ p.pendingCount \in Nat /\ q.pendingCount \in Nat /\ PendingCap \in Nat
      /\ p.pendingCount <= PendingCap
      /\ q \in Pool /\ q.pending \in [Hash -> Seq(PendingBid)]
  BY <1>2, PoolFields, PendingCapType DEF Core, Backed, Roomy
<1> HIDE DEF q, n, r
<1>4. CASE ~OverCapacity(q.pendingCount, PendingCap)
  <2>1. r = q /\ Roomy(q)
    BY <1>1, <1>3, <1>4 DEF OverCapacity, Roomy
  <2> QED
    BY <1>2, <2>1 DEF Backed, r
<1>5. CASE OverCapacity(q.pendingCount, PendingCap)
  <2>1. r = PopPending(q, n)
    BY <1>1, <1>5
  <2>2. present # {}
    <3>1. Cardinality(SlotsOf(q.pending)) # 0
      <4>1. q.pendingCount = Cardinality(SlotsOf(q.pending))
        BY <1>2 DEF Core, Counted, Slots, SlotsOf
      <4> QED
        BY <1>2, <1>3, <4>1
    <3>2. SlotsOf(q.pending) # {}
      BY <3>1, FS_EmptySet
    <3>3. PICK t \in Hash : \E c \in DOMAIN q.pending[t] : TRUE
      BY <3>2, SlotsElements
    <3>4. PICK c \in DOMAIN q.pending[t] : TRUE
      BY <3>3
    <3>5. \E i \in DOMAIN q.pendingOrder : c \in Named(q, i)
      BY <1>2, <1>3, CopyIsNamed
    <3> QED
      BY <3>5
  <2>3. n \in present /\ n \in 1..Len(q.pendingOrder)
    <3>1. DOMAIN q.pendingOrder = 1..Len(q.pendingOrder) /\ Len(q.pendingOrder) \in Nat
      BY <1>3, PoolFields, LenProperties
    <3>2. present \in SUBSET Nat
      BY <3>1
    <3> HIDE DEF present
    <3>3. n \in present
      BY <2>2, <3>2, FirstOfLeast DEF n
    <3> QED
      BY <3>1, <3>3 DEF present
  <2>4. n \in 0..Len(q.pendingOrder)
    BY <2>3
  <2>5. /\ Core(r) /\ Queued(r)
        /\ r.pendingCount = q.pendingCount - Cardinality(Places(Popped(q, n)))
        /\ \A t \in Hash : Popped(q, n)[t] \subseteq DOMAIN q.pending[t]
    BY <1>2, <2>1, <2>4, PopPendingProperties, PoppingKeepsQueued
  <2>6. Cardinality(Places(Popped(q, n))) \in Nat \ {0}
    <3> DEFINE P == Places(Popped(q, n))
               t == q.pendingOrder[n].target
    <3>1. t \in Hash
      BY <1>3, <2>3, NamedType
    <3>2. PICK c : c \in Named(q, n)
      BY <2>3
    <3>3. n \in {j \in 1..n : q.pendingOrder[j].target = t}
      BY <2>3
    <3>4. c \in Popped(q, n)[t]
      BY <3>1, <3>2, <3>3 DEF Popped
    <3>5. <<t, c>> \in P
      BY <3>1, <3>4 DEF Places
    <3>6. P \in SUBSET SlotsOf(q.pending)
      BY <2>5 DEF Places, SlotsOf
    <3>7. IsFiniteSet(P)
      BY <1>3, <3>6, SlotsFinite, FS_Subset
    <3> HIDE DEF P
    <3> QED
      BY <3>5, <3>7, FS_EmptySet, FS_CardinalityType DEF P
  <2>7. Roomy(r)
    BY <1>2, <1>3, <2>5, <2>6 DEF Roomy
  <2> QED
    BY <2>5, <2>7 DEF Backed, r
<1> QED
  BY <1>4, <1>5

\* Taking bids out of a vector leaves the queue naming the rest.
LEMMA TakingKeepsBacked ==
    ASSUME NEW p, Core(p), Backed(p), NEW t \in Hash, NEW gone \in SUBSET DOMAIN p.pending[t]
    PROVE  Backed(Taken(p, t, gone))
<1> DEFINE r == Taken(p, t, gone)
<1>1. /\ Core(r) /\ r.pendingOrder = p.pendingOrder
      /\ r.pending = [p.pending EXCEPT ![t] = Without(p.pending[t], gone)]
      /\ r.pendingCount = p.pendingCount - Cardinality(gone) /\ Cardinality(gone) \in Nat
  BY TakenProperties
<1>2. /\ p.pending \in [Hash -> Seq(PendingBid)] /\ p.pendingOrder \in Seq(QueueEntry)
      /\ p.pendingCount \in Nat /\ PendingCap \in Nat
  BY PoolFields, PendingCapType DEF Core, QueueEntry
<1> HIDE DEF r
<1>3. Roomy(r)
  BY <1>1, <1>2 DEF Backed, Roomy
<1>4. Queued(r)
  <2> SUFFICES ASSUME NEW u \in Hash, NEW b \in Backrun
               PROVE  Cardinality(BidsAt(r.pending[u], b))
                        <= Cardinality(Entries(p.pendingOrder, Entry(u, b)))
    BY <1>1 DEF Queued
  <2> DEFINE m == Cardinality(BidsAt(p.pending[u], b))
             n == Cardinality(Entries(p.pendingOrder, Entry(u, b)))
             k == Cardinality(BidsAt(r.pending[u], b))
  <2>1. m \in Nat /\ n \in Nat /\ m <= n
    BY <1>2, BidsFinite, EntriesFinite DEF Backed, Queued
  <2>2. k <= m /\ k \in Nat
    <3>1. CASE u = t
      <4> DEFINE s == p.pending[t]
                 B == BidsAt(s, b)
      <4>1. s \in Seq(PendingBid) /\ r.pending[u] = Without(s, gone)
        BY <1>1, <1>2, <3>1
      <4> HIDE DEF s
      <4>2. Cardinality(BidsAt(Without(s, gone), b)) <= Cardinality(B \ gone)
        BY <4>1, BidsWithout
      <4>3. Cardinality(BidsAt(Without(s, gone), b)) \in Nat
        BY <4>1, WithoutType, BidsFinite
      <4>4. IsFiniteSet(B) /\ Cardinality(B) \in Nat
        BY <4>1, BidsFinite
      <4> HIDE DEF B
      <4>5. Cardinality(B \ gone) <= Cardinality(B) /\ Cardinality(B \ gone) \in Nat
        BY <4>4, FS_Subset, FS_CardinalityType
      <4>6. m = Cardinality(B) /\ k = Cardinality(BidsAt(Without(s, gone), b))
        BY <3>1, <4>1 DEF s, B
      <4> HIDE DEF m, k
      <4> QED
        BY <4>2, <4>3, <4>4, <4>5, <4>6
    <3>2. CASE u # t
      BY <1>1, <1>2, <2>1, <3>2
    <3> QED
      BY <3>1, <3>2
  <2> HIDE DEF m, n, k
  <2>3. k <= n
    BY <2>1, <2>2
  <2> QED
    BY <2>3 DEF k, n
<1> QED
  BY <1>3, <1>4 DEF Backed, r

\* Each operator the actions are made of keeps the queue naming every bid.
LEMMA EmptyPoolBacked == Backed(EmptyPool)
<1>1. EmptyPool.pendingCount = 0 /\ Roomy(EmptyPool)
  BY EmptyPoolKeeps, PendingCapType DEF Roomy
<1>2. ASSUME NEW t \in Hash, NEW b \in Backrun
      PROVE  Cardinality(BidsAt(EmptyPool.pending[t], b))
               <= Cardinality(Entries(EmptyPool.pendingOrder, Entry(t, b)))
  <2>1. BidsAt(EmptyPool.pending[t], b) = {} /\ Entries(EmptyPool.pendingOrder, Entry(t, b)) = {}
    BY DEF EmptyPool, BidsAt, Entries
  <2> QED
    BY <2>1, FS_EmptySet
<1> QED
  BY <1>1, <1>2 DEF Backed, Queued

\* The clock parks nothing and takes nothing.
LEMMA AgedPositions ==
    ASSUME NEW p, Core(p)
    PROVE  /\ Aged(p).pendingOrder = p.pendingOrder
           /\ \A t \in Hash :
                /\ DOMAIN Aged(p).pending[t] = DOMAIN p.pending[t]
                /\ \A i \in DOMAIN p.pending[t] :
                      Aged(p).pending[t][i].hash = p.pending[t][i].hash
<1> DEFINE r == Aged(p)
<1>1. p \in Pool /\ p.pending \in [Hash -> Seq(PendingBid)]
  BY PoolFields DEF Core
<1>2. /\ r.pendingOrder = p.pendingOrder
      /\ \A t \in Hash : r.pending[t] =
            [i \in DOMAIN p.pending[t] |-> [p.pending[t][i] EXCEPT !.age = Older(@)]]
  BY <1>1 DEF Aged, Pool
<1> HIDE DEF r
<1>3. ASSUME NEW t \in Hash, NEW i \in DOMAIN p.pending[t]
      PROVE  r.pending[t][i].hash = p.pending[t][i].hash
  <2> DEFINE s == p.pending[t]
  <2>1. s \in Seq(PendingBid) /\ i \in DOMAIN s
    BY <1>1
  <2>2. r.pending[t][i] = [s[i] EXCEPT !.age = Older(@)]
    BY <1>2
  <2> HIDE DEF s
  <2>3. s[i] \in PendingBid
    BY <2>1, LenProperties, ElementOfSeq
  <2> QED
    BY <2>2, <2>3 DEF PendingBid, s
<1> QED
  BY <1>2, <1>3 DEF r

\* The clock takes no bid and no entry.
LEMMA AgedKeepsBacked ==
    ASSUME NEW p, Core(p), Backed(p)
    PROVE  Backed(Aged(p))
<1> DEFINE r == Aged(p)
<1>1. r.pendingCount = p.pendingCount
  BY AgedProperties
<1>2. /\ r.pendingOrder = p.pendingOrder
      /\ \A t \in Hash :
           /\ DOMAIN r.pending[t] = DOMAIN p.pending[t]
           /\ \A i \in DOMAIN p.pending[t] : r.pending[t][i].hash = p.pending[t][i].hash
  BY AgedPositions
<1> HIDE DEF r
<1>3. \A t \in Hash : \A b \in Backrun : BidsAt(r.pending[t], b) = BidsAt(p.pending[t], b)
  BY <1>2 DEF BidsAt
<1> QED
  BY <1>1, <1>2, <1>3 DEF Backed, Queued, Roomy, r

\* Unparking takes one copy of the bid, if there is one.
LEMMA UnparkedTakes ==
    ASSUME NEW p \in Pool, NEW b \in Backrun
    PROVE  \/ Unparked(p, b) = p
           \/ \E i \in BidsAt(p.pending[Target[b]], b) : Unparked(p, b) = Taken(p, Target[b], {i})
<1> DEFINE t == Target[b]
           copies == Copies(p, t, b)
<1>1. CASE copies = {}
  BY <1>1 DEF Unparked
<1>2. CASE copies # {}
  <2>1. p.pending[t] \in Seq(PendingBid)
    BY PoolFields, TargetAssumption
  <2>2. copies = BidsAt(p.pending[t], b)
    BY DEF Copies, BidsAt
  <2>3. copies \in SUBSET Nat
    BY <2>1, <2>2, BidsFinite
  <2>4. Unparked(p, b) = Taken(p, t, {FirstOf(copies, 0)})
    BY <1>2 DEF Unparked
  <2> HIDE DEF copies, t
  <2>5. FirstOf(copies, 0) \in copies
    BY <1>2, <2>3, FirstOfLeast
  <2> QED
    BY <2>2, <2>4, <2>5 DEF t
<1> QED
  BY <1>1, <1>2

\* Unparking takes copies and leaves the entries.
LEMMA UnparkedKeepsBacked ==
    ASSUME NEW p, Core(p), Backed(p), NEW b \in Backrun
    PROVE  Backed(Unparked(p, b))
<1> DEFINE t == Target[b]
<1>1. p \in Pool /\ t \in Hash
  BY TargetAssumption DEF Core
<1>2. ASSUME NEW i \in BidsAt(p.pending[t], b) PROVE Backed(Taken(p, t, {i}))
  <2>1. {i} \in SUBSET DOMAIN p.pending[t]
    BY DEF BidsAt
  <2> HIDE DEF t
  <2> QED
    BY <1>1, <2>1, TakingKeepsBacked
<1> QED
  BY <1>1, <1>2, UnparkedTakes

\* So does forget.
LEMMA ForgottenKeepsBacked ==
    ASSUME NEW p, Core(p), Backed(p), NEW h \in Hash
    PROVE  Backed(Forgotten(p, h))
<1> DEFINE q == EntryForgotten(p, h)
           d == DOMAIN q.pending[h]
           t == Taken(q, h, d)
           r == Forgotten(p, h)
<1>1. r = IF h \in Backrun THEN Unparked(t, h) ELSE t
  BY DEF Forgotten, EntryForgotten
<1>2. Core(q) /\ Backed(q)
  BY EntryForgottenProperties, BackedWhenSame
<1> HIDE DEF q, r, t
<1>3. Core(t) /\ Backed(t)
  <2>1. d \in SUBSET DOMAIN q.pending[h]
    OBVIOUS
  <2> HIDE DEF d
  <2> QED
    BY <1>2, <2>1, TakenProperties, TakingKeepsBacked DEF t
<1> QED
  BY <1>1, <1>3, UnparkedKeepsBacked DEF r

\* prune pops entries with the copies they name.
LEMMA PrunedKeepsBacked ==
    ASSUME NEW p, Core(p), Backed(p)
    PROVE  Backed(Pruned(p))
<1> DEFINE q == PrunedCache(p)
<1>1. Pruned(p) = PrunedPending(q)
  BY DEF Pruned
<1>2. Core(q) /\ Backed(q)
  BY PrunedCacheProperties, BackedWhenSame
<1> HIDE DEF q
<1>3. PICK n \in 0..Len(q.pendingOrder) : PrunedPending(q) = PopPending(q, n)
  BY <1>2, PrunedPendingPops
<1> QED
  BY <1>1, <1>2, <1>3, PoppingKeepsBacked

\* observe parks through push_pending and flushes whole vectors.
LEMMA ObservedKeepsBacked ==
    ASSUME NEW p, Core(p), Backed(p), NEW h \in Hash
    PROVE  Backed(Observed(p, h).pool)
<1> DEFINE q == InsertCache(p, h)
           r == Observed(p, h)
<1>1. Core(q) /\ Backed(q)
  BY InsertCacheProperties, BackedWhenSame
<1> HIDE DEF q, r
<1>2. CASE h \in Tob
  <2>1. r.pool = q
    BY <1>2, KindAssumption DEF Observed, q, r, ObserveTob, Result
  <2> QED
    BY <1>1, <2>1 DEF r
<1>3. CASE h \in Backrun
  <2>1. r = ObserveBackrun(q, h)
    BY <1>3, KindAssumption DEF Observed, q, r
  <2>2. r.pool = Streaming(q, Target[h]) \/ r.pool = PushPending(q, h)
    BY <2>1 DEF ObserveBackrun, Result
  <2>3. Target[h] \in Hash
    BY <1>3, TargetAssumption
  <2>4. Backed(Streaming(q, Target[h]))
    <3> DEFINE t == Target[h]
    <3>1. t \in Hash
      BY <2>3
    <3> HIDE DEF t
    <3>2. SameBids(Streaming(q, t), q)
      BY <1>1, <3>1, StreamingProperties
    <3>3. Backed(Streaming(q, t))
      BY <1>1, <3>2, BackedWhenSame
    <3> QED
      BY <3>3 DEF t
  <2>5. Backed(PushPending(q, h))
    BY <1>1, <1>3, PushingKeepsBacked
  <2> QED
    BY <2>2, <2>4, <2>5 DEF r
<1>4. CASE h \in Invalid
  <2>1. r.pool = q
    BY <1>4, KindAssumption DEF Observed, q, r, Result
  <2> QED
    BY <1>1, <2>1 DEF r
<1>5. CASE h \in Vanilla
  <2> DEFINE d == DOMAIN q.pending[h]
             s == Taken(q, h, d)
  <2>1. r.pool = q \/ r.pool = Streaming(s, h)
    BY <1>5, KindAssumption DEF Observed, q, r, ObserveVanilla, Result
  <2>2. Core(s) /\ Backed(s)
    <3>1. d \in SUBSET DOMAIN q.pending[h]
      OBVIOUS
    <3> HIDE DEF d
    <3> QED
      BY <1>1, <3>1, TakenProperties, TakingKeepsBacked
  <2> HIDE DEF s, d
  <2>3. SameBids(Streaming(s, h), s)
    BY <2>2, StreamingProperties
  <2>4. Backed(Streaming(s, h))
    BY <2>2, <2>3, BackedWhenSame
  <2> QED
    BY <1>1, <2>1, <2>4 DEF r
<1> QED
  BY <1>2, <1>3, <1>4, <1>5 DEF Hash

-----------------------------------------------------------------------------
(* The pool as a pairing: which bids wait, and what each operator does to  *)
(* them.  Every bid is parked under the target it names (Placed), and      *)
(* after prune the front of pending_order names a parked bid (BidHead), so *)
(* that a bid just parked is not the one evicted.                          *)

Placed(p) == \A t \in Hash : \A i \in DOMAIN p.pending[t] : Target[p.pending[t][i].hash] = t
BidHead(p) == p.pendingOrder # <<>> => Named(p, 1) # {}

\* r parks nothing that p does not park.
Fewer(r, p) ==
    \A t \in Hash : \A i \in DOMAIN r.pending[t] :
        \E j \in DOMAIN p.pending[t] : r.pending[t][i].hash = p.pending[t][j].hash

\* A bid is parked under t when the vector of t has it.
LEMMA ParkedElements ==
    ASSUME NEW p \in Pool, NEW t \in Hash
    PROVE  \A b : b \in Parked(p, t) <=> \E i \in DOMAIN p.pending[t] : p.pending[t][i].hash = b
<1>1. p.pending[t] \in Seq(PendingBid)
  BY PoolFields
<1>2. \A i \in DOMAIN p.pending[t] : p.pending[t][i].hash \in Backrun
  <2> DEFINE s == p.pending[t]
  <2> SUFFICES ASSUME NEW i \in DOMAIN s PROVE s[i].hash \in Backrun
    OBVIOUS
  <2>1. s \in Seq(PendingBid)
    BY <1>1
  <2> HIDE DEF s
  <2>2. s[i] \in PendingBid
    BY <2>1, LenProperties, ElementOfSeq
  <2> QED
    BY <2>2 DEF PendingBid
<1> QED
  BY <1>2 DEF Parked, Copies

\* A bid waits under the target it names and nowhere else.
LEMMA WaitingElements ==
    ASSUME NEW p \in Pool, Placed(p)
    PROVE  /\ \A b : b \in Waiting(p) <=> b \in Backrun /\ b \in Parked(p, Target[b])
           /\ \A t \in Hash : Parked(p, t) = {b \in Waiting(p) : Target[b] = t}
<1>1. \A t \in Hash : \A b \in Parked(p, t) : b \in Backrun /\ Target[b] = t
  BY ParkedElements DEF Placed, Parked
<1>2. \A b \in Backrun : Target[b] \in Hash
  BY TargetAssumption
<1> QED
  BY <1>1, <1>2 DEF Waiting

\* Parking nothing new keeps every bid in its place.
LEMMA FewerParked ==
    ASSUME NEW p \in Pool, NEW r \in Pool, Placed(p), Fewer(r, p)
    PROVE  /\ Placed(r) /\ Waiting(r) \subseteq Waiting(p)
           /\ \A t \in Hash : Parked(r, t) \subseteq Parked(p, t)
<1>1. \A t \in Hash : Parked(r, t) \subseteq Parked(p, t)
  BY ParkedElements DEF Fewer
<1>2. Placed(r)
  BY DEF Placed, Fewer
<1> QED
  BY <1>1, <1>2 DEF Waiting

\* The same vectors and queue are the same waiting bids.
LEMMA SameBidsSameWaiting ==
    ASSUME NEW p, NEW r, SameBids(r, p)
    PROVE  /\ Waiting(r) = Waiting(p) /\ \A t \in Hash : Parked(r, t) = Parked(p, t)
           /\ Placed(p) => Placed(r)
           /\ BidHead(p) => BidHead(r)
<1>1. \A t, b : Copies(r, t, b) = Copies(p, t, b)
  BY DEF SameBids, Copies
<1>2. \A t : Parked(r, t) = Parked(p, t)
  BY <1>1 DEF Parked
<1>3. Named(r, 1) = Named(p, 1)
  BY <1>1 DEF SameBids, Named
<1> QED
  BY <1>2, <1>3 DEF SameBids, Waiting, Placed, BidHead

\* What Without leaves are the elements at the positions not gone.
LEMMA WithoutElements ==
    ASSUME NEW T, NEW s \in Seq(T), NEW gone
    PROVE  /\ \A i \in DOMAIN Without(s, gone) :
                \E j \in DOMAIN s \ gone : Without(s, gone)[i] = s[j]
           /\ \A j \in DOMAIN s \ gone :
                \E i \in DOMAIN Without(s, gone) : Without(s, gone)[i] = s[j]
<1> DEFINE w == Without(s, gone)
<1>1. /\ w \in Seq(T)
      /\ \A n \in 1..Len(w) : \E i \in Kept(s, gone) : w[n] = s[i]
      /\ \A i \in Kept(s, gone) : \E n \in 1..Len(w) : w[n] = s[i]
  BY WithoutType
<1>2. DOMAIN w = 1..Len(w) /\ Kept(s, gone) = DOMAIN s \ gone
  BY <1>1, LenProperties DEF Kept
<1> QED
  BY <1>1, <1>2

\* In particular what is not taken is still there.
LEMMA WithoutKeeps ==
    ASSUME NEW T, NEW s \in Seq(T), NEW gone, NEW j \in DOMAIN s \ gone
    PROVE  \E i \in DOMAIN Without(s, gone) : Without(s, gone)[i] = s[j]
BY WithoutElements

\* Popping entries parks nothing.
LEMMA PoppingFewer ==
    ASSUME NEW p, Core(p), NEW n \in 0..Len(p.pendingOrder)
    PROVE  Fewer(PopPending(p, n), p)
<1> DEFINE r == PopPending(p, n)
<1>1. r.pending = [t \in Hash |-> Without(p.pending[t], Popped(p, n)[t])]
  BY PopPendingProperties
<1> HIDE DEF r
<1> SUFFICES ASSUME NEW t \in Hash, NEW i \in DOMAIN r.pending[t]
             PROVE  \E j \in DOMAIN p.pending[t] : r.pending[t][i].hash = p.pending[t][j].hash
  BY DEF Fewer, r
<1> DEFINE s == p.pending[t]
           g == Popped(p, n)[t]
<1>2. s \in Seq(PendingBid) /\ r.pending[t] = Without(s, g)
  BY <1>1, PoolFields DEF Core
<1> HIDE DEF s, g
<1>3. PICK j \in DOMAIN s \ g : Without(s, g)[i] = s[j]
  BY <1>2, WithoutElements
<1> QED
  BY <1>2, <1>3 DEF s

\* Nor does taking bids out of a vector.
LEMMA TakingFewer ==
    ASSUME NEW p, Core(p), NEW t \in Hash, NEW gone \in SUBSET DOMAIN p.pending[t]
    PROVE  Fewer(Taken(p, t, gone), p)
<1> DEFINE r == Taken(p, t, gone)
<1>1. /\ Core(r) /\ r.pendingOrder = p.pendingOrder
      /\ r.pending = [p.pending EXCEPT ![t] = Without(p.pending[t], gone)]
  BY TakenProperties
<1>2. p.pending \in [Hash -> Seq(PendingBid)]
  BY PoolFields DEF Core
<1> HIDE DEF r
<1> SUFFICES ASSUME NEW u \in Hash, NEW i \in DOMAIN r.pending[u]
             PROVE  \E j \in DOMAIN p.pending[u] : r.pending[u][i].hash = p.pending[u][j].hash
  BY DEF Fewer, r
<1>3. CASE u = t
  <2> DEFINE s == p.pending[t]
  <2>1. s \in Seq(PendingBid) /\ r.pending[u] = Without(s, gone)
    BY <1>1, <1>2, <1>3
  <2> HIDE DEF s
  <2>2. PICK j \in DOMAIN s \ gone : Without(s, gone)[i] = s[j]
    BY <2>1, WithoutElements
  <2> QED
    BY <1>3, <2>1, <2>2 DEF s
<1>4. CASE u # t
  BY <1>1, <1>2, <1>4
<1> QED
  BY <1>3, <1>4

\* So the same bids wait after a tick, under the same targets.
LEMMA AgedSameWaiting ==
    ASSUME NEW p, Core(p)
    PROVE  /\ Waiting(Aged(p)) = Waiting(p)
           /\ \A t \in Hash : Parked(Aged(p), t) = Parked(p, t)
           /\ Placed(p) => Placed(Aged(p))
           /\ BidHead(p) => BidHead(Aged(p))
<1> DEFINE r == Aged(p)
<1>1. p \in Pool /\ r \in Pool
  BY AgedProperties DEF Core
<1>2. /\ r.pendingOrder = p.pendingOrder
      /\ \A t \in Hash : /\ DOMAIN r.pending[t] = DOMAIN p.pending[t]
                         /\ \A i \in DOMAIN p.pending[t] :
                               r.pending[t][i].hash = p.pending[t][i].hash
  BY AgedPositions
<1> HIDE DEF r
<1>3. \A t \in Hash : \A b : Copies(r, t, b) = Copies(p, t, b)
  BY <1>2 DEF Copies
<1>4. \A t \in Hash : Parked(r, t) = Parked(p, t)
  BY <1>3 DEF Parked
<1>5. Placed(p) => Placed(r)
  BY <1>2 DEF Placed
<1>6. ASSUME p.pendingOrder # <<>> PROVE Named(r, 1) = Named(p, 1)
  <2>1. 1 \in DOMAIN p.pendingOrder
    <3>1. p.pendingOrder \in Seq(QueueEntry)
      BY <1>1, PoolFields DEF QueueEntry
    <3> QED
      BY <1>6, <3>1, LenProperties, EmptySeq
  <2>2. p.pendingOrder[1].target \in Hash
    BY <1>1, <2>1, NamedType
  <2> QED
    BY <1>2, <1>3, <2>2 DEF Named
<1> QED
  BY <1>2, <1>4, <1>5, <1>6 DEF Waiting, BidHead, r

\* Ranks tell the members of a set of positions apart.
LEMMA RankInjective ==
    ASSUME NEW K \in SUBSET Nat, IsFiniteSet(K), NEW i \in K, NEW j \in K,
           Cardinality(UpTo(K, i)) = Cardinality(UpTo(K, j))
    PROVE  i = j
<1>1. /\ i < j => Cardinality(UpTo(K, i)) < Cardinality(UpTo(K, j))
      /\ j < i => Cardinality(UpTo(K, j)) < Cardinality(UpTo(K, i))
  BY RankMonotone
<1>2. Cardinality(UpTo(K, i)) \in 1..Cardinality(K) /\ Cardinality(K) \in Nat
  BY RankInRange, FS_CardinalityType
<1>3. i \in Nat /\ j \in Nat /\ Cardinality(UpTo(K, i)) \in Nat
  BY <1>2
<1> QED
  BY <1>1, <1>3

\* Naming, in terms of places and entries.
LEMMA NamedPlace ==
    ASSUME NEW p \in Pool, NEW i \in DOMAIN p.pendingOrder
    PROVE  LET e == p.pendingOrder[i]
               B == BidsAt(p.pending[e.target], e.bid)
               E == Entries(p.pendingOrder, e)
           IN  /\ e \in QueueEntry /\ i \in E
               /\ Named(p, i) = {c \in B : Cardinality(UpTo(B, c)) = Cardinality(UpTo(E, i))}
<1> DEFINE q == p.pendingOrder
           e == q[i]
           B == BidsAt(p.pending[e.target], e.bid)
           E == Entries(q, e)
<1>1. q \in Seq(QueueEntry)
  BY PoolFields DEF QueueEntry
<1>2. DOMAIN q = 1..Len(q) /\ Len(q) \in Nat /\ e \in QueueEntry /\ i \in 1..Len(q)
  BY <1>1, LenProperties, ElementOfSeq
<1>3. i \in E
  BY DEF Entries
<1>4. UpTo(E, i) = {j \in 1..i : q[j] = e}
  BY <1>2, <1>3 DEF UpTo, Entries
<1>5. Copies(p, e.target, e.bid) = B
  BY DEF Copies, BidsAt
<1>6. \A c : UpTo(B, c) = {d \in Copies(p, e.target, e.bid) : d <= c}
  BY <1>5 DEF UpTo
<1> HIDE DEF B, E
<1>7. Named(p, i) = {c \in B : Cardinality(UpTo(B, c)) = Cardinality(UpTo(E, i))}
  BY <1>4, <1>5, <1>6 DEF Named
<1> QED
  BY <1>2, <1>3, <1>7 DEF B, E

\* No copy is named by two entries.
LEMMA NamedOnce ==
    ASSUME NEW p \in Pool, NEW i \in DOMAIN p.pendingOrder, NEW j \in DOMAIN p.pendingOrder,
           p.pendingOrder[i].target = p.pendingOrder[j].target,
           NEW c \in Named(p, i), c \in Named(p, j)
    PROVE  i = j
<1> DEFINE q == p.pendingOrder
           t == q[i].target
           B(k) == BidsAt(p.pending[q[k].target], q[k].bid)
           E(k) == Entries(q, q[k])
<1>1. \A k \in {i, j} :
        /\ q[k] \in QueueEntry /\ k \in E(k)
        /\ c \in B(k) /\ Cardinality(UpTo(B(k), c)) = Cardinality(UpTo(E(k), k))
  <2>1. /\ q[i] \in QueueEntry /\ i \in E(i)
        /\ c \in B(i) /\ Cardinality(UpTo(B(i), c)) = Cardinality(UpTo(E(i), i))
    BY NamedPlace
  <2>2. /\ q[j] \in QueueEntry /\ j \in E(j)
        /\ c \in B(j) /\ Cardinality(UpTo(B(j), c)) = Cardinality(UpTo(E(j), j))
    BY NamedPlace
  <2> QED
    BY <2>1, <2>2
<1>2. q[i].bid = q[j].bid
  <2>1. c \in B(i) /\ c \in B(j)
    BY <1>1
  <2>2. p.pending[q[i].target][c].hash = q[i].bid
    BY <2>1 DEF BidsAt
  <2>3. p.pending[q[j].target][c].hash = q[j].bid
    BY <2>1 DEF BidsAt
  <2> QED
    BY <2>2, <2>3
<1>3. q[i] = q[j]
  BY <1>1, <1>2 DEF QueueEntry
<1>4. j \in E(i) /\ Cardinality(UpTo(E(i), i)) = Cardinality(UpTo(E(i), j))
  BY <1>1, <1>3
<1>5. E(i) \in SUBSET Nat /\ IsFiniteSet(E(i))
  <2>1. q \in Seq(QueueEntry)
    BY PoolFields DEF QueueEntry
  <2> QED
    BY <2>1, EntriesFinite
<1> HIDE DEF E
<1> QED
  BY <1>1, <1>4, <1>5, RankInjective

\* No entry names two copies.
LEMMA NamesOne ==
    ASSUME NEW p \in Pool, NEW i \in DOMAIN p.pendingOrder,
           NEW c \in Named(p, i), NEW d \in Named(p, i)
    PROVE  c = d
<1> DEFINE e == p.pendingOrder[i]
           s == p.pending[e.target]
           B == BidsAt(s, e.bid)
<1>1. /\ e \in QueueEntry
      /\ c \in B /\ d \in B /\ Cardinality(UpTo(B, c)) = Cardinality(UpTo(B, d))
  BY NamedPlace
<1>2. s \in Seq(PendingBid)
  BY <1>1, PoolFields DEF QueueEntry
<1> HIDE DEF s, e
<1>3. B \in SUBSET Nat /\ IsFiniteSet(B)
  BY <1>2, BidsFinite
<1> HIDE DEF B
<1> QED
  BY <1>1, <1>3, RankInjective

\* What the loops count is what the vectors lose.
LEMMA HitsExact ==
    ASSUME NEW p, Core(p), NEW n \in 0..Len(p.pendingOrder)
    PROVE  Hits(p, n) = Cardinality(Places(Popped(p, n)))
<1> DEFINE q == p.pendingOrder
           S == {i \in 1..n : Named(p, i) # {}}
           G == Places(Popped(p, n))
           copy(i) == CHOOSE c : c \in Named(p, i)
           F == [i \in S |-> <<q[i].target, copy(i)>>]
<1>1. p \in Pool /\ n \in Nat /\ \A i \in S : i \in DOMAIN q
  <2>1. p \in Pool /\ Len(q) \in Nat /\ DOMAIN q = 1..Len(q)
    BY PoolFields, LenProperties DEF Core
  <2> QED
    BY <2>1
<1>2. \A i \in S : copy(i) \in Named(p, i)
  OBVIOUS
<1> HIDE DEF copy
<1>3. \A i \in S : q[i].target \in Hash
  BY <1>1, NamedType
<1>4. \A x : x \in G <=> \E t \in Hash : \E i \in 1..n : \E c \in Named(p, i) :
                            q[i].target = t /\ x = <<t, c>>
  <2>1. \A t \in Hash : \A c : c \in Popped(p, n)[t] <=>
           \E i \in 1..n : q[i].target = t /\ c \in Named(p, i)
    BY DEF Popped
  <2>2. \A x : x \in G <=> \E t \in Hash : \E c \in Popped(p, n)[t] : x = <<t, c>>
    <3> DEFINE g == Popped(p, n)
    <3>1. DOMAIN g = Hash
      BY DEF Popped
    <3> HIDE DEF g
    <3>2. \A x : x \in Places(g) <=> \E t \in Hash : \E c \in g[t] : x = <<t, c>>
      BY <3>1 DEF Places
    <3> QED
      BY <3>2 DEF g
  <2> HIDE DEF G
  <2> QED
    BY <2>1, <2>2
<1>5. F \in [S -> G]
  <2> SUFFICES ASSUME NEW i \in S PROVE F[i] \in G
    OBVIOUS
  <2>1. F[i] = <<q[i].target, copy(i)>> /\ i \in 1..n
    OBVIOUS
  <2> HIDE DEF F, G, S
  <2> QED
    BY <1>2, <1>3, <1>4, <2>1
<1>6. \A i, j \in S : F[i] = F[j] => i = j
  <2> SUFFICES ASSUME NEW i \in S, NEW j \in S, F[i] = F[j] PROVE i = j
    OBVIOUS
  <2>1. q[i].target = q[j].target /\ copy(i) = copy(j)
    OBVIOUS
  <2> HIDE DEF F, G, S, q
  <2>2. copy(i) \in Named(p, i) /\ copy(i) \in Named(p, j)
    BY <1>2, <2>1
  <2> QED
    BY <1>1, <2>1, <2>2, NamedOnce DEF q
<1>7. ASSUME NEW x \in G PROVE \E i \in S : F[i] = x
  <2>0. PICK i \in 1..n : \E c \in Named(p, i) : x = <<q[i].target, c>>
    <3> HIDE DEF G, q
    <3> QED
      BY <1>4, <1>7
  <2>1. PICK c \in Named(p, i) : x = <<q[i].target, c>>
    BY <2>0
  <2>2. i \in S
    BY <2>1
  <2>3. F[i] = <<q[i].target, copy(i)>>
    BY <2>2
  <2> HIDE DEF F, S
  <2>4. copy(i) = c
    BY <1>1, <1>2, <2>1, <2>2, NamesOne
  <2> QED
    BY <2>1, <2>2, <2>3, <2>4
<1>8. IsFiniteSet(S) /\ Hits(p, n) = Cardinality(S)
  BY <1>1, HitsType DEF Hits
<1> HIDE DEF F, S, G
<1>9. F \in Bijection(S, G)
  BY <1>5, <1>6, <1>7, Fun_IsBij, Fun_IsInj, Fun_IsSurj
<1> QED
  BY <1>8, <1>9, FS_Bijection, Fun_ExistsBij DEF G

\* prune returns the number of bids it takes out of the vectors.
LEMMA ExpiredExact ==
    ASSUME NEW p, Core(p)
    PROVE  Expired(p) = p.pendingCount - Pruned(p).pendingCount
<1> DEFINE q == PrunedCache(p)
           n == Outdated(q)
<1>1. Core(q) /\ q.pendingCount = p.pendingCount
  BY PrunedCacheProperties DEF SameBids
<1>2. Pruned(p) = PrunedPending(q) /\ Expired(p) = Hits(q, n)
  BY DEF Pruned, Expired
<1> HIDE DEF q
<1>3. n \in 0..Len(q.pendingOrder) /\ PrunedPending(q) = PopPending(q, n)
  BY <1>1, PrunedPendingPops
<1> HIDE DEF n
<1>4. /\ Hits(q, n) = Cardinality(Places(Popped(q, n)))
      /\ PopPending(q, n).pendingCount = q.pendingCount - Cardinality(Places(Popped(q, n)))
  BY <1>1, <1>3, HitsExact, PopPendingProperties
<1>5. q.pendingCount \in Nat /\ Hits(q, n) \in Nat
  <2>1. q \in Pool /\ n \in Nat
    BY <1>1, <1>3, PoolFields, LenProperties DEF Core
  <2> QED
    BY <2>1, PoolFields, HitsType
<1> QED
  BY <1>1, <1>2, <1>3, <1>4, <1>5

\* push_pending returns the number of bids it takes out of the vectors.
LEMMA EvictedExact ==
    ASSUME NEW p, Core(p), NEW b \in Backrun
    PROVE  Evicted(p, b) = p.pendingCount + 1 - PushPending(p, b).pendingCount
<1> DEFINE q == Parking(p, b)
           n == Overflow(q)
<1>1. Core(q) /\ q.pendingCount = p.pendingCount + 1 /\ p.pendingCount \in Nat
  BY ParkingProperties, PoolFields DEF Core
<1>2. /\ Evicted(p, b) = IF OverCapacity(q.pendingCount, PendingCap) THEN Hits(q, n) ELSE 0
      /\ PushPending(p, b) =
           IF OverCapacity(q.pendingCount, PendingCap) THEN PopPending(q, n) ELSE q
  BY DEF Evicted, PushPending
<1> HIDE DEF q
<1>3. n \in 0..Len(q.pendingOrder)
  BY <1>1, OverflowRange DEF Core
<1> HIDE DEF n
<1>4. /\ Hits(q, n) = Cardinality(Places(Popped(q, n)))
      /\ PopPending(q, n).pendingCount = q.pendingCount - Cardinality(Places(Popped(q, n)))
  BY <1>1, <1>3, HitsExact, PopPendingProperties
<1>5. Hits(q, n) \in Nat
  <2>1. q \in Pool /\ n \in Nat
    BY <1>1, <1>3, PoolFields, LenProperties DEF Core
  <2> QED
    BY <2>1, HitsType
<1> QED
  BY <1>1, <1>2, <1>4, <1>5

\* The counters of observe account for every bid: what is parked plus what is
\* newly parked is what stays, what was evicted and what was flushed; and a bid
\* is parked or paired, while nothing else is unless it is vanilla.
LEMMA ObservedBalances ==
    ASSUME NEW p, Core(p), NEW h \in Hash
    PROVE  LET r == Observed(p, h)
           IN  /\ p.pendingCount + r.pended =
                    r.pool.pendingCount + r.evicted + (IF h \in Vanilla THEN r.matched ELSE 0)
               /\ r.pended + (IF h \in Vanilla THEN 0 ELSE r.matched) =
                    (IF h \in Backrun THEN 1 ELSE 0)
<1> DEFINE q == InsertCache(p, h)
           r == Observed(p, h)
<1>1. Core(q) /\ q.pendingCount = p.pendingCount /\ p.pendingCount \in Nat
  BY InsertCacheProperties, PoolFields DEF SameBids, Core
<1> HIDE DEF q, r
<1> SUFFICES /\ p.pendingCount + r.pended =
                  r.pool.pendingCount + r.evicted + (IF h \in Vanilla THEN r.matched ELSE 0)
             /\ r.pended + (IF h \in Vanilla THEN 0 ELSE r.matched) =
                  (IF h \in Backrun THEN 1 ELSE 0)
  BY DEF r
<1>2. CASE h \in Tob
  <2>1. /\ r.pool = q /\ r.pended = 0 /\ r.evicted = 0 /\ r.matched = 0
        /\ h \notin Vanilla /\ h \notin Backrun
    BY <1>2, KindAssumption DEF Observed, q, r, ObserveTob, Result
  <2> QED
    BY <1>1, <2>1
<1>3. CASE h \in Backrun
  <2> DEFINE t == Target[h]
             parked == PushPending(q, h)
  <2>1. r = ObserveBackrun(q, h) /\ h \notin Vanilla /\ t \in Hash
    BY <1>3, KindAssumption, TargetAssumption DEF Observed, q, r
  <2>2. CASE q.cache[t] # Absent
    <3>1. /\ r.pool = Streaming(q, t) /\ r.pended = 0 /\ r.evicted = 0
          /\ r.matched = 1
      BY <2>1, <2>2 DEF ObserveBackrun, Result
    <3> HIDE DEF t
    <3>2. r.pool.pendingCount = q.pendingCount
      BY <1>1, <2>1, <3>1, StreamingProperties DEF SameBids
    <3> QED
      BY <1>1, <1>3, <2>1, <3>1, <3>2
  <2>3. CASE q.cache[t] = Absent
    <3>1. /\ r.pool = parked /\ r.pended = 1 /\ r.matched = 0
          /\ r.evicted = Evicted(q, h)
      BY <2>1, <2>3 DEF ObserveBackrun, Result
    <3>2. Core(parked) /\ Evicted(q, h) = q.pendingCount + 1 - parked.pendingCount
      BY <1>1, <1>3, PushPendingProperties, EvictedExact
    <3> HIDE DEF parked
    <3>3. parked.pendingCount \in Nat
      BY <3>2, PoolFields DEF Core
    <3> QED
      BY <1>1, <1>3, <2>1, <3>1, <3>2, <3>3
  <2> QED
    BY <2>2, <2>3
<1>4. CASE h \in Invalid
  <2>1. /\ r.pool = q /\ r.pended = 0 /\ r.evicted = 0 /\ r.matched = 0
        /\ h \notin Vanilla /\ h \notin Backrun
    BY <1>4, KindAssumption DEF Observed, q, r, Result
  <2> QED
    BY <1>1, <2>1
<1>5. CASE h \in Vanilla
  <2> DEFINE bids == q.pending[h]
             d == DOMAIN bids
             s == Taken(q, h, d)
  <2>1. r = ObserveVanilla(q, h) /\ h \notin Backrun
    BY <1>5, KindAssumption DEF Observed, q, r
  <2>2. CASE bids = <<>>
    <3>1. r.pool = q /\ r.pended = 0 /\ r.evicted = 0 /\ r.matched = 0
      BY <2>1, <2>2 DEF ObserveVanilla, Result
    <3> QED
      BY <1>1, <1>5, <2>1, <3>1
  <2>3. CASE bids # <<>>
    <3>1. r.pool = Streaming(s, h) /\ r.pended = 0 /\ r.evicted = 0 /\ r.matched = Len(bids)
      BY <2>1, <2>3 DEF ObserveVanilla, Result
    <3>2. bids \in Seq(PendingBid)
      BY <1>1, PoolFields DEF Core
    <3>3. d = 1..Len(bids) /\ Len(bids) \in Nat
      BY <3>2, LenProperties
    <3>4. Core(s) /\ s.pendingCount = q.pendingCount - Cardinality(d)
      <4>1. d \in SUBSET DOMAIN q.pending[h]
        OBVIOUS
      <4> HIDE DEF d, bids
      <4>2. Core(q)
        BY <1>1
      <4> HIDE DEF q, r
      <4>3. Core(Taken(q, h, d)) /\ Taken(q, h, d).pendingCount = q.pendingCount - Cardinality(d)
        BY <4>1, <4>2, TakenProperties
      <4> QED
        BY <4>3
    <3>5. Cardinality(d) = Len(bids)
      <4> DEFINE k == Len(bids)
      <4>1. k \in Nat /\ d = 1..k
        BY <3>3
      <4> HIDE DEF k, d
      <4>2. Cardinality(1..k) = k
        BY <4>1, FS_Interval
      <4> QED
        BY <4>1, <4>2 DEF k
    <3> HIDE DEF s, d, bids
    <3>6. r.pool.pendingCount = s.pendingCount
      BY <3>1, <3>4, StreamingProperties DEF SameBids
    <3> QED
      BY <1>1, <1>5, <2>1, <3>1, <3>3, <3>4, <3>5, <3>6
  <2> QED
    BY <2>2, <2>3
<1> QED
  BY <1>2, <1>3, <1>4, <1>5 DEF Hash

\* The first entry names a copy as long as there is one.
LEMMA HeadNames ==
    ASSUME NEW p \in Pool, p.pendingOrder # <<>>,
           p.pendingOrder[1].bid \in Parked(p, p.pendingOrder[1].target)
    PROVE  Named(p, 1) # {}
<1> DEFINE q == p.pendingOrder
           e == q[1]
           B == BidsAt(p.pending[e.target], e.bid)
           E == Entries(q, e)
<1>1. q \in Seq(QueueEntry) /\ DOMAIN q = 1..Len(q) /\ Len(q) \in Nat \ {0}
  BY PoolFields, LenProperties, EmptySeq DEF QueueEntry
<1>2. /\ e \in QueueEntry /\ 1 \in E
      /\ Named(p, 1) = {c \in B : Cardinality(UpTo(B, c)) = Cardinality(UpTo(E, 1))}
  BY <1>1, NamedPlace
<1>3. B \in SUBSET Nat /\ IsFiniteSet(B) /\ Cardinality(B) \in Nat /\ B # {}
  <2>1. p.pending[e.target] \in Seq(PendingBid)
    BY <1>2, PoolFields DEF QueueEntry
  <2>2. B # {}
    BY DEF Parked, Copies, BidsAt
  <2> QED
    BY <2>1, <2>2, BidsFinite
<1>4. UpTo(E, 1) = {1}
  <2>1. E \subseteq 1..Len(q)
    BY <1>1 DEF Entries
  <2> HIDE DEF E, q
  <2>2. 1 \in E /\ \A j \in E : j \in Nat /\ j >= 1
    BY <1>1, <1>2, <2>1
  <2>3. \A j \in E : j <= 1 <=> j = 1
    BY <2>2
  <2> QED
    BY <2>2, <2>3 DEF UpTo
<1> HIDE DEF B, E
<1>5. Cardinality(UpTo(E, 1)) = 1
  BY <1>4, FS_Singleton
<1>6. 1 \in 1..Cardinality(B)
  BY <1>3, FS_EmptySet
<1>7. PICK c \in B : Cardinality(UpTo(B, c)) = 1
  BY <1>3, <1>6, RankOnto
<1> QED
  BY <1>2, <1>5, <1>7

\* prune stops at an entry whose bid is parked, or empties the queue.
LEMMA PrunedHead ==
    ASSUME NEW p, Core(p)
    PROVE  BidHead(PrunedPending(p))
<1> DEFINE fresh == {i \in DOMAIN p.pendingOrder :
                       \E c \in Named(p, i) :
                          p.pending[p.pendingOrder[i].target][c].age < TTL}
           len == Len(p.pendingOrder)
           n == FirstOf(fresh, len + 1) - 1
           r == PopPending(p, n)
<1>1. PrunedPending(p) = r
  BY DEF PrunedPending, Outdated
<1>2. /\ p \in Pool /\ p.pendingOrder \in Seq(QueueEntry)
      /\ len \in Nat /\ DOMAIN p.pendingOrder = 1..len /\ fresh \in SUBSET (1..len)
  BY PoolFields, LenProperties DEF Core, QueueEntry
<1>3. /\ n \in 0..len
      /\ fresh = {} => n = len
      /\ fresh # {} => n + 1 \in fresh
  <2> HIDE DEF fresh, len
  <2>0. len \in Nat /\ len + 1 \in Nat /\ fresh \in SUBSET (1..len)
    BY <1>2
  <2>1. /\ FirstOf(fresh, len + 1) \in Nat
        /\ fresh # {} => FirstOf(fresh, len + 1) \in 1..len
        /\ fresh = {} => FirstOf(fresh, len + 1) = len + 1
    BY <2>0, FirstOfRange
  <2>2. fresh # {} => FirstOf(fresh, len + 1) \in fresh
    <3>1. fresh \in SUBSET Nat
      BY <1>2
    <3> QED
      BY <3>1, FirstOfLeast
  <2> QED
    BY <1>2, <2>1, <2>2
<1> HIDE DEF n, r
<1>4. /\ Core(r) /\ r.pendingOrder = Dropped(p.pendingOrder, n)
      /\ r.pending = [t \in Hash |-> Without(p.pending[t], Popped(p, n)[t])]
  BY <1>3, PopPendingProperties DEF r
<1>5. /\ r.pendingOrder \in Seq(QueueEntry) /\ Len(r.pendingOrder) = len - n
      /\ \A i \in 1..(len - n) : r.pendingOrder[i] = p.pendingOrder[n + i]
  <2> HIDE DEF len
  <2>1. n \in Nat /\ n <= len
    BY <1>2, <1>3
  <2> QED
    BY <1>2, <1>4, <2>1, DroppedProperties DEF len
<1>6. SUFFICES ASSUME r.pendingOrder # <<>> PROVE Named(r, 1) # {}
  BY <1>1 DEF BidHead
<1>7. fresh # {} /\ n + 1 \in DOMAIN p.pendingOrder
  <2>1. len - n # 0
    BY <1>5, <1>6, EmptySeq
  <2> HIDE DEF fresh, len
  <2> QED
    BY <1>2, <1>3, <2>1
<1> DEFINE e == p.pendingOrder[n + 1]
           t == e.target
           s == p.pending[t]
           g == Popped(p, n)[t]
<1>8. e \in QueueEntry /\ t \in Hash /\ s \in Seq(PendingBid)
  BY <1>2, <1>7, NamedPlace, PoolFields DEF QueueEntry
<1>9. PICK c \in Named(p, n + 1) : TRUE
  BY <1>3, <1>7
<1>10. c \in DOMAIN s /\ s[c].hash = e.bid
  <2>1. c \in BidsAt(p.pending[e.target], e.bid)
    BY <1>2, <1>7, NamedPlace
  <2> QED
    BY <2>1 DEF BidsAt
<1>11. c \notin g
  <2>1. SUFFICES ASSUME c \in g PROVE FALSE
    OBVIOUS
  <2>2. PICK i \in 1..n : p.pendingOrder[i].target = t /\ c \in Named(p, i)
    BY <1>8, <2>1 DEF Popped
  <2>3. i \in DOMAIN p.pendingOrder /\ i # n + 1
    <3> HIDE DEF len
    <3> QED
      BY <1>2, <1>3
  <2> QED
    BY <1>2, <1>7, <1>9, <2>2, <2>3, NamedOnce
<1>12. \E i \in DOMAIN r.pending[t] : r.pending[t][i].hash = e.bid
  <2>1. r.pending[t] = Without(s, g)
    BY <1>4, <1>8
  <2> HIDE DEF s, g, t
  <2>2. c \in DOMAIN s \ g
    BY <1>10, <1>11
  <2>3. s \in Seq(PendingBid)
    BY <1>8
  <2>4. PICK i \in DOMAIN Without(s, g) : Without(s, g)[i] = s[c]
    BY <2>2, <2>3, WithoutKeeps
  <2> QED
    BY <1>10, <2>1, <2>4
<1>13. r \in Pool /\ e.bid \in Parked(r, t)
  BY <1>4, <1>8, <1>12, ParkedElements DEF Core
<1>14. r.pendingOrder[1] = e
  <2> HIDE DEF len
  <2>1. 1 \in 1..(len - n)
    BY <1>2, <1>3, <1>7
  <2> QED
    BY <1>5, <2>1
<1> HIDE DEF e
<1> QED
  BY <1>6, <1>13, <1>14, HeadNames

\* A parked bid is the element behind those that were parked before.
LEMMA ParkingPlaces ==
    ASSUME NEW p, Core(p), NEW b \in Backrun
    PROVE  LET q == Parking(p, b)
               u == Target[b]
               l == Len(p.pending[u]) + 1
           IN  /\ \A t \in Hash \ {u} : q.pending[t] = p.pending[t]
               /\ u \in Hash /\ l \in Nat \ {0} /\ q.pending[u][l].hash = b
               /\ DOMAIN p.pending[u] = 1..(l - 1) /\ DOMAIN q.pending[u] = 1..l
               /\ \A i \in DOMAIN p.pending[u] : q.pending[u][i] = p.pending[u][i]
<1> DEFINE q == Parking(p, b)
           u == Target[b]
           s == p.pending[u]
           bid == [hash |-> b, age |-> 0]
           l == Len(s) + 1
<1>1. p.pending \in [Hash -> Seq(PendingBid)] /\ u \in Hash /\ bid \in PendingBid
  BY PoolFields, TargetAssumption, AgeType DEF Core, PendingBid
<1>2. q.pending = [p.pending EXCEPT ![u] = Append(s, bid)]
  BY ParkingProperties
<1>3. s \in Seq(PendingBid) /\ bid.hash = b
  BY <1>1
<1> HIDE DEF q, bid, u, s
<1>4. /\ Append(s, bid) \in Seq(PendingBid) /\ Len(Append(s, bid)) = l
      /\ Append(s, bid)[l] = bid /\ \A i \in 1..Len(s) : Append(s, bid)[i] = s[i]
      /\ Len(s) \in Nat /\ DOMAIN s = 1..Len(s)
  BY <1>1, <1>3, AppendProperties, LenProperties
<1>5. q.pending[u] = Append(s, bid) /\ \A t \in Hash \ {u} : q.pending[t] = p.pending[t]
  BY <1>1, <1>2
<1>6. DOMAIN Append(s, bid) = 1..l
  BY <1>4, LenProperties
<1>7. l \in Nat \ {0} /\ l - 1 = Len(s)
  BY <1>4
<1> HIDE DEF l
<1> QED
  BY <1>1, <1>3, <1>4, <1>5, <1>6, <1>7 DEF q, u, s, l

\* So it waits, and nothing else begins to.
LEMMA ParkingMaps ==
    ASSUME NEW p, Core(p), Placed(p), NEW b \in Backrun
    PROVE  LET q == Parking(p, b)
           IN  /\ Placed(q)
               /\ Waiting(q) \subseteq Waiting(p) \cup {b}
<1> DEFINE q == Parking(p, b)
           u == Target[b]
           l == Len(p.pending[u]) + 1
<1>1. /\ \A t \in Hash \ {u} : q.pending[t] = p.pending[t]
      /\ u \in Hash /\ l \in Nat \ {0} /\ q.pending[u][l].hash = b
      /\ DOMAIN p.pending[u] = 1..(l - 1) /\ DOMAIN q.pending[u] = 1..l
      /\ \A i \in DOMAIN p.pending[u] : q.pending[u][i] = p.pending[u][i]
  BY ParkingPlaces
<1>2. p \in Pool /\ q \in Pool
  BY ParkingProperties DEF Core
<1> HIDE DEF q, l
<1>3. ASSUME NEW t \in Hash, NEW i \in DOMAIN q.pending[t]
      PROVE  \/ t = u /\ q.pending[t][i].hash = b
             \/ i \in DOMAIN p.pending[t] /\ q.pending[t][i] = p.pending[t][i]
  BY <1>1, <1>3
<1>4. Placed(q)
  BY <1>3 DEF Placed
<1>5. \A t \in Hash : Parked(q, t) \subseteq Parked(p, t) \cup {b}
  BY <1>2, <1>3, ParkedElements
<1> QED
  BY <1>4, <1>5 DEF Waiting, q

\* There are no more waiting bids than places.
LEMMA WaitingBounded ==
    ASSUME NEW p, Core(p), Placed(p), Backed(p)
    PROVE  IsFiniteSet(Waiting(p)) /\ Cardinality(Waiting(p)) <= PendingCap
<1> DEFINE W == Waiting(p)
           place(b) == CHOOSE i \in DOMAIN p.pending[Target[b]] : p.pending[Target[b]][i].hash = b
           f == [b \in W |-> <<Target[b], place(b)>>]
           S == SlotsOf(p.pending)
<1>1. p \in Pool /\ p.pending \in [Hash -> Seq(PendingBid)]
  BY PoolFields DEF Core
<1>2. \A b \in W : /\ b \in Backrun /\ Target[b] \in Hash
                   /\ place(b) \in DOMAIN p.pending[Target[b]]
                   /\ p.pending[Target[b]][place(b)].hash = b
  <2> SUFFICES ASSUME NEW b \in W
               PROVE  /\ b \in Backrun /\ Target[b] \in Hash
                      /\ \E i \in DOMAIN p.pending[Target[b]] : p.pending[Target[b]][i].hash = b
    OBVIOUS
  <2>1. b \in Backrun /\ b \in Parked(p, Target[b])
    BY <1>1, WaitingElements
  <2> QED
    BY <1>1, <2>1, ParkedElements, TargetAssumption
<1> HIDE DEF place, W
<1>3. \A b \in W : f[b] \in S
  BY <1>2, SlotsElements
<1>4. \A b, c \in W : f[b] = f[c] => b = c
  <2> SUFFICES ASSUME NEW b \in W, NEW c \in W, f[b] = f[c] PROVE b = c
    OBVIOUS
  <2>1. Target[b] = Target[c] /\ place(b) = place(c)
    OBVIOUS
  <2> QED
    BY <1>2, <2>1
<1>5. f \in [W -> S]
  BY <1>3
<1> HIDE DEF f, S
<1>6. f \in Injection(W, S)
  BY <1>4, <1>5, Fun_IsInj
<1>7. IsFiniteSet(S) /\ Cardinality(S) \in Nat /\ Cardinality(S) = p.pendingCount
  BY <1>1, SlotsFinite DEF S, Core, Counted, Slots, SlotsOf
<1>8. IsFiniteSet(W) /\ Cardinality(W) <= Cardinality(S)
  BY <1>6, <1>7, FS_Injection
<1>9. Cardinality(W) \in Nat /\ PendingCap \in Nat /\ Cardinality(S) <= PendingCap
  BY <1>7, <1>8, FS_CardinalityType, PendingCapType DEF Backed, Roomy
<1> QED
  BY <1>7, <1>8, <1>9 DEF W

\* push_pending parks the bid, and never evicts the bid it has just parked,
\* as long as the queue begins with an entry that names a parked bid.
LEMMA PushingMaps ==
    ASSUME NEW p, Core(p), Placed(p), Backed(p), BidHead(p), NEW b \in Backrun
    PROVE  LET r == PushPending(p, b)
           IN  /\ Placed(r)
               /\ Waiting(r) \subseteq Waiting(p) \cup {b}
               /\ b \in Waiting(r)
<1> DEFINE q == Parking(p, b)
           u == Target[b]
           s == p.pending[u]
           l == Len(s) + 1
           present == {i \in DOMAIN q.pendingOrder : Named(q, i) # {}}
           n == FirstOf(present, Len(q.pendingOrder))
           r == PushPending(p, b)
<1>1. r = IF OverCapacity(q.pendingCount, PendingCap) THEN PopPending(q, n) ELSE q
  BY DEF PushPending, Overflow
<1>2. /\ Core(q) /\ q.pendingCount = p.pendingCount + 1
      /\ q.pendingOrder = Append(p.pendingOrder, [target |-> u, bid |-> b])
  BY ParkingProperties
<1>3. /\ u \in Hash /\ l \in Nat \ {0} /\ q.pending[u][l].hash = b
      /\ DOMAIN s = 1..(l - 1) /\ DOMAIN q.pending[u] = 1..l
      /\ \A i \in DOMAIN s : q.pending[u][i] = s[i]
      /\ \A t \in Hash \ {u} : q.pending[t] = p.pending[t]
  BY ParkingPlaces
<1>4. Placed(q) /\ Waiting(q) \subseteq Waiting(p) \cup {b}
  BY ParkingMaps
<1>5. p \in Pool /\ q \in Pool
  BY <1>2 DEF Core
<1> HIDE DEF q, r, n, l
<1>6. CASE ~OverCapacity(q.pendingCount, PendingCap)
  <2>1. r = q
    BY <1>1, <1>6
  <2>2. b \in Parked(q, u)
    <3>1. l \in DOMAIN q.pending[u]
      BY <1>3
    <3> QED
      BY <1>3, <1>5, <3>1, ParkedElements
  <2>3. b \in Waiting(q)
    BY <1>3, <2>2 DEF Waiting
  <2> QED
    BY <1>4, <2>1, <2>3 DEF r
<1>7. CASE OverCapacity(q.pendingCount, PendingCap)
  <2>1. r = PopPending(q, n)
    BY <1>1, <1>7
  <2>2. /\ p.pendingOrder \in Seq(QueueEntry) /\ p.pendingOrder # <<>>
        /\ Len(p.pendingOrder) \in Nat \ {0}
    <3>1. p.pendingOrder \in Seq(QueueEntry) /\ p.pendingCount \in Nat
      BY <1>5, PoolFields DEF QueueEntry
    <3>2. p.pendingCount # 0
      BY <1>2, <1>7, <3>1, PendingCapType DEF OverCapacity
    <3>3. SlotsOf(p.pending) # {}
      BY <3>2, FS_EmptySet DEF Core, Counted, Slots, SlotsOf
    <3>4. PICK t \in Hash : \E c \in DOMAIN p.pending[t] : TRUE
      BY <3>3, SlotsElements
    <3>5. \E i \in DOMAIN p.pendingOrder : TRUE
      BY <1>5, <3>4, CopyIsNamed DEF Backed
    <3> QED
      BY <3>1, <3>5, EmptySeq, LenProperties
  <2> DEFINE e == p.pendingOrder[1]
  <2>3. e \in QueueEntry /\ q.pendingOrder[1] = e /\ q.pendingOrder # <<>>
    <3> DEFINE x == [target |-> u, bid |-> b]
    <3>1. x \in QueueEntry
      BY <1>3 DEF QueueEntry
    <3> HIDE DEF x
    <3>2. q.pendingOrder = Append(p.pendingOrder, x)
      BY <1>2 DEF x
    <3> QED
      BY <2>2, <3>1, <3>2, AppendProperties, ElementOfSeq, EmptySeq
  <2>4. 1 \in DOMAIN p.pendingOrder /\ 1 \in DOMAIN q.pendingOrder
    <3>1. q.pendingOrder \in Seq(QueueEntry)
      BY <1>5, PoolFields DEF QueueEntry
    <3> QED
      BY <2>2, <2>3, <3>1, LenProperties, EmptySeq
  <2> HIDE DEF e
  <2>5. PICK d \in DOMAIN p.pending[e.target] : p.pending[e.target][d].hash = e.bid
    <3>1. PICK c : c \in Named(p, 1)
      BY <2>2 DEF BidHead
    <3>2. c \in BidsAt(p.pending[e.target], e.bid)
      BY <1>5, <2>4, <3>1, NamedPlace DEF e
    <3> QED
      BY <3>2 DEF BidsAt
  <2>6. e.target \in Hash
    BY <2>3 DEF QueueEntry
  <2>7. d \in DOMAIN q.pending[e.target] /\ q.pending[e.target][d].hash = e.bid
    <3>1. CASE e.target = u
      BY <1>3, <2>5, <3>1
    <3>2. CASE e.target # u
      BY <1>3, <2>5, <2>6, <3>2
    <3> QED
      BY <3>1, <3>2
  <2>8. Named(q, 1) # {}
    <3>1. e.bid \in Parked(q, e.target)
      BY <1>5, <2>6, <2>7, ParkedElements
    <3> QED
      BY <1>5, <2>3, <3>1, HeadNames
  <2>9. n = 1 /\ 1 \in 0..Len(q.pendingOrder)
    <3>1. q.pendingOrder \in Seq(QueueEntry)
      BY <1>5, PoolFields DEF QueueEntry
    <3>2. DOMAIN q.pendingOrder = 1..Len(q.pendingOrder) /\ Len(q.pendingOrder) \in Nat
      BY <3>1, LenProperties
    <3>3. 1 \in present /\ present \in SUBSET Nat /\ \A i \in present : i \in Nat /\ i >= 1
      BY <2>4, <2>8, <3>2
    <3> HIDE DEF present
    <3>4. n \in present /\ n <= 1
      BY <3>3, FirstOfLeast DEF n
    <3> QED
      BY <2>4, <3>2, <3>3, <3>4
  <2>10. /\ Core(r) /\ Fewer(r, q)
         /\ r.pending = [t \in Hash |-> Without(q.pending[t], Popped(q, 1)[t])]
    BY <1>2, <2>1, <2>9, PopPendingProperties, PoppingFewer
  <2>11. Placed(r) /\ Waiting(r) \subseteq Waiting(p) \cup {b}
    BY <1>4, <1>5, <2>10, FewerParked DEF Core
  <2>12. l \notin Popped(q, 1)[u]
    <3>1. SUFFICES ASSUME l \in Popped(q, 1)[u] PROVE FALSE
      OBVIOUS
    <3>2. e.target = u /\ l \in Named(q, 1)
      BY <1>3, <2>3, <3>1 DEF Popped
    <3> DEFINE B == BidsAt(q.pending[e.target], e.bid)
               E == Entries(q.pendingOrder, e)
    <3>3. l \in B /\ Cardinality(UpTo(B, l)) = Cardinality(UpTo(E, 1)) /\ 1 \in E
      BY <1>5, <2>3, <2>4, <3>2, NamedPlace
    <3>4. d \in B
      BY <2>7 DEF BidsAt
    <3>5. d < l
      BY <1>3, <2>5, <3>2
    <3>6. B \in SUBSET Nat /\ IsFiniteSet(B) /\ Cardinality(B) \in Nat
      <4>1. q.pending[e.target] \in Seq(PendingBid)
        BY <1>5, <2>6, PoolFields
      <4> QED
        BY <4>1, BidsFinite
    <3>7. E \in SUBSET Nat /\ E \in SUBSET {i \in Nat : i >= 1}
      <4>1. q.pendingOrder \in Seq(QueueEntry)
        BY <1>5, PoolFields DEF QueueEntry
      <4> QED
        BY <4>1, LenProperties DEF Entries
    <3> HIDE DEF B, E
    <3>8. Cardinality(UpTo(E, 1)) = 1
      <4>1. \A i \in E : i <= 1 <=> i = 1
        BY <3>7
      <4>2. UpTo(E, 1) = {1}
        BY <3>3, <4>1 DEF UpTo
      <4> QED
        BY <4>2, FS_Singleton
    <3>9. /\ Cardinality(UpTo(B, d)) \in 1..Cardinality(B)
          /\ Cardinality(UpTo(B, d)) < Cardinality(UpTo(B, l))
      BY <3>3, <3>4, <3>5, <3>6, RankInRange, RankMonotone
    <3>10. Cardinality(UpTo(B, l)) = 1
      BY <3>3, <3>8
    <3> QED
      BY <3>6, <3>9, <3>10
  <2>13. b \in Parked(r, u)
    <3> DEFINE v == q.pending[u]
               g == Popped(q, 1)[u]
    <3>1. v \in Seq(PendingBid) /\ r.pending[u] = Without(v, g) /\ l \in DOMAIN v
      <4>1. q.pending \in [Hash -> Seq(PendingBid)]
        BY <1>5, PoolFields
      <4>2. l \in DOMAIN v
        BY <1>3
      <4>3. r.pending[u] = Without(v, g)
        BY <1>3, <2>10
      <4> HIDE DEF u
      <4> QED
        BY <1>3, <4>1, <4>2, <4>3
    <3>2. v[l].hash = b /\ l \notin g
      BY <1>3, <2>12
    <3> HIDE DEF v, g
    <3>3. l \in DOMAIN v \ g
      BY <3>1, <3>2
    <3>4. PICK i \in DOMAIN Without(v, g) : Without(v, g)[i] = v[l]
      BY <3>1, <3>3, WithoutKeeps
    <3>5. r.pending[u][i].hash = b /\ i \in DOMAIN r.pending[u]
      BY <3>1, <3>2, <3>4
    <3> QED
      BY <1>3, <2>10, <3>5, ParkedElements DEF Core
  <2>14. b \in Waiting(r)
    BY <1>3, <2>13 DEF Waiting
  <2> QED
    BY <2>11, <2>14 DEF r
<1> QED
  BY <1>6, <1>7

\* The marks that survive are those whose entries survive.
LEMMA PopCacheMarksKept ==
    ASSUME NEW p, Core(p), NEW n
    PROVE  PopCache(p, n).streamed = p.streamed \cap Cached(PopCache(p, n))
<1> DEFINE r == PopCache(p, n)
           popped == {p.cacheOrder[i] : i \in 1..n}
<1>1. /\ r.cache = [h \in Hash |-> IF h \in popped THEN Absent ELSE p.cache[h]]
      /\ r.streamed = p.streamed \ (popped \cap Cached(p))
  BY DEF PopCache, Core, Pool
<1> HIDE DEF r, popped
<1>2. Cached(r) = Cached(p) \ popped
  BY <1>1 DEF Cached
<1> QED
  BY <1>1, <1>2 DEF Core, r

\* insert_cache drops marks only with their entries.
LEMMA InsertCacheMarksKept ==
    ASSUME NEW p, Core(p), NEW h \in Hash
    PROVE  InsertCache(p, h).streamed = p.streamed \cap Cached(InsertCache(p, h))
<1> DEFINE q == Cacheing(p, h)
           n == FirstOf({i \in DOMAIN q.cacheOrder : q.cache[q.cacheOrder[i]] # Absent},
                        Len(q.cacheOrder))
           r == InsertCache(p, h)
<1>1. Core(q) /\ q.streamed = p.streamed /\ Cached(q) = Cached(p) \cup {h}
  BY CacheingProperties
<1>2. r = q \/ r = PopCache(q, n)
  BY DEF InsertCache, Cacheing
<1> HIDE DEF q, n, r
<1>3. CASE r = q
  BY <1>1, <1>3 DEF Core, r
<1>4. CASE r = PopCache(q, n)
  BY <1>1, <1>4, PopCacheMarksKept DEF r
<1> QED
  BY <1>2, <1>3, <1>4

\* prune, and the tick that may follow it, forget and lose, and prepare the
\* pool for observe.
LEMMA SeenMaps ==
    ASSUME NEW p, Core(p), Placed(p), Backed(p), NEW seen \in {Pruned(p), Aged(Pruned(p))}
    PROVE  /\ Placed(seen) /\ Backed(seen) /\ BidHead(seen)
           /\ Waiting(seen) \subseteq Waiting(p)
           /\ Cached(seen) \subseteq Cached(p)
           /\ seen.streamed = p.streamed \cap Cached(seen)
<1> DEFINE q == PrunedCache(p)
           r == PrunedPending(q)
<1>1. Core(q) /\ SameBids(q, p) /\ Cached(q) \subseteq Cached(p)
  BY PrunedCacheProperties
<1>2. q.streamed = p.streamed \cap Cached(q)
  BY PopCacheMarksKept DEF PrunedCache
<1>3. Placed(q) /\ Waiting(q) = Waiting(p)
  BY <1>1, SameBidsSameWaiting
<1>4. Pruned(p) = r
  BY DEF Pruned
<1> HIDE DEF q
<1>5. PICK n \in 0..Len(q.pendingOrder) : r = PopPending(q, n)
  BY <1>1, PrunedPendingPops
<1>6. /\ Core(r) /\ SameTargets(r, q) /\ r.streamed = q.streamed /\ Fewer(r, q)
      /\ BidHead(r)
  <2>1. Core(r) /\ SameTargets(r, q) /\ r.streamed = q.streamed
    <3> HIDE DEF r
    <3> QED
      BY <1>1, <1>5, PopPendingProperties
  <2>2. Fewer(r, q) /\ BidHead(r)
    BY <1>1, <1>5, PoppingFewer, PrunedHead
  <2> QED
    BY <2>1, <2>2
<1>7. Backed(r)
  BY <1>4, PrunedKeepsBacked
<1> HIDE DEF r
<1>8. Cached(r) = Cached(q)
  BY <1>6 DEF SameTargets, Cached
<1>9. Placed(r) /\ Waiting(r) \subseteq Waiting(q)
  BY <1>1, <1>3, <1>6, FewerParked DEF Core
<1>10. CASE seen = r
  BY <1>1, <1>2, <1>3, <1>6, <1>7, <1>8, <1>9, <1>10
<1>11. CASE seen = Aged(r)
  <2>1. Cached(seen) = Cached(r) /\ seen.streamed = r.streamed
    BY <1>6, <1>11, AgedProperties
  <2>2. Waiting(seen) = Waiting(r) /\ Placed(seen) /\ BidHead(seen) /\ Backed(seen)
    BY <1>6, <1>7, <1>9, <1>11, AgedSameWaiting, AgedKeepsBacked
  <2> QED
    BY <1>1, <1>2, <1>3, <1>6, <1>8, <1>9, <2>1, <2>2
<1> QED
  BY <1>4, <1>10, <1>11

\* Taking the whole vector of a target leaves what waits for other targets.
LEMMA TakingAllMaps ==
    ASSUME NEW p, Core(p), Placed(p), NEW h \in Hash
    PROVE  LET r == Taken(p, h, DOMAIN p.pending[h])
           IN  /\ Core(r) /\ SameTargets(r, p) /\ r.streamed = p.streamed
               /\ Placed(r) /\ Waiting(r) = Waiting(p) \ Parked(p, h)
<1> DEFINE s == p.pending[h]
           d == DOMAIN s
           r == Taken(p, h, d)
<1>1. p \in Pool /\ p.pending \in [Hash -> Seq(PendingBid)] /\ s \in Seq(PendingBid)
  BY PoolFields DEF Core
<1>2. d \in SUBSET DOMAIN p.pending[h] /\ Without(s, d) = <<>>
  BY <1>1, WithoutAll
<1> HIDE DEF d
<1>3. /\ Core(r) /\ SameTargets(r, p) /\ r.streamed = p.streamed
      /\ r.pending = [p.pending EXCEPT ![h] = Without(p.pending[h], d)]
  BY <1>2, TakenProperties
<1>4. Fewer(r, p)
  BY <1>2, TakingFewer
<1> HIDE DEF r
<1>5. r \in Pool /\ Placed(r)
  BY <1>1, <1>3, <1>4, FewerParked DEF Core
<1>6. \A t \in Hash : r.pending[t] = IF t = h THEN <<>> ELSE p.pending[t]
  BY <1>1, <1>2, <1>3
<1>7. \A t \in Hash : \A b : b \in Parked(r, t) <=> t # h /\ b \in Parked(p, t)
  BY <1>1, <1>5, <1>6, ParkedElements
<1>8. Waiting(r) = Waiting(p) \ Parked(p, h)
  <2>1. \A b \in Backrun : Target[b] \in Hash
    BY TargetAssumption
  <2>2. \A b : b \in Waiting(r) <=> b \in Backrun /\ Target[b] # h /\ b \in Parked(p, Target[b])
    BY <1>5, <1>7, <2>1, WaitingElements
  <2>3. \A b : b \in Waiting(p) <=> b \in Backrun /\ b \in Parked(p, Target[b])
    BY <1>1, WaitingElements
  <2>4. \A b : b \in Parked(p, h) <=> b \in Waiting(p) /\ Target[b] = h
    BY <1>1, WaitingElements
  <2> QED
    BY <2>2, <2>3, <2>4
<1> QED
  BY <1>3, <1>5, <1>8 DEF r, d

\* Unparking a bid leaves the others, and the bid too if it is parked twice.
LEMMA UnparkedMaps ==
    ASSUME NEW p, Core(p), Placed(p), NEW b \in Backrun
    PROVE  LET r == Unparked(p, b)
           IN  /\ SameTargets(r, p) /\ r.streamed = p.streamed
               /\ Placed(r) /\ Waiting(r) \in {Waiting(p), Waiting(p) \ {b}}
<1> DEFINE t == Target[b]
           r == Unparked(p, b)
<1>1. /\ p \in Pool /\ t \in Hash /\ p.pending \in [Hash -> Seq(PendingBid)]
      /\ Core(r) /\ SameTargets(r, p) /\ r.streamed = p.streamed
  BY TargetAssumption, PoolFields, UnparkedProperties DEF Core
<1> HIDE DEF t, r
<1>2. CASE r = p
  BY <1>1, <1>2 DEF r
<1>3. CASE \E i \in BidsAt(p.pending[t], b) : r = Taken(p, t, {i})
  <2>1. PICK k \in BidsAt(p.pending[t], b) : r = Taken(p, t, {k})
    BY <1>3
  <2> DEFINE gone == {k}
  <2>2. gone \in SUBSET DOMAIN p.pending[t] /\ \A i \in gone : p.pending[t][i].hash = b
    BY DEF BidsAt
  <2> HIDE DEF gone
  <2>3. Fewer(r, p) /\ r.pending = [p.pending EXCEPT ![t] = Without(p.pending[t], gone)]
    <3>1. Fewer(Taken(p, t, gone), p)
      BY <1>1, <2>2, TakingFewer
    <3>2. LET s == Taken(p, t, gone)
          IN  /\ Core(s) /\ s.pendingOrder = p.pendingOrder
              /\ s.pending = [p.pending EXCEPT ![t] = Without(p.pending[t], gone)]
      BY <1>1, <2>2, TakenProperties
    <3> QED
      BY <2>1, <3>1, <3>2 DEF gone
  <2>4. r \in Pool /\ Placed(r) /\ Waiting(r) \subseteq Waiting(p)
    BY <1>1, <2>3, FewerParked DEF Core
  <2>5. ASSUME NEW c \in Waiting(p), c # b PROVE c \in Waiting(r)
    <3> DEFINE u == Target[c]
               s == p.pending[u]
    <3>1. c \in Backrun /\ c \in Parked(p, u) /\ u \in Hash
      BY <1>1, TargetAssumption, WaitingElements
    <3>2. PICK i \in DOMAIN s : s[i].hash = c
      BY <1>1, <3>1, ParkedElements
    <3>3. s \in Seq(PendingBid)
      BY <1>1, <3>1
    <3> HIDE DEF u
    <3>4. \E j \in DOMAIN r.pending[u] : r.pending[u][j].hash = c
      <4>1. CASE u = t
        <5>1. r.pending[u] = Without(s, gone) /\ i \notin gone
          BY <1>1, <2>2, <2>3, <2>5, <3>2, <4>1
        <5> HIDE DEF s
        <5>2. PICK j \in DOMAIN Without(s, gone) : Without(s, gone)[j] = s[i]
          BY <3>2, <3>3, <5>1, WithoutKeeps
        <5> QED
          BY <3>2, <5>1, <5>2
      <4>2. CASE u # t
        BY <1>1, <2>3, <3>1, <3>2, <4>2
      <4> QED
        BY <4>1, <4>2
    <3>5. c \in Parked(r, u)
      BY <2>4, <3>1, <3>4, ParkedElements
    <3> QED
      BY <3>1, <3>5 DEF Waiting
  <2>6. Waiting(r) = Waiting(p) \/ Waiting(r) = Waiting(p) \ {b}
    BY <2>4, <2>5
  <2> QED
    BY <1>1, <2>4, <2>6 DEF r
<1> QED
  BY <1>1, <1>2, <1>3, UnparkedTakes DEF t, r

\* forget ends the wait for h, and perhaps the wait of h.
LEMMA ForgottenMaps ==
    ASSUME NEW p, Core(p), Placed(p), NEW h \in Hash
    PROVE  LET r == Forgotten(p, h)
               W == Waiting(p) \ Parked(p, h)
           IN  /\ Placed(r)
               /\ Cached(r) = Cached(p) \ {h}
               /\ r.streamed = p.streamed \ {h}
               /\ Waiting(r) \in {W, W \ {h}}
<1> DEFINE q == EntryForgotten(p, h)
           t == Taken(q, h, DOMAIN q.pending[h])
           r == Forgotten(p, h)
           W == Waiting(p) \ Parked(p, h)
<1>1. r = IF h \in Backrun THEN Unparked(t, h) ELSE t
  BY DEF Forgotten, EntryForgotten
<1>2. Core(q) /\ SameBids(q, p) /\ Cached(q) = Cached(p) \ {h}
  BY EntryForgottenProperties
<1>3. q.streamed = p.streamed \ {h}
  BY DEF EntryForgotten, Core, Pool
<1> HIDE DEF q, r
<1>4. Placed(q) /\ Waiting(q) = Waiting(p) /\ Parked(q, h) = Parked(p, h)
  BY <1>2, SameBidsSameWaiting
<1>5. /\ Core(t) /\ SameTargets(t, q) /\ t.streamed = q.streamed
      /\ Placed(t) /\ Waiting(t) = W
  BY <1>2, <1>4, TakingAllMaps
<1> HIDE DEF t, W
<1>6. /\ SameTargets(r, t) /\ r.streamed = t.streamed /\ Placed(r)
      /\ Waiting(r) \in {W, W \ {h}}
  <2>1. CASE h \in Backrun
    BY <1>1, <1>5, <2>1, UnparkedMaps
  <2>2. CASE h \notin Backrun
    BY <1>1, <1>5, <2>2 DEF SameTargets
  <2> QED
    BY <2>1, <2>2
<1>7. Cached(r) = Cached(p) \ {h}
  BY <1>2, <1>5, <1>6 DEF SameTargets, Cached
<1> QED
  BY <1>3, <1>5, <1>6, <1>7 DEF r, W

\* What is sent, as a set.
LEMMA SetOfConcat ==
    ASSUME NEW T, NEW s \in Seq(T), NEW t \in Seq(T)
    PROVE  ToSet(s \o t) = ToSet(s) \cup ToSet(t)
<1> DEFINE w == s \o t
<1>1. /\ w \in Seq(T) /\ Len(w) = Len(s) + Len(t)
      /\ \A i \in 1..Len(s) : w[i] = s[i]
      /\ \A i \in 1..Len(t) : w[Len(s) + i] = t[i]
      /\ Len(s) \in Nat /\ Len(t) \in Nat
      /\ DOMAIN s = 1..Len(s) /\ DOMAIN t = 1..Len(t)
  BY ConcatProperties, LenProperties
<1>2. DOMAIN w = 1..(Len(s) + Len(t))
  BY <1>1, LenProperties
<1> HIDE DEF w
<1>3. ASSUME NEW i \in DOMAIN w PROVE w[i] \in ToSet(s) \cup ToSet(t)
  <2>1. CASE i \in 1..Len(s)
    BY <1>1, <2>1 DEF ToSet
  <2>2. CASE i \notin 1..Len(s)
    <3>1. i - Len(s) \in 1..Len(t) /\ Len(s) + (i - Len(s)) = i
      BY <1>1, <1>2, <2>2
    <3> QED
      BY <1>1, <3>1 DEF ToSet
  <2> QED
    BY <2>1, <2>2
<1>4. ASSUME NEW i \in DOMAIN s PROVE s[i] \in ToSet(w)
  <2>1. i \in DOMAIN w
    BY <1>1, <1>2
  <2> QED
    BY <1>1, <2>1 DEF ToSet
<1>5. ASSUME NEW i \in DOMAIN t PROVE t[i] \in ToSet(w)
  <2>1. Len(s) + i \in DOMAIN w
    BY <1>1, <1>2
  <2> QED
    BY <1>1, <2>1 DEF ToSet
<1> QED
  BY <1>3, <1>4, <1>5 DEF ToSet, w

\* The same with one element more.
LEMMA SetOfAppend ==
    ASSUME NEW T, NEW s \in Seq(T), NEW e \in T
    PROVE  ToSet(Append(s, e)) = ToSet(s) \cup {e}
<1> DEFINE w == Append(s, e)
<1>1. /\ w \in Seq(T) /\ Len(w) = Len(s) + 1
      /\ \A i \in 1..Len(s) : w[i] = s[i]
      /\ w[Len(s) + 1] = e
      /\ Len(s) \in Nat /\ DOMAIN s = 1..Len(s)
  BY AppendProperties, LenProperties
<1>2. DOMAIN w = 1..(Len(s) + 1)
  BY <1>1, LenProperties
<1> HIDE DEF w
<1>3. \A i \in DOMAIN w : i \in DOMAIN s \/ i = Len(s) + 1
  BY <1>1, <1>2
<1>4. \A i \in DOMAIN s : i \in DOMAIN w
  BY <1>1, <1>2
<1>5. Len(s) + 1 \in DOMAIN w
  BY <1>1, <1>2
<1> QED
  BY <1>1, <1>3, <1>4, <1>5 DEF ToSet, w

\* What a cached target is offered: nothing once it is marked.
OfferSet(p, t) == IF t \in p.streamed THEN {} ELSE {Offer(t)}

\* The first bid for a cached target offers it, and leaves the mark.
LEMMA OpportunityMaps ==
    ASSUME NEW p, Core(p), NEW t \in Cached(p)
    PROVE  /\ t \in Hash
           /\ ToSet(Opportunity(p, t)) = OfferSet(p, t)
           /\ Streaming(p, t).streamed = p.streamed \cup {t}
<1>1. p.cache[t] # Absent /\ t \in Hash
  BY DEF Cached
<1>2. Opportunity(p, t) = IF t \in p.streamed THEN <<>> ELSE <<Offer(t)>>
  BY <1>1 DEF Opportunity, Offer
<1>3. ToSet(<<>>) = {} /\ ToSet(<<Offer(t)>>) = {Offer(t)}
  BY DEF ToSet
<1>4. Streaming(p, t).streamed = p.streamed \cup {t}
  BY <1>1 DEF Streaming, Core, Pool
<1> QED
  BY <1>1, <1>2, <1>3, <1>4 DEF OfferSet

\* A vanilla transaction releases what waits for it.
LEMMA VanillaMaps ==
    ASSUME NEW q, Core(q), Placed(q), NEW h \in Vanilla, h \in Cached(q)
    PROVE  LET r == ObserveVanilla(q, h)
               B == Parked(q, h)
           IN  /\ Placed(r.pool) /\ Cached(r.pool) = Cached(q)
               /\ Waiting(r.pool) = Waiting(q) \ B
               /\ B = {} => ToSet(r.reinjections) = {} /\ r.pool.streamed = q.streamed
               /\ B # {} => /\ ToSet(r.reinjections) =
                                 {BidReinjection(b, h) : b \in B} \cup OfferSet(q, h)
                            /\ r.pool.streamed = q.streamed \cup {h}
<1> DEFINE bids == q.pending[h]
           s == Taken(q, h, DOMAIN bids)
           o == Opportunity(q, h)
           sends == [i \in DOMAIN bids |-> BidReinjection(bids[i].hash, h)]
           r == ObserveVanilla(q, h)
           B == Parked(q, h)
<1>1. h \in Hash /\ q \in Pool /\ bids \in Seq(PendingBid)
  BY PoolFields DEF Hash, Core
<1>2. DOMAIN bids = 1..Len(bids) /\ Len(bids) \in Nat
  BY <1>1, LenProperties
<1>3. \A b : b \in B <=> \E i \in DOMAIN bids : bids[i].hash = b
  BY <1>1, ParkedElements
<1>4. CASE bids = <<>>
  <2>1. r.pool = q /\ r.reinjections = <<>>
    BY <1>4 DEF ObserveVanilla, Result
  <2>2. B = {} /\ ToSet(<<>>) = {}
    BY <1>3, <1>4 DEF ToSet
  <2> QED
    BY <2>1, <2>2
<1>5. CASE bids # <<>>
  <2>1. r.pool = Streaming(s, h) /\ r.reinjections = o \o sends
    BY <1>5 DEF ObserveVanilla, Result
  <2>2. /\ Core(s) /\ SameTargets(s, q) /\ s.streamed = q.streamed
        /\ Placed(s) /\ Waiting(s) = Waiting(q) \ B
    BY <1>1, TakingAllMaps
  <2>3. B # {}
    <3>1. Len(bids) # 0
      BY <1>1, <1>5, EmptySeq
    <3>2. 1 \in DOMAIN bids
      BY <1>2, <3>1
    <3> QED
      BY <1>3, <3>2
  <2>4. ToSet(sends) = {BidReinjection(b, h) : b \in B} /\ sends \in Seq(Reinjection)
    <3> HIDE DEF bids, B
    <3>1. ToSet(sends) = {BidReinjection(b, h) : b \in B}
      BY <1>3 DEF ToSet
    <3>2. ASSUME NEW i \in DOMAIN bids PROVE BidReinjection(bids[i].hash, h) \in Reinjection
      <4>1. bids[i] \in PendingBid
        BY <1>1, LenProperties, ElementOfSeq
      <4> QED
        BY <1>1, <4>1, BidReinjectionType DEF PendingBid
    <3>3. sends \in [1..Len(bids) -> Reinjection]
      BY <1>2, <3>2
    <3> HIDE DEF sends
    <3>4. sends \in Seq(Reinjection)
      BY <1>2, <3>3, SeqDef
    <3> QED
      BY <3>1, <3>4
  <2> HIDE DEF s, sends, r, o
  <2>5. ToSet(r.reinjections) = ToSet(o) \cup ToSet(sends)
    BY <1>1, <2>1, <2>4, OpportunityType, SetOfConcat DEF o
  <2>6. ToSet(o) = OfferSet(q, h)
    BY OpportunityMaps DEF o
  <2>7. Cached(s) = Cached(q)
    BY <2>2 DEF SameTargets, Cached
  <2>8. r.pool.streamed = q.streamed \cup {h}
    BY <2>1, <2>2, <2>7, OpportunityMaps
  <2>9. /\ Placed(r.pool) /\ Cached(r.pool) = Cached(q)
        /\ Waiting(r.pool) = Waiting(q) \ B
    <3>1. SameBids(Streaming(s, h), s) /\ SameTargets(Streaming(s, h), s)
      BY <1>1, <2>2, StreamingProperties
    <3>2. Placed(Streaming(s, h)) /\ Waiting(Streaming(s, h)) = Waiting(s)
      BY <2>2, <3>1, SameBidsSameWaiting
    <3>3. Cached(Streaming(s, h)) = Cached(s)
      BY <3>1 DEF SameTargets, Cached
    <3> QED
      BY <2>1, <2>2, <2>7, <3>2, <3>3
  <2> QED
    BY <2>3, <2>4, <2>5, <2>6, <2>8, <2>9 DEF r
<1> QED
  BY <1>4, <1>5

\* A bid whose target is cached is sent at once, and none is parked or released.
LEMMA PairedMaps ==
    ASSUME NEW q, Core(q), Placed(q), NEW b \in Backrun, Target[b] \in Cached(q)
    PROVE  LET r == ObserveBackrun(q, b)
               t == Target[b]
           IN  /\ Placed(r.pool) /\ Cached(r.pool) = Cached(q)
               /\ ToSet(r.reinjections) = {BidReinjection(b, t)} \cup OfferSet(q, t)
               /\ r.pool.streamed = q.streamed \cup {t}
               /\ Waiting(r.pool) = Waiting(q)
               /\ \A u \in Hash : Parked(r.pool, u) = Parked(q, u)
<1> DEFINE t == Target[b]
           r == ObserveBackrun(q, b)
           s == Streaming(q, t)
           o == Opportunity(q, t)
           e == BidReinjection(b, t)
<1>1. t \in Hash /\ q \in Pool /\ t \in Cached(q)
  BY TargetAssumption DEF Core
<1>2. r.pool = s /\ r.reinjections = Append(o, e)
  BY DEF ObserveBackrun, Result, Cached
<1>3. o \in Seq(Reinjection) /\ e \in Reinjection
  BY <1>1, OpportunityType, BidReinjectionType
<1> HIDE DEF t, r
<1>4. ToSet(o) = OfferSet(q, t) /\ s.streamed = q.streamed \cup {t}
  BY <1>1, OpportunityMaps
<1>5. SameBids(s, q) /\ SameTargets(s, q)
  BY <1>1, StreamingProperties
<1> HIDE DEF o, e, s
<1>6. ToSet(Append(o, e)) = {e} \cup OfferSet(q, t)
  BY <1>3, <1>4, SetOfAppend
<1>7. /\ Placed(s) /\ Waiting(s) = Waiting(q) /\ Cached(s) = Cached(q)
      /\ \A u \in Hash : Parked(s, u) = Parked(q, u)
  BY <1>5, SameBidsSameWaiting DEF SameTargets, Cached
<1> QED
  BY <1>2, <1>4, <1>6, <1>7 DEF t, r, e

\* A bid is sent behind its target if that is cached, and waits otherwise.
LEMMA BackrunMaps ==
    ASSUME NEW q, Core(q), Placed(q), Backed(q), BidHead(q), NEW b \in Backrun
    PROVE  LET r == ObserveBackrun(q, b)
               t == Target[b]
           IN  /\ Placed(r.pool) /\ Cached(r.pool) = Cached(q)
               /\ t \in Cached(q) =>
                    /\ ToSet(r.reinjections) = {BidReinjection(b, t)} \cup OfferSet(q, t)
                    /\ r.pool.streamed = q.streamed \cup {t}
                    /\ Waiting(r.pool) = Waiting(q)
               /\ t \notin Cached(q) =>
                    /\ ToSet(r.reinjections) = {} /\ r.pool.streamed = q.streamed
                    /\ Waiting(r.pool) \subseteq Waiting(q) \cup {b}
                    /\ b \in Waiting(r.pool)
                    /\ Cardinality(Waiting(r.pool)) <= PendingCap
<1> DEFINE t == Target[b]
           r == ObserveBackrun(q, b)
<1>1. t \in Hash /\ q \in Pool
  BY TargetAssumption DEF Core
<1>2. CASE t \in Cached(q)
  BY <1>2, PairedMaps
<1>3. CASE t \notin Cached(q)
  <2> DEFINE s == PushPending(q, b)
  <2>1. r.pool = s /\ r.reinjections = <<>>
    BY <1>1, <1>3 DEF ObserveBackrun, Result, Cached
  <2>2. ToSet(<<>>) = {}
    BY DEF ToSet
  <2>3. Core(s) /\ SameTargets(s, q) /\ s.streamed = q.streamed
    BY PushPendingProperties
  <2>4. Placed(s) /\ Waiting(s) \subseteq Waiting(q) \cup {b} /\ b \in Waiting(s)
    BY PushingMaps
  <2>5. Backed(s)
    BY PushingKeepsBacked
  <2> HIDE DEF s, r
  <2>6. Cardinality(Waiting(s)) <= PendingCap
    BY <2>3, <2>4, <2>5, WaitingBounded
  <2>7. Cached(s) = Cached(q)
    BY <2>3 DEF SameTargets, Cached
  <2> QED
    BY <1>3, <2>1, <2>2, <2>3, <2>4, <2>6, <2>7 DEF r
<1> QED
  BY <1>2, <1>3

-----------------------------------------------------------------------------
(* Why bids stop being parked: pruning takes what outlived the TTL, parking *)
(* one more evicts at capacity only, and observe sends what it releases.   *)

\* A bid that pruning loses had a copy that outlived the TTL, and is counted.
LEMMA PrunedLosesOld ==
    ASSUME NEW p, Core(p), NEW t \in Hash, NEW b \in Parked(p, t), b \notin Parked(Pruned(p), t)
    PROVE  /\ \E c \in Copies(p, t, b) : p.pending[t][c].age = TTL
           /\ Pruned(p).pendingCount < p.pendingCount
<1> DEFINE q == PrunedCache(p)
<1>1. Core(q) /\ SameBids(q, p)
  BY PrunedCacheProperties
<1>2. Pruned(p) = PrunedPending(q)
  BY DEF Pruned
<1> HIDE DEF q
<1>3. PICK n \in 0..Len(q.pendingOrder) :
        /\ PrunedPending(q) = PopPending(q, n)
        /\ \A i \in 1..n : \A c \in Named(q, i) :
              q.pending[q.pendingOrder[i].target][c].age = TTL
  BY <1>1, PrunedPendingPops
<1> DEFINE r == PopPending(q, n)
           gone == Popped(q, n)
           s == q.pending[t]
<1>4. /\ Core(r) /\ r.pending = [u \in Hash |-> Without(q.pending[u], gone[u])]
      /\ \A u \in Hash : gone[u] \subseteq DOMAIN q.pending[u]
      /\ r.pendingCount = q.pendingCount - Cardinality(Places(gone))
  BY <1>1, PopPendingProperties
<1>5. Pruned(p) = r
  BY <1>2, <1>3
<1> HIDE DEF r
<1>6. q \in Pool /\ r \in Pool /\ s \in Seq(PendingBid) /\ q.pendingCount \in Nat
      /\ q.pending \in [Hash -> Seq(PendingBid)]
  BY <1>1, <1>4, PoolFields DEF Core
<1>7. b \in Parked(q, t) /\ b \notin Parked(r, t) /\ Copies(q, t, b) = Copies(p, t, b)
  BY <1>1, <1>5, SameBidsSameWaiting DEF SameBids, Copies
<1>8. PICK c \in Copies(q, t, b) : TRUE
  BY <1>7 DEF Parked
<1>9. c \in DOMAIN s /\ s[c].hash = b
  BY <1>8 DEF Copies
<1>10. c \in gone[t]
  <2> SUFFICES ASSUME c \notin gone[t] PROVE FALSE
    OBVIOUS
  <2> HIDE DEF s, gone
  <2>1. PICK i \in DOMAIN Without(s, gone[t]) : Without(s, gone[t])[i] = s[c]
    BY <1>6, <1>9, WithoutKeeps
  <2>2. r.pending[t] = Without(s, gone[t])
    BY <1>4 DEF s
  <2> QED
    BY <1>6, <1>7, <1>9, <2>1, <2>2, ParkedElements
<1>11. PICK i \in 1..n : q.pendingOrder[i].target = t /\ c \in Named(q, i)
  BY <1>10 DEF Popped
<1>12. q.pending[t][c].age = TTL
  BY <1>3, <1>11
<1>13. Cardinality(Places(gone)) \in Nat \ {0}
  <2> HIDE DEF gone
  <2>1. <<t, c>> \in Places(gone)
    BY <1>10 DEF Places
  <2>2. Places(gone) \subseteq SlotsOf(q.pending)
    BY <1>4 DEF Places, SlotsOf
  <2>3. IsFiniteSet(Places(gone))
    BY <1>6, <2>2, SlotsFinite, FS_Subset
  <2> QED
    BY <2>1, <2>3, FS_CardinalityType, FS_EmptySet
<1>14. r.pendingCount < q.pendingCount
  BY <1>4, <1>6, <1>13
<1> QED
  BY <1>1, <1>5, <1>7, <1>8, <1>12, <1>14 DEF SameBids

\* With room, a bid is parked and nothing else changes: the vectors keep what
\* they have.
LEMMA PushingWithRoom ==
    ASSUME NEW p, Core(p), NEW b \in Backrun, p.pendingCount + 1 <= PendingCap
    PROVE  LET r == PushPending(p, b)
           IN  /\ Core(r) /\ SameTargets(r, p) /\ r.streamed = p.streamed
               /\ r.pendingCount = p.pendingCount + 1
               /\ Placed(p) => Placed(r)
               /\ \A t \in Hash : Parked(r, t) =
                     Parked(p, t) \cup (IF t = Target[b] THEN {b} ELSE {})
<1> DEFINE q == Parking(p, b)
           u == Target[b]
           l == Len(p.pending[u]) + 1
<1>1. /\ Core(q) /\ SameTargets(q, p) /\ q.streamed = p.streamed
      /\ q.pendingCount = p.pendingCount + 1
      /\ Placed(p) => Placed(q)
  BY ParkingProperties, ParkingMaps
<1>2. /\ \A t \in Hash \ {u} : q.pending[t] = p.pending[t]
      /\ u \in Hash /\ l \in Nat \ {0} /\ q.pending[u][l].hash = b
      /\ DOMAIN p.pending[u] = 1..(l - 1) /\ DOMAIN q.pending[u] = 1..l
      /\ \A i \in DOMAIN p.pending[u] : q.pending[u][i] = p.pending[u][i]
  BY ParkingPlaces
<1>3. PushPending(p, b) = q
  <2>1. ~OverCapacity(q.pendingCount, PendingCap)
    <3> HIDE DEF q
    <3>1. p.pendingCount \in Nat /\ PendingCap \in Nat
      BY PoolFields, PendingCapType DEF Core
    <3> QED
      BY <1>1, <3>1 DEF OverCapacity
  <2> QED
    BY <2>1 DEF PushPending, Parking
<1> HIDE DEF q, u, l
<1>4. p \in Pool /\ q \in Pool
  BY <1>1 DEF Core
<1>5. ASSUME NEW t \in Hash, t # u PROVE Parked(q, t) = Parked(p, t)
  BY <1>2, <1>5 DEF Parked, Copies
<1>6. Parked(q, u) = Parked(p, u) \cup {b}
  <2>1. ASSUME NEW x \in Parked(q, u) PROVE x \in Parked(p, u) \cup {b}
    <3>1. PICK i \in DOMAIN q.pending[u] : q.pending[u][i].hash = x
      BY <1>2, <1>4, <2>1, ParkedElements
    <3>2. i = l \/ i \in DOMAIN p.pending[u]
      BY <1>2
    <3> QED
      BY <1>2, <1>4, <3>1, <3>2, ParkedElements
  <2>2. ASSUME NEW x \in Parked(p, u) PROVE x \in Parked(q, u)
    <3>1. PICK i \in DOMAIN p.pending[u] : p.pending[u][i].hash = x
      BY <1>2, <1>4, <2>2, ParkedElements
    <3>2. i \in DOMAIN q.pending[u]
      BY <1>2
    <3> QED
      BY <1>2, <1>4, <3>1, <3>2, ParkedElements
  <2>3. b \in Parked(q, u)
    <3>1. l \in DOMAIN q.pending[u]
      BY <1>2
    <3> QED
      BY <1>2, <1>4, <3>1, ParkedElements
  <2> QED
    BY <2>1, <2>2, <2>3
<1> QED
  BY <1>1, <1>3, <1>5, <1>6 DEF u

\* A bid that parking another one loses was evicted at capacity, and is counted.
LEMMA PushingLosesAtCapacity ==
    ASSUME NEW p, Core(p), Backed(p), NEW b \in Backrun,
           NEW t \in Hash, NEW x \in Parked(p, t), x \notin Parked(PushPending(p, b), t)
    PROVE  /\ p.pendingCount = PendingCap
           /\ PushPending(p, b).pendingCount < p.pendingCount + 1
<1> DEFINE r == PushPending(p, b)
<1>1. Core(r) /\ Backed(r)
  BY PushPendingProperties, PushingKeepsBacked
<1> HIDE DEF r
<1>2. /\ p.pendingCount \in Nat /\ r.pendingCount \in Nat /\ PendingCap \in Nat
      /\ p.pendingCount <= PendingCap /\ r.pendingCount <= PendingCap
  BY <1>1, PoolFields, PendingCapType DEF Core, Backed, Roomy
<1>3. ~(p.pendingCount + 1 <= PendingCap)
  BY PushingWithRoom
<1> QED
  BY <1>2, <1>3 DEF r

\* A bid that observe stops parking is sent, or was evicted at capacity.
LEMMA ObservedLosesForAReason ==
    ASSUME NEW p, Core(p), Within(p), NoMissedBut({}, p), HeadLive(p), Placed(p), Backed(p),
           NEW h \in Hash, NEW t \in Hash,
           NEW x \in Parked(p, t), x \notin Parked(Observed(p, h).pool, t)
    PROVE  \/ BidReinjection(x, t) \in ToSet(Observed(p, h).reinjections)
           \/ p.pendingCount = PendingCap /\ Observed(p, h).evicted > 0
<1> DEFINE q == InsertCache(p, h)
           r == Observed(p, h)
<1>1. Core(q) /\ SameBids(q, p) /\ h \in Cached(q)
  BY InsertCacheProperties
<1>2. /\ h \in Tob => r = ObserveTob(q, h)
      /\ h \in Backrun => r = ObserveBackrun(q, h)
      /\ h \in Invalid => r = Result(q, <<>>, 0, 0, 0)
      /\ h \in Vanilla => r = ObserveVanilla(q, h)
  BY KindAssumption DEF Observed
<1>3. Core(r.pool)
  BY ObservedSound DEF Sound
<1> HIDE DEF q, r
<1>4. /\ Placed(q) /\ Backed(q) /\ x \in Parked(q, t) /\ q.pendingCount = p.pendingCount
      /\ q \in Pool /\ r.pool \in Pool /\ q.pendingCount \in Nat
  BY <1>1, <1>3, SameBidsSameWaiting, BackedWhenSame, PoolFields DEF SameBids, Core
<1>5. x \notin Parked(r.pool, t)
  BY DEF r
<1>6. CASE h \in Tob \cup Invalid
  <2>1. r.pool = q
    BY <1>2, <1>6 DEF ObserveTob, Result
  <2> QED
    BY <1>4, <1>5, <2>1
<1>7. CASE h \in Vanilla
  <2> DEFINE B == Parked(q, h)
  <2>1. /\ Placed(r.pool) /\ Waiting(r.pool) = Waiting(q) \ B
        /\ B = {} => ToSet(r.reinjections) = {}
        /\ B # {} => ToSet(r.reinjections) = {BidReinjection(b, h) : b \in B} \cup OfferSet(q, h)
    BY <1>1, <1>2, <1>4, <1>7, VanillaMaps
  <2>2. x \in Waiting(q) /\ Target[x] = t /\ x \notin Waiting(r.pool)
    BY <1>4, <1>5, <2>1, WaitingElements
  <2>3. x \in B /\ t = h
    BY <1>4, <2>1, <2>2, WaitingElements
  <2> HIDE DEF B
  <2>4. BidReinjection(x, t) \in ToSet(r.reinjections)
    BY <2>1, <2>3
  <2> QED
    BY <2>4 DEF r
<1>8. CASE h \in Backrun
  <2>1. CASE q.cache[Target[h]] # Absent
    <3>1. r.pool = Streaming(q, Target[h])
      BY <1>2, <1>8, <2>1 DEF ObserveBackrun, Result
    <3>2. SameBids(r.pool, q)
      BY <1>1, <1>8, <3>1, StreamingProperties, TargetAssumption
    <3> QED
      BY <1>4, <1>5, <3>2, SameBidsSameWaiting
  <2>2. CASE q.cache[Target[h]] = Absent
    <3>1. /\ r.pool = PushPending(q, h)
          /\ r.evicted = q.pendingCount + 1 - PushPending(q, h).pendingCount
      BY <1>1, <1>2, <1>8, <2>2, EvictedExact DEF ObserveBackrun, Result
    <3>2. q.pendingCount = PendingCap /\ PushPending(q, h).pendingCount < q.pendingCount + 1
      BY <1>1, <1>4, <1>5, <1>8, <3>1, PushingLosesAtCapacity
    <3>3. PushPending(q, h).pendingCount \in Nat
      BY <1>4, <3>1, PoolFields
    <3>4. r.evicted > 0
      BY <1>4, <3>1, <3>2, <3>3
    <3> QED
      BY <1>4, <3>2, <3>4 DEF r
  <2> QED
    BY <2>1, <2>2
<1> QED
  BY <1>6, <1>7, <1>8 DEF Hash

-----------------------------------------------------------------------------
(* A target is offered once.                                               *)

\* An answer offers at most the target t, first and once; t was not in marks
\* and the pool has marked it.
Offers(r, t, marks) ==
    \A i \in DOMAIN r.reinjections :
        r.reinjections[i].class = "opportunity" =>
            /\ i = 1
            /\ r.reinjections[i].hash = t
            /\ t \notin marks
            /\ t \in r.pool.streamed

\* The offer of t, if it is due, with bids behind it.
LEMMA OfferIsFirst ==
    ASSUME NEW p, NEW t \in Hash, NEW bids \in Seq(Reinjection),
           NEW r, r.reinjections = Opportunity(p, t) \o bids,
           \A i \in DOMAIN bids : bids[i].class = "bid",
           t \in r.pool.streamed
    PROVE  Offers(r, t, p.streamed)
<1> DEFINE offer == Opportunity(p, t)
           sends == offer \o bids
<1>1. offer \in Seq(Reinjection)
  BY OpportunityType
<1>2. \/ offer = <<>>
      \/ t \notin p.streamed /\ offer = <<Offer(t)>>
  BY DEF Opportunity, Offer
<1>3. Len(offer) \in {0, 1} /\ (Len(offer) = 1 => t \notin p.streamed /\ offer[1].hash = t)
  BY <1>2 DEF Offer
<1> HIDE DEF offer
<1>4. /\ sends \in Seq(Reinjection) /\ Len(sends) = Len(offer) + Len(bids)
      /\ \A i \in 1..Len(offer) : sends[i] = offer[i]
      /\ \A i \in 1..Len(bids) : sends[Len(offer) + i] = bids[i]
      /\ Len(bids) \in Nat /\ DOMAIN bids = 1..Len(bids)
  BY <1>1, ConcatProperties, LenProperties
<1>5. DOMAIN sends = 1..(Len(offer) + Len(bids))
  BY <1>4, LenProperties
<1> HIDE DEF sends
<1>6. ASSUME NEW i \in DOMAIN sends, sends[i].class = "opportunity"
      PROVE  i = 1 /\ sends[i].hash = t /\ t \notin p.streamed
  <2>1. CASE i \in 1..Len(offer)
    BY <1>3, <1>4, <2>1
  <2>2. CASE i \notin 1..Len(offer)
    <3>1. i - Len(offer) \in 1..Len(bids) /\ Len(offer) + (i - Len(offer)) = i
      BY <1>3, <1>4, <1>5, <2>2
    <3>2. sends[i] = bids[i - Len(offer)]
      BY <1>4, <3>1
    <3>3. sends[i].class = "bid"
      BY <1>4, <3>1, <3>2
    <3> QED
      BY <1>6, <3>3
  <2> QED
    BY <2>1, <2>2
<1>7. r.reinjections = sends
  BY DEF sends, offer
<1> QED
  BY <1>6, <1>7 DEF Offers

\* A bid that finds its target cached offers it at most once.
LEMMA ObserveBackrunOffers ==
    ASSUME NEW q, Core(q), NEW b \in Backrun, Target[b] \in Cached(q)
    PROVE  Offers(ObserveBackrun(q, b), Target[b], q.streamed)
<1> DEFINE t == Target[b]
           r == ObserveBackrun(q, b)
           e == BidReinjection(b, t)
           bids == <<e>>
<1>1. t \in Hash /\ e \in Reinjection /\ e.class = "bid"
  BY TargetAssumption, BidReinjectionType DEF BidReinjection
<1>2. r.pool = Streaming(q, t) /\ r.reinjections = Append(Opportunity(q, t), e)
  BY DEF ObserveBackrun, Result, Cached
<1>3. t \in r.pool.streamed
  BY <1>2, OpportunityMaps
<1> HIDE DEF e, r, t
<1>4. /\ bids \in Seq(Reinjection)
      /\ \A i \in DOMAIN bids : bids[i].class = "bid"
  BY <1>1
<1>5. r.reinjections = Opportunity(q, t) \o bids
  BY <1>1, <1>2, OpportunityType, AppendIsConcat
<1> HIDE DEF bids
<1>6. Offers(r, t, q.streamed)
  BY <1>1, <1>3, <1>4, <1>5, OfferIsFirst
<1> QED
  BY <1>6 DEF r, t

\* A vanilla transaction that releases bids is offered at most once.
LEMMA ObserveVanillaOffers ==
    ASSUME NEW q, Core(q), Placed(q), NEW h \in Vanilla, h \in Cached(q), q.pending[h] # <<>>
    PROVE  Offers(ObserveVanilla(q, h), h, q.streamed)
<1> DEFINE waiting == q.pending[h]
           bids == [i \in DOMAIN waiting |-> BidReinjection(waiting[i].hash, h)]
           r == ObserveVanilla(q, h)
<1>1. h \in Hash /\ waiting \in Seq(PendingBid)
  BY PoolFields DEF Core, Hash
<1>2. DOMAIN waiting = 1..Len(waiting) /\ Len(waiting) \in Nat
  BY <1>1, LenProperties
<1>3. r.reinjections = Opportunity(q, h) \o bids
  BY DEF ObserveVanilla, Result
<1>4. h \in r.pool.streamed
  <2>1. Parked(q, h) # {}
    <3>1. 1 \in DOMAIN waiting
      <4>1. Len(waiting) # 0
        BY <1>1, EmptySeq
      <4> QED
        BY <1>2, <4>1
    <3> HIDE DEF waiting
    <3>2. waiting[1].hash \in Parked(q, h)
      BY <1>1, <3>1, ParkedElements DEF waiting, Core
    <3> QED
      BY <3>2
  <2> QED
    BY <2>1, VanillaMaps
<1>5. bids \in Seq(Reinjection) /\ \A i \in DOMAIN bids : bids[i].class = "bid"
  <2> HIDE DEF waiting
  <2>1. ASSUME NEW i \in DOMAIN waiting
        PROVE  BidReinjection(waiting[i].hash, h) \in Reinjection
    <3>1. waiting[i] \in PendingBid
      BY <1>1, LenProperties, ElementOfSeq
    <3> QED
      BY <1>1, <3>1, BidReinjectionType DEF PendingBid
  <2>2. bids \in [1..Len(waiting) -> Reinjection]
    BY <1>2, <2>1
  <2>3. \A i \in DOMAIN bids : bids[i].class = "bid"
    BY DEF BidReinjection
  <2> HIDE DEF bids
  <2> QED
    BY <1>2, <2>2, <2>3, SeqDef
<1> HIDE DEF waiting, bids, r
<1>6. Offers(r, h, q.streamed)
  BY <1>1, <1>3, <1>4, <1>5, OfferIsFirst
<1> QED
  BY <1>6 DEF r

-----------------------------------------------------------------------------
(* Which entry insert_cache evicts, and when a target stays cached while   *)
(* another transaction is: enough for pairing not to depend on order.      *)

\* insert_cache evicts only over capacity, and then a prefix of the queue up to
\* its first entry that is still cached.
LEMMA InsertCacheEvicts ==
    ASSUME NEW p, Core(p), NEW h \in Hash
    PROVE  LET q == Cacheing(p, h)
               r == InsertCache(p, h)
           IN  \/ r = q
               \/ /\ Cardinality(Cached(q)) > CacheCap
                  /\ \E n \in 1..Len(q.cacheOrder) :
                       /\ \A j \in DOMAIN q.cacheOrder : q.cacheOrder[j] \in Cached(q) => n <= j
                       /\ Cached(r) = Cached(q) \ {q.cacheOrder[i] : i \in 1..n}
                       /\ r.cacheOrder = Dropped(q.cacheOrder, n)
<1> DEFINE q == Cacheing(p, h)
           present == {i \in DOMAIN q.cacheOrder : q.cache[q.cacheOrder[i]] # Absent}
           n == FirstOf(present, Len(q.cacheOrder))
           r == InsertCache(p, h)
           over == Cardinality(Cached(q)) > CacheCap
<1>1. r = IF over THEN PopCache(q, n) ELSE q
  BY DEF InsertCache, Cacheing, OverCapacity
<1>2. Core(q) /\ h \in Cached(q)
  BY CacheingProperties
<1> HIDE DEF q, r
<1>3. /\ q.cacheOrder \in Seq(Hash) /\ Len(q.cacheOrder) \in Nat
      /\ DOMAIN q.cacheOrder = 1..Len(q.cacheOrder)
  BY <1>2, PoolFields, LenProperties DEF Core
<1>4. /\ n \in 1..Len(q.cacheOrder) /\ \A j \in present : n <= j
  <2>1. present # {}
    BY <1>2 DEF Core, Covered, ToSet, Cached
  <2>2. present \in SUBSET Nat /\ present \in SUBSET (1..Len(q.cacheOrder))
    BY <1>3
  <2> HIDE DEF present
  <2> QED
    BY <2>1, <2>2, FirstOfLeast
<1>5. \A j \in DOMAIN q.cacheOrder : q.cacheOrder[j] \in Cached(q) => n <= j
  BY <1>4 DEF Cached
<1>6. CASE over
  <2> HIDE DEF n
  <2>1. r = PopCache(q, n) /\ n \in 0..Len(q.cacheOrder)
    BY <1>1, <1>3, <1>4, <1>6
  <2>2. /\ Cached(r) = Cached(q) \ {q.cacheOrder[i] : i \in 1..n}
        /\ r.cacheOrder = Dropped(q.cacheOrder, n)
    BY <1>2, <2>1, PopCacheProperties
  <2> QED
    BY <1>4, <1>5, <1>6, <2>2 DEF q, r
<1> QED
  BY <1>1, <1>6 DEF q, r

\* What the queue names only behind another cached entry is not evicted.
LEMMA KeptBehind ==
    ASSUME NEW p, Core(p), NEW h \in Hash, NEW t \in Cached(Cacheing(p, h)),
           NEW i \in DOMAIN Cacheing(p, h).cacheOrder,
           Cacheing(p, h).cacheOrder[i] \in Cached(Cacheing(p, h)),
           \A j \in 1..i : Cacheing(p, h).cacheOrder[j] # t
    PROVE  t \in Cached(InsertCache(p, h))
<1> DEFINE q == Cacheing(p, h)
           r == InsertCache(p, h)
<1>1. q.cacheOrder \in Seq(Hash) /\ DOMAIN q.cacheOrder = 1..Len(q.cacheOrder)
      /\ Len(q.cacheOrder) \in Nat
  BY CacheingProperties, PoolFields, LenProperties DEF Core
<1>2. \/ r = q
      \/ /\ Cardinality(Cached(q)) > CacheCap
         /\ \E n \in 1..Len(q.cacheOrder) :
              /\ \A j \in DOMAIN q.cacheOrder : q.cacheOrder[j] \in Cached(q) => n <= j
              /\ Cached(r) = Cached(q) \ {q.cacheOrder[k] : k \in 1..n}
              /\ r.cacheOrder = Dropped(q.cacheOrder, n)
  BY InsertCacheEvicts
<1>3. t \in Cached(q) /\ i \in DOMAIN q.cacheOrder /\ q.cacheOrder[i] \in Cached(q)
      /\ \A j \in 1..i : q.cacheOrder[j] # t
  OBVIOUS
<1> HIDE DEF q, r
<1>4. CASE r = q
  BY <1>3, <1>4 DEF r
<1>5. ASSUME NEW n \in 1..Len(q.cacheOrder),
             \A j \in DOMAIN q.cacheOrder : q.cacheOrder[j] \in Cached(q) => n <= j,
             Cached(r) = Cached(q) \ {q.cacheOrder[k] : k \in 1..n}
      PROVE  t \in Cached(r)
  <2>1. n <= i /\ \A k \in 1..n : k \in 1..i
    BY <1>1, <1>3, <1>5
  <2> QED
    BY <1>3, <1>5, <2>1
<1> QED
  BY <1>2, <1>4, <1>5 DEF r

\* Within capacity nothing is evicted.
LEMMA InsertCacheWithRoom ==
    ASSUME NEW p, Core(p), NEW h \in Hash, Cardinality(Cached(p) \cup {h}) <= CacheCap
    PROVE  Cached(InsertCache(p, h)) = Cached(p) \cup {h}
<1>1. Cached(Cacheing(p, h)) = Cached(p) \cup {h}
  BY CacheingProperties
<1>2. Cardinality(Cached(p) \cup {h}) \in Nat
  <2>1. Cached(p) \cup {h} \in SUBSET Hash
    BY CachedType DEF Core
  <2> QED
    BY <2>1, HashFinite
<1>3. ~(Cardinality(Cached(Cacheing(p, h))) > CacheCap)
  BY <1>1, <1>2, CacheCapType
<1> QED
  BY <1>1, <1>3, InsertCacheEvicts

\* Three cached hashes are not two.
LEMMA OtherThan ==
    ASSUME NEW S \in SUBSET Hash, NEW x, NEW y, Cardinality(S) > 2
    PROVE  \E g \in S : g # x /\ g # y
<1> SUFFICES ASSUME S \subseteq {x, y} PROVE FALSE
  OBVIOUS
<1>1. IsFiniteSet({x}) /\ Cardinality({x}) = 1
  BY FS_Singleton
<1>2. IsFiniteSet({x} \cup {y}) /\ Cardinality({x} \cup {y}) \in {1, 2}
  BY <1>1, FS_AddElement
<1>3. S \in SUBSET ({x} \cup {y})
  OBVIOUS
<1>4. Cardinality(S) <= Cardinality({x} \cup {y})
  BY <1>2, <1>3, FS_Subset
<1>5. Cardinality(S) \in Nat
  BY HashFinite
<1> QED
  BY <1>2, <1>4, <1>5

\* The queue names t at most once, at its back.
AtBack(s, t) == \A j \in DOMAIN s : s[j] = t => j = Len(s)

\* A newcomer with no entry left in the queue is put at its back, and stays: with
\* room for two, another cached entry is in front of it.
LEMMA NewcomerAtBack ==
    ASSUME NEW p, Core(p), NEW t \in Hash, t \notin Cached(p), t \notin ToSet(p.cacheOrder),
           CacheCap >= 2
    PROVE  t \in Cached(InsertCache(p, t)) /\ AtBack(InsertCache(p, t).cacheOrder, t)
<1> DEFINE q == Cacheing(p, t)
           r == InsertCache(p, t)
           s == p.cacheOrder
           o == q.cacheOrder
<1>1. /\ Core(q) /\ t \in Cached(q) /\ q.cacheOrder = Append(s, t)
  <2>1. /\ Core(q) /\ Cached(q) = Cached(p) \cup {t}
        /\ q.cacheOrder = IF t \in Cached(p) THEN p.cacheOrder ELSE Append(p.cacheOrder, t)
    BY CacheingProperties
  <2> HIDE DEF q
  <2> QED
    BY <2>1
<1>2. s \in Seq(Hash) /\ Len(s) \in Nat /\ DOMAIN s = 1..Len(s)
  BY PoolFields, LenProperties DEF Core
<1>3. \/ r = q
      \/ /\ Cardinality(Cached(q)) > CacheCap
         /\ \E n \in 1..Len(o) : r.cacheOrder = Dropped(o, n)
  BY InsertCacheEvicts
<1> HIDE DEF q, r
<1>4. /\ o \in Seq(Hash) /\ Len(o) = Len(s) + 1
      /\ \A i \in 1..Len(s) : o[i] = s[i]
      /\ o[Len(s) + 1] = t
      /\ DOMAIN o = 1..(Len(s) + 1)
  <2>1. o = Append(s, t)
    BY <1>1
  <2> HIDE DEF o, s
  <2>2. Append(s, t) \in Seq(Hash) /\ Len(Append(s, t)) = Len(s) + 1
        /\ (\A i \in 1..Len(s) : Append(s, t)[i] = s[i]) /\ Append(s, t)[Len(s) + 1] = t
    BY <1>2, AppendProperties
  <2> QED
    BY <1>2, <2>1, <2>2, LenProperties
<1>5. \A i \in DOMAIN s : s[i] # t
  BY DEF ToSet
<1>6. AtBack(o, t)
  <2> HIDE DEF o, s
  <2> QED
    BY <1>2, <1>4, <1>5 DEF AtBack
<1> HIDE DEF o, s
<1>7. CASE r = q
  BY <1>1, <1>6, <1>7 DEF r, o
<1>8. CASE Cardinality(Cached(q)) > CacheCap /\ \E n \in 1..Len(o) : r.cacheOrder = Dropped(o, n)
  <2>1. Cached(q) \in SUBSET Hash
    BY <1>1, CachedType DEF Core
  <2>2. Cardinality(Cached(q)) \in Nat /\ CacheCap \in Nat
    BY <2>1, HashFinite, CacheCapType
  <2>3. Cardinality(Cached(q)) > 2
    BY <1>8, <2>2
  <2>4. PICK g \in Cached(q) : g # t
    BY <2>1, <2>3, OtherThan
  <2>5. PICK i \in DOMAIN o : o[i] = g
    BY <1>1, <2>4 DEF Core, Covered, ToSet, o
  <2>6. i \in 1..Len(s) /\ \A j \in 1..i : o[j] # t
    BY <1>2, <1>4, <1>5, <2>4, <2>5
  <2>7. t \in Cached(r)
    <3>1. /\ t \in Cached(Cacheing(p, t)) /\ i \in DOMAIN Cacheing(p, t).cacheOrder
          /\ Cacheing(p, t).cacheOrder[i] \in Cached(Cacheing(p, t))
          /\ \A j \in 1..i : Cacheing(p, t).cacheOrder[j] # t
      BY <1>1, <2>4, <2>5, <2>6 DEF q, o
    <3> QED
      BY <3>1, KeptBehind DEF r
  <2>8. AtBack(r.cacheOrder, t)
    <3>1. PICK n \in 1..Len(o) : r.cacheOrder = Dropped(o, n)
      BY <1>8
    <3> DEFINE d == Dropped(o, n)
    <3>2. /\ d \in Seq(Hash) /\ Len(d) = Len(o) - n /\ n \in Nat
          /\ \A k \in 1..Len(d) : d[k] = o[n + k]
      BY <1>2, <1>4, DroppedProperties
    <3>3. DOMAIN d = 1..Len(d)
      BY <3>2, LenProperties
    <3> HIDE DEF d
    <3>4. \A k \in DOMAIN d : n + k \in DOMAIN o
      BY <1>2, <1>4, <3>2, <3>3
    <3>5. AtBack(d, t)
      BY <1>2, <1>4, <1>6, <3>2, <3>3, <3>4 DEF AtBack
    <3> QED
      BY <3>1, <3>5 DEF d
  <2> QED
    BY <2>7, <2>8 DEF r
<1> QED
  BY <1>3, <1>7, <1>8

\* A cached hash that the queue names only at its back stays when one more is
\* cached: with room for two, the one evicted is a third one in front of it.
LEMMA BackStays ==
    ASSUME NEW p, Core(p), NEW h \in Hash, h \notin Cached(p), NEW t \in Cached(p),
           AtBack(p.cacheOrder, t), CacheCap >= 2
    PROVE  t \in Cached(InsertCache(p, h))
<1> DEFINE q == Cacheing(p, h)
           s == p.cacheOrder
           o == q.cacheOrder
<1>1. /\ Core(q) /\ t \in Cached(q) /\ q.cacheOrder = Append(s, h) /\ t # h
  BY CacheingProperties
<1>2. s \in Seq(Hash) /\ Len(s) \in Nat /\ DOMAIN s = 1..Len(s)
  BY PoolFields, LenProperties DEF Core
<1>3. Cardinality(Cached(q)) > CacheCap \/ InsertCache(p, h) = q
  BY InsertCacheEvicts
<1> HIDE DEF q
<1>4. /\ Len(o) = Len(s) + 1
      /\ \A i \in 1..Len(s) : o[i] = s[i]
      /\ o[Len(s) + 1] = h
      /\ DOMAIN o = 1..(Len(s) + 1)
  <2>1. o = Append(s, h)
    BY <1>1
  <2> HIDE DEF o, s
  <2>2. Append(s, h) \in Seq(Hash) /\ Len(Append(s, h)) = Len(s) + 1
        /\ (\A i \in 1..Len(s) : Append(s, h)[i] = s[i]) /\ Append(s, h)[Len(s) + 1] = h
    BY <1>2, AppendProperties
  <2> QED
    BY <1>2, <2>1, <2>2, LenProperties
<1>5. \A i \in DOMAIN s : s[i] = t => i = Len(s)
  BY DEF AtBack
<1>6. \E j \in DOMAIN s : s[j] = t
  BY DEF Core, Covered, ToSet
<1> HIDE DEF o, s
<1>7. CASE InsertCache(p, h) = q
  BY <1>1, <1>7
<1>8. CASE Cardinality(Cached(q)) > CacheCap
  <2>1. Cached(q) \in SUBSET Hash
    BY <1>1, CachedType DEF Core
  <2>2. Cardinality(Cached(q)) \in Nat /\ CacheCap \in Nat
    BY <2>1, HashFinite, CacheCapType
  <2>3. Cardinality(Cached(q)) > 2
    BY <1>8, <2>2
  <2>4. PICK g \in Cached(q) : g # t /\ g # h
    BY <2>1, <2>3, OtherThan
  <2>5. PICK i \in DOMAIN o : o[i] = g
    BY <1>1, <2>4 DEF Core, Covered, ToSet, o
  <2>6. i \in 1..Len(s) /\ i # Len(s)
    BY <1>2, <1>4, <1>5, <1>6, <2>4, <2>5
  <2>7. \A j \in 1..i : o[j] # t
    BY <1>2, <1>4, <1>5, <2>6
  <2>8. /\ t \in Cached(Cacheing(p, h)) /\ i \in DOMAIN Cacheing(p, h).cacheOrder
        /\ Cacheing(p, h).cacheOrder[i] \in Cached(Cacheing(p, h))
        /\ \A j \in 1..i : Cacheing(p, h).cacheOrder[j] # t
    BY <1>1, <2>4, <2>5, <2>7 DEF q, o
  <2> QED
    BY <2>8, KeptBehind
<1> QED
  BY <1>3, <1>7, <1>8

\* insert_cache queues nothing but the newcomer.
LEMMA InsertCacheQueues ==
    ASSUME NEW p, Core(p), NEW h \in Hash
    PROVE  ToSet(InsertCache(p, h).cacheOrder) \subseteq ToSet(p.cacheOrder) \cup {h}
<1> DEFINE q == Cacheing(p, h)
           r == InsertCache(p, h)
           s == p.cacheOrder
           o == q.cacheOrder
<1>1. Core(q) /\ o \in {s, Append(s, h)}
  BY CacheingProperties
<1>2. r.cacheOrder = o \/ \E n \in 1..Len(o) : r.cacheOrder = Dropped(o, n)
  BY InsertCacheEvicts
<1>3. s \in Seq(Hash) /\ o \in Seq(Hash)
  BY <1>1, PoolFields DEF Core
<1> HIDE DEF o, s, r
<1>4. ToSet(o) \subseteq ToSet(s) \cup {h}
  BY <1>1, <1>3, SetOfAppend
<1>5. ASSUME NEW n \in 1..Len(o) PROVE ToSet(Dropped(o, n)) \subseteq ToSet(o)
  <2> DEFINE d == Dropped(o, n)
  <2>1. Len(o) \in Nat /\ DOMAIN o = 1..Len(o) /\ n \in Nat /\ n <= Len(o)
    BY <1>3, LenProperties
  <2>2. /\ d \in Seq(Hash) /\ Len(d) = Len(o) - n
        /\ \A k \in 1..Len(d) : d[k] = o[n + k]
    BY <1>3, <2>1, DroppedProperties
  <2>3. DOMAIN d = 1..Len(d)
    BY <2>2, LenProperties
  <2> HIDE DEF d
  <2>4. ASSUME NEW k \in DOMAIN d PROVE n + k \in DOMAIN o /\ d[k] = o[n + k]
    <3>1. k \in 1..Len(d) /\ n + k \in 1..Len(o)
      BY <2>1, <2>2, <2>3
    <3> QED
      BY <2>1, <2>2, <3>1
  <2>5. ToSet(d) \subseteq ToSet(o)
    BY <2>4 DEF ToSet
  <2> QED
    BY <2>5 DEF d
<1>6. ToSet(r.cacheOrder) \subseteq ToSet(o)
  BY <1>2, <1>5
<1> QED
  BY <1>4, <1>6 DEF r, s

\* Room for two more is room for one and then another.
LEMMA RoomForBoth ==
    ASSUME NEW S \in SUBSET Hash, Cardinality(S) + 2 <= CacheCap,
           NEW x \in Hash, NEW y \in Hash, NEW T, T \subseteq S \cup {x}
    PROVE  Cardinality(T \cup {y}) <= CacheCap /\ Cardinality(S \cup {y}) <= CacheCap
<1>1. IsFiniteSet(S) /\ Cardinality(S) \in Nat
  BY HashFinite
<1>2. IsFiniteSet(S \cup {x}) /\ Cardinality(S \cup {x}) <= Cardinality(S) + 1
  BY <1>1, FS_AddElement
<1>3. /\ IsFiniteSet((S \cup {x}) \cup {y})
      /\ Cardinality((S \cup {x}) \cup {y}) <= Cardinality(S \cup {x}) + 1
  <2>1. Cardinality(S \cup {x}) \in Nat
    BY <1>2, FS_CardinalityType
  <2> QED
    BY <1>2, <2>1, FS_AddElement
<1>4. /\ T \cup {y} \in SUBSET ((S \cup {x}) \cup {y})
      /\ S \cup {y} \in SUBSET ((S \cup {x}) \cup {y})
  OBVIOUS
<1>5. /\ Cardinality(T \cup {y}) <= Cardinality((S \cup {x}) \cup {y})
      /\ Cardinality(S \cup {y}) <= Cardinality((S \cup {x}) \cup {y})
  BY <1>3, <1>4, FS_Subset
<1>6. T \cup {y} \in SUBSET Hash /\ S \cup {y} \in SUBSET Hash
      /\ S \cup {x} \in SUBSET Hash /\ (S \cup {x}) \cup {y} \in SUBSET Hash
  OBVIOUS
<1>7. /\ Cardinality(T \cup {y}) \in Nat /\ Cardinality(S \cup {y}) \in Nat
      /\ Cardinality(S \cup {x}) \in Nat /\ Cardinality((S \cup {x}) \cup {y}) \in Nat
  BY <1>6, HashFinite
<1> QED
  BY <1>1, <1>2, <1>3, <1>5, <1>7, CacheCapType

\* What lets a target stay while it and one more are cached.
Lodged(p, t) ==
    /\ CacheCap >= 2
    /\ Cardinality(Cached(p)) + 2 <= CacheCap \/ t \notin ToSet(p.cacheOrder)

\* A target cached after another hash is still there.
LEMMA KeptAsSecond ==
    ASSUME NEW p, Core(p), NEW b \in Hash, NEW t \in Hash, b # t, t \notin Cached(p),
           Lodged(p, t), NEW r, Core(r), SameTargets(r, InsertCache(p, b))
    PROVE  t \in Cached(InsertCache(r, t))
<1>1. /\ Cached(r) \subseteq Cached(p) \cup {b}
      /\ ToSet(r.cacheOrder) \subseteq ToSet(p.cacheOrder) \cup {b}
  <2>1. Cached(InsertCache(p, b)) \subseteq Cached(p) \cup {b}
    BY InsertCacheProperties
  <2>2. ToSet(InsertCache(p, b).cacheOrder) \subseteq ToSet(p.cacheOrder) \cup {b}
    BY InsertCacheQueues
  <2>3. Cached(r) = Cached(InsertCache(p, b)) /\ r.cacheOrder = InsertCache(p, b).cacheOrder
    BY DEF SameTargets, Cached
  <2> QED
    BY <2>1, <2>2, <2>3
<1>2. CASE Cardinality(Cached(p)) + 2 <= CacheCap
  <2>1. Cached(p) \in SUBSET Hash
    BY CachedType DEF Core
  <2>2. Cardinality(Cached(r) \cup {t}) <= CacheCap
    BY <1>1, <1>2, <2>1, RoomForBoth
  <2>3. Cached(InsertCache(r, t)) = Cached(r) \cup {t}
    BY <2>2, InsertCacheWithRoom
  <2> QED
    BY <2>3
<1>3. CASE t \notin ToSet(p.cacheOrder)
  <2>1. t \notin Cached(r) /\ t \notin ToSet(r.cacheOrder)
    BY <1>1, <1>3
  <2> QED
    BY <2>1, NewcomerAtBack DEF Lodged
<1> QED
  BY <1>2, <1>3 DEF Lodged

\* A target stays when it is cached, and when another hash is cached after it.
LEMMA KeptAsFirst ==
    ASSUME NEW p, Core(p), NEW b \in Hash, NEW t \in Hash, b # t,
           b \notin Cached(p), t \notin Cached(p), Lodged(p, t)
    PROVE  /\ t \in Cached(InsertCache(p, t))
           /\ \A r : Core(r) /\ SameTargets(r, InsertCache(p, t)) => t \in Cached(InsertCache(r, b))
<1> DEFINE q == InsertCache(p, t)
<1>1. Cached(q) \subseteq Cached(p) \cup {t}
  BY InsertCacheProperties
<1> HIDE DEF q
<1>2. CASE Cardinality(Cached(p)) + 2 <= CacheCap
  <2>1. Cached(p) \in SUBSET Hash
    BY CachedType DEF Core
  <2>2. /\ Cardinality(Cached(p) \cup {t}) <= CacheCap
        /\ Cardinality(Cached(q) \cup {b}) <= CacheCap
    <3>1. Cached(p) \subseteq Cached(p) \cup {b}
      OBVIOUS
    <3> QED
      BY <1>1, <1>2, <2>1, <3>1, RoomForBoth
  <2>3. t \in Cached(q)
    BY <2>2, InsertCacheWithRoom DEF q
  <2>4. ASSUME NEW r, Core(r), SameTargets(r, q) PROVE t \in Cached(InsertCache(r, b))
    <3>1. Cached(r) = Cached(q)
      BY <2>4 DEF SameTargets, Cached
    <3>2. Cached(InsertCache(r, b)) = Cached(r) \cup {b}
      BY <2>2, <2>4, <3>1, InsertCacheWithRoom
    <3> QED
      BY <2>3, <3>1, <3>2
  <2> QED
    BY <2>3, <2>4 DEF q
<1>3. CASE t \notin ToSet(p.cacheOrder)
  <2>1. t \in Cached(q) /\ AtBack(q.cacheOrder, t) /\ CacheCap >= 2
    BY <1>3, NewcomerAtBack DEF Lodged, q
  <2>2. ASSUME NEW r, Core(r), SameTargets(r, q) PROVE t \in Cached(InsertCache(r, b))
    <3>1. Cached(r) = Cached(q) /\ r.cacheOrder = q.cacheOrder
      BY <2>2 DEF SameTargets, Cached
    <3> QED
      BY <1>1, <2>1, <2>2, <3>1, BackStays
  <2> QED
    BY <2>1, <2>2 DEF q
<1> QED
  BY <1>2, <1>3 DEF Lodged

\* A vanilla transaction takes the bids parked for it and leaves the others.
LEMMA VanillaParked ==
    ASSUME NEW q, Core(q), Placed(q), Within(q), NEW h \in Vanilla, NoMissedBut({h}, q),
           h \in Cached(q)
    PROVE  LET r == ObserveVanilla(q, h)
           IN  /\ Core(r.pool) /\ SameTargets(r.pool, q)
               /\ \A u \in Hash : Parked(r.pool, u) = IF u = h THEN {} ELSE Parked(q, u)
<1> DEFINE r == ObserveVanilla(q, h)
<1>1. Core(r.pool) /\ SameTargets(r.pool, q)
  BY ObserveVanillaSound DEF Sound
<1>2. Placed(r.pool) /\ Waiting(r.pool) = Waiting(q) \ Parked(q, h)
  BY VanillaMaps
<1> HIDE DEF r
<1>3. /\ \A u \in Hash : Parked(q, u) = {b \in Waiting(q) : Target[b] = u}
      /\ \A u \in Hash : Parked(r.pool, u) = {b \in Waiting(r.pool) : Target[b] = u}
  BY <1>1, <1>2, WaitingElements DEF Core
<1>4. h \in Hash
  BY DEF Hash
<1>5. ASSUME NEW u \in Hash PROVE Parked(r.pool, u) = IF u = h THEN {} ELSE Parked(q, u)
  BY <1>2, <1>3, <1>4
<1> QED
  BY <1>1, <1>5 DEF r

\* What insert_cache leaves is fit for a vanilla newcomer.
LEMMA CachedForObserve ==
    ASSUME NEW p, Keeps(p), Placed(p), NEW h \in Hash
    PROVE  LET q == InsertCache(p, h)
           IN  /\ Core(q) /\ Within(q) /\ Placed(q) /\ NoMissedBut({h}, q)
               /\ \A u \in Hash : Parked(q, u) = Parked(p, u)
               /\ q.streamed \subseteq p.streamed
               /\ q.pendingCount = p.pendingCount
               /\ Cached(q) \subseteq Cached(p) \cup {h}
<1> DEFINE q == InsertCache(p, h)
<1>1. Core(q) /\ SameBids(q, p) /\ Within(q) /\ Cached(q) \subseteq Cached(p) \cup {h}
  BY InsertCacheProperties DEF Keeps
<1>2. q.streamed \subseteq p.streamed
  BY InsertCacheMarks DEF Keeps
<1> HIDE DEF q
<1>3. Placed(q) /\ \A u \in Hash : Parked(q, u) = Parked(p, u)
  BY <1>1, SameBidsSameWaiting
<1>4. NoMissedBut({h}, q)
  BY <1>1 DEF Keeps, NoMissedBut, SameBids
<1> QED
  BY <1>1, <1>2, <1>3, <1>4 DEF SameBids, q
=============================================================================

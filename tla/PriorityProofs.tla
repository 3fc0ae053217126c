--------------------------- MODULE PriorityProofs ---------------------------
(***************************************************************************)
(* The order of any two reinjections, for every width of the fields and    *)
(* every set of transactions.  TLC checks words of six bits;               *)
(* here PayloadSpan, IdSpan and HashTail are any positive numbers, so the  *)
(* theorems hold for the 2^128, 2^126 and 2^130 of the code.               *)
(*                                                                         *)
(* The argument is that of the layout: a priority is                       *)
(* group * (2 * PayloadSpan) + rest with rest < 2 * PayloadSpan, so that   *)
(* groups compare first.  The inductive invariant says only that both      *)
(* variables hold reinjections.                                            *)
(***************************************************************************)
EXTENDS Priority, TLAPS

\* Multiplication keeps the order.
LEMMA TimesMonotone ==
    ASSUME NEW m \in Nat, NEW n \in Nat, NEW k \in Nat, m <= n
    PROVE  m * k <= n * k
OBVIOUS

\* A product of natural numbers is one.
LEMMA TimesType ==
    ASSUME NEW m \in Nat, NEW k \in Nat
    PROVE  m * k \in Nat
OBVIOUS

\* Numbers in base w compare by their high digit first.
LEMMA HighDigitFirst ==
    ASSUME NEW w \in Nat \ {0}, NEW i \in Nat, NEW j \in Nat,
           NEW x \in 0..(w - 1), NEW y \in 0..(w - 1), i < j
    PROVE  i * w + x < j * w + y
<1>1. (i + 1) * w <= j * w
  BY TimesMonotone
<1>2. (i + 1) * w = i * w + w
  OBVIOUS
<1>3. i * w \in Nat /\ j * w \in Nat
  BY TimesType
<1> QED
  BY <1>1, <1>2, <1>3

\* The group key of a target fits its field.
LEMMA BackrunIdRange ==
    ASSUME NEW t \in 0..(IdSpan * HashTail - 1)
    PROVE  BackrunId(t) \in 0..(IdSpan - 1)
<1> DEFINE q == t \div HashTail
           r == t % HashTail
<1>1. HashTail \in Nat /\ HashTail > 0 /\ IdSpan \in Nat /\ IdSpan > 0
  BY SpanAssumption
<1>2. IdSpan * HashTail \in Nat
  BY <1>1, TimesType
<1>3. t \in Nat /\ t < IdSpan * HashTail
  BY <1>2
<1>4. q \in Nat /\ r \in 0..(HashTail - 1) /\ t = HashTail * q + r
  BY <1>1, <1>3
<1>5. q < IdSpan
  <2> SUFFICES ASSUME q >= IdSpan PROVE FALSE
    BY <1>1, <1>4
  <2> HIDE DEF q, r
  <2>1. IdSpan * HashTail <= q * HashTail
    BY <1>1, <1>4, TimesMonotone
  <2>2. q * HashTail = HashTail * q
    BY <1>1, <1>4
  <2>3. q * HashTail \in Nat
    BY <1>1, <1>4, TimesType
  <2> QED
    BY <1>2, <1>3, <1>4, <2>1, <2>2, <2>3
<1> QED
  BY <1>1, <1>4, <1>5 DEF BackrunId

-----------------------------------------------------------------------------
(* The fields.                                                             *)

\* The low field holds what is masked into it.
LEMMA PayloadRange ==
    ASSUME NEW n \in Nat
    PROVE  Payload(n) \in 0..(PayloadSpan - 1)
BY SpanAssumption DEF Payload

\* The word is wide enough for the marker and for every group.
LEMMA Spans ==
    /\ 2 * PayloadSpan \in Nat \ {0}
    /\ TobMarker \in Nat \ {0}
    /\ WordSpan = TobMarker + TobMarker
    /\ PayloadSpan <= TobMarker
<1>1. PayloadSpan \in Nat /\ PayloadSpan > 0 /\ IdSpan \in Nat /\ IdSpan >= 1
  BY SpanAssumption
<1>2. 2 * PayloadSpan \in Nat /\ 2 * PayloadSpan > PayloadSpan
  BY <1>1
<1>3. 1 * (2 * PayloadSpan) <= IdSpan * (2 * PayloadSpan)
  BY <1>1, <1>2, TimesMonotone
<1>4. IdSpan * (2 * PayloadSpan) \in Nat
  BY <1>1, <1>2, TimesType
<1>5. 1 * (2 * PayloadSpan) = 2 * PayloadSpan
  BY <1>2
<1>6. TobMarker \in Nat /\ 2 * PayloadSpan <= TobMarker
  BY <1>3, <1>4, <1>5 DEF TobMarker
<1> QED
  BY <1>1, <1>2, <1>6 DEF WordSpan

\* Zero is a hash: the span of all hashes is not empty.
LEMMA ZeroHash == 0 \in 0..(IdSpan * HashTail - 1)
<1>1. IdSpan \in Nat /\ IdSpan >= 1 /\ HashTail \in Nat /\ HashTail >= 1
  BY SpanAssumption
<1>2. 1 * HashTail <= IdSpan * HashTail
  BY <1>1, TimesMonotone
<1>3. IdSpan * HashTail \in Nat
  BY <1>1, TimesType
<1> QED
  BY <1>1, <1>2, <1>3

\* The transactions of the instance are transactions, and so is the place holder.
LEMMA CallType == Txs \subseteq Tx /\ AnyTx \in Tx
BY InputAssumption, ZeroHash DEF Tx, Calldata, AnyTx

\* What a bid names as its target is a hash.
LEMMA TargetType == Targets \subseteq 0..(IdSpan * HashTail - 1)
BY CallType DEF Targets, Tx, Calldata

\* The bid the scorer decodes is the bid a transaction makes.
LEMMA BidDecoded ==
    ASSUME NEW tx \in Tx
    PROVE  BidComponent(tx) = Bid(tx) /\ Bid(tx) \in Nat
BY DEF BidComponent, GatewayBidAmount, Decodes, IsAllowlistedGateway, Bid, Tx, Calldata

\* What a transaction is worth, and the scalar, are numbers; the scalar is
\* zero only for a transaction that is worth nothing.
LEMMA ScalarType ==
    ASSUME NEW tx \in Tx
    PROVE  /\ Worth(tx) \in Nat
           /\ ComputePriority(tx) \in Nat
           /\ ComputePriority(tx) = Saturate(Worth(tx))
           /\ Worth(tx) > 0 => ComputePriority(tx) > 0
<1> DEFINE fee == EffectiveFeePerGas(tx)
           product == fee * tx.gas
<1>1. tx.tip \in Nat /\ tx.maxFee \in Nat /\ tx.gas \in Nat /\ Bid(tx) \in Nat
  BY BidDecoded DEF Tx
<1>2. FeeOrPrice(tx) \in Nat
  BY <1>1 DEF FeeOrPrice
<1>3. Monus(tx.maxFee, BaseFeeFloor) \in Nat
  BY <1>1, SpanAssumption DEF Monus
<1>4. fee \in Nat
  BY <1>2, <1>3 DEF EffectiveFeePerGas, Least
<1>5. product \in Nat
  BY <1>1, <1>4, TimesType
<1>6. Worth(tx) = product + Bid(tx)
  BY DEF Worth, EffectiveFeePerGas
<1>7. ComputePriority(tx) = Saturate(Saturate(product) + Bid(tx))
  BY BidDecoded DEF ComputePriority
<1> HIDE DEF product
<1>8. WordSpan \in Nat /\ WordSpan - 1 >= 1
  BY Spans
<1> QED
  BY <1>1, <1>5, <1>6, <1>7, <1>8 DEF Saturate, Least

-----------------------------------------------------------------------------
(* The three shapes of a priority.                                         *)

IsTob(r) == r.role = "tob" /\ r.tx \in Txs /\ r.target = 0 /\ r.priority = TobPriority(r.tx)
IsBid(r) ==
    /\ r.role = "bid" /\ r.tx \in Txs /\ r.target \in Targets
    /\ r.priority = EncodeBid(r.target, ComputePriority(r.tx))
IsOpportunity(r) ==
    /\ r.role = "opportunity" /\ r.tx = AnyTx /\ r.target \in Targets
    /\ r.priority = EncodeOpportunity(r.target)

\* Every reinjection has one of them.
LEMMA Shapes ==
    ASSUME NEW r \in Reinjections
    PROVE  IsTob(r) \/ IsBid(r) \/ IsOpportunity(r)
BY DEF Reinjections, Targets, Ranked, IsTob, IsBid, IsOpportunity

\* A grouped priority is its group key and a rest that fits below it.
Rest(r) == IF r.role = "opportunity" THEN PayloadSpan ELSE Payload(ComputePriority(r.tx))

LEMMA GroupedShape ==
    ASSUME NEW r \in Reinjections, Grouped(r)
    PROVE  /\ BackrunId(r.target) \in 0..(IdSpan - 1)
           /\ Rest(r) \in 0..(2 * PayloadSpan - 1)
           /\ r.priority = BackrunId(r.target) * (2 * PayloadSpan) + Rest(r)
           /\ IsBid(r) => Rest(r) < PayloadSpan
<1>1. IsBid(r) \/ IsOpportunity(r)
  BY Shapes DEF Grouped, IsTob
<1>2. BackrunId(r.target) \in 0..(IdSpan - 1)
  BY <1>1, TargetType, BackrunIdRange DEF IsBid, IsOpportunity
<1>3. PayloadSpan \in Nat /\ PayloadSpan > 0
  BY SpanAssumption
<1>4. CASE IsBid(r)
  <2>1. ComputePriority(r.tx) \in Nat
    BY <1>4, ScalarType, CallType DEF IsBid
  <2>2. Rest(r) = Payload(ComputePriority(r.tx)) /\ Rest(r) \in 0..(PayloadSpan - 1)
    BY <1>4, <2>1, PayloadRange DEF Rest, IsBid
  <2>3. r.priority = BackrunId(r.target) * (2 * PayloadSpan) + Rest(r)
    BY <1>4, <2>2 DEF IsBid, EncodeBid, GroupBase
  <2> QED
    BY <1>2, <1>3, <2>2, <2>3
<1>5. CASE IsOpportunity(r)
  <2>1. Rest(r) = PayloadSpan /\ ~IsBid(r)
    BY <1>5 DEF Rest, IsBid, IsOpportunity
  <2>2. r.priority = BackrunId(r.target) * (2 * PayloadSpan) + Rest(r)
    BY <1>5, <2>1 DEF IsOpportunity, EncodeOpportunity, GroupBase
  <2> QED
    BY <1>2, <1>3, <2>1, <2>2
<1> QED
  BY <1>1, <1>4, <1>5

\* Every grouped priority is below the lead-block marker.
LEMMA GroupedBelowMarker ==
    ASSUME NEW r \in Reinjections, Grouped(r)
    PROVE  r.priority \in Nat /\ r.priority < TobMarker
<1> DEFINE w == 2 * PayloadSpan
           i == BackrunId(r.target)
<1>1. /\ i \in 0..(IdSpan - 1) /\ Rest(r) \in 0..(w - 1)
      /\ r.priority = i * w + Rest(r)
  BY GroupedShape
<1>2. w \in Nat \ {0} /\ IdSpan \in Nat
  BY Spans, SpanAssumption
<1> HIDE DEF w, i
<1>3. i \in Nat /\ 0 \in 0..(w - 1) /\ i < IdSpan
  BY <1>1, <1>2
<1>4. i * w + Rest(r) < IdSpan * w + 0
  BY <1>1, <1>2, <1>3, HighDigitFirst
<1>5. i * w \in Nat /\ IdSpan * w \in Nat
  BY <1>2, <1>3, TimesType
<1>6. TobMarker = IdSpan * w
  BY DEF TobMarker, w
<1> QED
  BY <1>1, <1>2, <1>4, <1>5, <1>6

\* A lead-block bid carries the marker, or the fallback if its scalar is zero.
LEMMA TobShape ==
    ASSUME NEW r \in Reinjections, r.role = "tob"
    PROVE  /\ r.tx \in Txs
           /\ ComputePriority(r.tx) > 0 =>
                r.priority = TobMarker + Payload(ComputePriority(r.tx))
           /\ ComputePriority(r.tx) = 0 => r.priority = Fallback
<1>1. IsTob(r)
  BY Shapes DEF IsBid, IsOpportunity
<1> QED
  BY <1>1 DEF IsTob, TobPriority, EncodeTob

-----------------------------------------------------------------------------
(* The theorems.                                                           *)

IInv == earlier \in Reinjections /\ latest \in Reinjections

\* Whatever was received last and before is a reinjection.
THEOREM Invariance == Spec => []IInv
<1>1. Init => IInv
  BY DEF Init, IInv
<1>2. IInv /\ [Receive]_vars => IInv'
  BY DEF IInv, Receive, vars
<1> QED
  BY <1>1, <1>2, PTL DEF Spec

\* The scalar of compute_priority is the worth of the transaction, saturated
\* once at the end of the word, for every fee, gas limit and calldata.
THEOREM ScalarExact == Spec => []ScalarIsWorth
<1>1. IInv => ScalarIsWorth
  <2> SUFFICES ASSUME IInv PROVE ScalarIsWorth
    OBVIOUS
  <2>1. latest.tx \in Tx
    BY Shapes, CallType DEF IInv, IsTob, IsBid, IsOpportunity
  <2> QED
    BY <2>1, ScalarType DEF ScalarIsWorth
<1> QED
  BY <1>1, Invariance, PTL

\* No encoding leaves the 256-bit word.
THEOREM PrioritiesFit == Spec => []FitsWord
<1>1. ASSUME NEW r \in Reinjections PROVE r.priority \in 0..(WordSpan - 1)
  <2>1. CASE Grouped(r)
    BY <2>1, GroupedBelowMarker, Spans
  <2>2. CASE ~Grouped(r)
    <3>1. r.role = "tob"
      BY <2>2 DEF Grouped
    <3>2. r.tx \in Tx
      BY <3>1, TobShape, CallType
    <3> DEFINE scalar == ComputePriority(r.tx)
    <3>3. scalar \in Nat
      BY <3>2, ScalarType
    <3>4. Payload(scalar) \in 0..(PayloadSpan - 1)
      BY <3>3, PayloadRange
    <3>5. /\ scalar > 0 => r.priority = TobMarker + Payload(scalar)
          /\ scalar = 0 => r.priority = Fallback
      BY <3>1, TobShape
    <3> HIDE DEF scalar
    <3> QED
      BY <3>3, <3>4, <3>5, Spans, InputAssumption, SpanAssumption
  <2> QED
    BY <2>1, <2>2
<1>2. IInv => FitsWord
  BY <1>1 DEF IInv, FitsWord
<1> QED
  BY <1>2, Invariance, PTL

\* A lead-block bid that is worth anything is above every backrun target and
\* every backrun bid, whatever they pay and whichever hash they name.
THEOREM LeadBlockFirst == Spec => []TobOutranksGroups
<1>1. IInv => TobOutranksGroups
  <2> SUFFICES ASSUME IInv, earlier.role = "tob", Worth(earlier.tx) > 0, Grouped(latest)
               PROVE  earlier.priority > latest.priority
    BY DEF TobOutranksGroups, Above
  <2>1. earlier.tx \in Tx
    BY TobShape, CallType DEF IInv
  <2> DEFINE scalar == ComputePriority(earlier.tx)
  <2>2. scalar \in Nat /\ scalar > 0
    BY <2>1, ScalarType
  <2>3. Payload(scalar) \in 0..(PayloadSpan - 1)
    BY <2>2, PayloadRange
  <2>4. earlier.priority = TobMarker + Payload(scalar)
    BY <2>2, TobShape DEF IInv
  <2>5. latest.priority \in Nat /\ latest.priority < TobMarker
    BY GroupedBelowMarker DEF IInv
  <2> HIDE DEF scalar
  <2> QED
    BY <2>3, <2>4, <2>5, Spans, SpanAssumption
<1> QED
  BY <1>1, Invariance, PTL

\* A target is above every bid of its group.
THEOREM TargetFirst == Spec => []TargetAboveItsBids
<1>1. IInv => TargetAboveItsBids
  <2> SUFFICES ASSUME IInv, earlier.role = "opportunity", latest.role = "bid",
                      SameGroup(earlier, latest)
               PROVE  earlier.priority > latest.priority
    BY DEF TargetAboveItsBids, Above
  <2>1. Grouped(earlier) /\ Grouped(latest)
    BY DEF Grouped
  <2>2. IsBid(latest)
    BY Shapes DEF IInv, IsTob, IsOpportunity
  <2> DEFINE w == 2 * PayloadSpan
             i == BackrunId(latest.target)
  <2>3. BackrunId(earlier.target) = i
    BY DEF SameGroup
  <2>4. earlier.priority = i * w + PayloadSpan
    BY <2>1, <2>3, GroupedShape DEF IInv, Rest
  <2>5. latest.priority = i * w + Rest(latest) /\ Rest(latest) < PayloadSpan
    BY <2>1, <2>2, GroupedShape DEF IInv
  <2>6. i \in Nat /\ Rest(latest) \in Int
    <3>1. i \in 0..(IdSpan - 1) /\ Rest(latest) \in 0..(w - 1)
      BY <2>1, GroupedShape DEF IInv
    <3> QED
      BY <3>1
  <2>7. w \in Nat /\ PayloadSpan \in Nat
    BY SpanAssumption
  <2> HIDE DEF w, i
  <2>8. i * w \in Nat
    BY <2>6, <2>7, TimesType
  <2> QED
    BY <2>4, <2>5, <2>6, <2>7, <2>8
<1> QED
  BY <1>1, Invariance, PTL

\* Of two groups one is wholly above the other: no transaction of another
\* group can come between a target and a bid on it.
THEOREM GroupsApart == Spec => []GroupsDoNotInterleave
<1>1. ASSUME NEW r \in Reinjections, NEW s \in Reinjections, Grouped(r), Grouped(s),
             BackrunId(r.target) < BackrunId(s.target)
      PROVE  r.priority < s.priority
  <2> DEFINE w == 2 * PayloadSpan
             i == BackrunId(r.target)
             j == BackrunId(s.target)
  <2>1. /\ i \in 0..(IdSpan - 1) /\ Rest(r) \in 0..(w - 1)
        /\ r.priority = i * w + Rest(r)
    BY <1>1, GroupedShape
  <2>2. /\ j \in 0..(IdSpan - 1) /\ Rest(s) \in 0..(w - 1)
        /\ s.priority = j * w + Rest(s)
    BY <1>1, GroupedShape
  <2>3. i < j
    BY <1>1
  <2>4. w \in Nat \ {0}
    BY Spans
  <2> HIDE DEF w, i, j
  <2>5. i \in Nat /\ j \in Nat
    BY <2>1, <2>2
  <2> QED
    BY <2>1, <2>2, <2>3, <2>4, <2>5, HighDigitFirst
<1>2. IInv => GroupsDoNotInterleave
  <2> SUFFICES ASSUME IInv, Grouped(earlier), Grouped(latest), ~SameGroup(earlier, latest)
               PROVE  earlier.priority > latest.priority
                        <=> BackrunId(earlier.target) > BackrunId(latest.target)
    BY DEF GroupsDoNotInterleave, Above
  <2> DEFINE i == BackrunId(earlier.target)
             j == BackrunId(latest.target)
  <2>1. i \in 0..(IdSpan - 1) /\ j \in 0..(IdSpan - 1) /\ i # j
    BY GroupedShape DEF IInv, SameGroup
  <2>2. i < j \/ j < i
    BY <2>1, SpanAssumption
  <2>3. earlier.priority \in Nat /\ latest.priority \in Nat
    BY GroupedBelowMarker DEF IInv
  <2>4. i < j => earlier.priority < latest.priority
    BY <1>1 DEF IInv
  <2>5. j < i => latest.priority < earlier.priority
    BY <1>1 DEF IInv
  <2> HIDE DEF i, j
  <2> QED
    BY <2>1, <2>2, <2>3, <2>4, <2>5, SpanAssumption DEF i, j
<1> QED
  BY <1>2, Invariance, PTL

\* A worth that fits the low field is found there unchanged.
LEMMA PayloadOfWorth ==
    ASSUME NEW tx \in Tx, Worth(tx) \in 1..(PayloadSpan - 1)
    PROVE  /\ ComputePriority(tx) = Worth(tx)
           /\ Payload(ComputePriority(tx)) = Worth(tx)
<1>1. ComputePriority(tx) = Saturate(Worth(tx))
  BY ScalarType
<1>2. PayloadSpan \in Nat /\ WordSpan \in Nat /\ PayloadSpan < WordSpan
  BY Spans, SpanAssumption
<1>3. ComputePriority(tx) = Worth(tx)
  BY <1>1, <1>2 DEF Saturate, Least
<1>4. \A n \in 1..(PayloadSpan - 1) : n % PayloadSpan = n
  BY <1>2
<1> QED
  BY <1>3, <1>4 DEF Payload

\* Competing bids, for the lead block or behind one target, are ordered by what
\* they are worth, as long as that is below the span of the low field.
THEOREM BidsByWorth == Spec => []BidsOrderedByWorth
<1>1. ASSUME NEW r \in Reinjections, r.role # "opportunity",
             Worth(r.tx) \in 1..(PayloadSpan - 1)
      PROVE  \/ r.role = "tob" /\ r.priority = TobMarker + Worth(r.tx)
             \/ r.role = "bid" /\ r.priority = GroupBase(r.target) + Worth(r.tx)
  <2>1. IsTob(r) \/ IsBid(r)
    BY <1>1, Shapes DEF IsOpportunity
  <2>2. r.tx \in Tx
    BY <2>1, CallType DEF IsTob, IsBid
  <2>3. /\ ComputePriority(r.tx) = Worth(r.tx)
        /\ Payload(ComputePriority(r.tx)) = Worth(r.tx)
    BY <1>1, <2>2, PayloadOfWorth
  <2>4. ComputePriority(r.tx) > 0
    BY <1>1, <2>3, SpanAssumption
  <2>5. IsTob(r) => r.role = "tob" /\ r.priority = TobMarker + Worth(r.tx)
    BY <2>3, <2>4, TobShape DEF IsTob
  <2>6. IsBid(r) => r.role = "bid" /\ r.priority = GroupBase(r.target) + Worth(r.tx)
    BY <2>3 DEF IsBid, EncodeBid
  <2> QED
    BY <2>1, <2>5, <2>6
<1>2. IInv => BidsOrderedByWorth
  <2> SUFFICES ASSUME IInv, earlier.role = latest.role, earlier.role # "opportunity",
                      SameGroup(earlier, latest),
                      Worth(earlier.tx) \in 1..(PayloadSpan - 1),
                      Worth(latest.tx) \in 1..(PayloadSpan - 1)
               PROVE  earlier.priority > latest.priority
                        <=> Worth(earlier.tx) > Worth(latest.tx)
    BY DEF BidsOrderedByWorth, Above
  <2>1. \/ earlier.role = "tob" /\ earlier.priority = TobMarker + Worth(earlier.tx)
        \/ earlier.role = "bid" /\ earlier.priority = GroupBase(earlier.target) + Worth(earlier.tx)
    BY <1>1 DEF IInv
  <2>2. \/ latest.role = "tob" /\ latest.priority = TobMarker + Worth(latest.tx)
        \/ latest.role = "bid" /\ latest.priority = GroupBase(latest.target) + Worth(latest.tx)
    BY <1>1 DEF IInv
  <2>3. Worth(earlier.tx) \in Nat /\ Worth(latest.tx) \in Nat
    BY SpanAssumption
  <2>4. CASE earlier.role = "tob"
    <3>1. earlier.priority = TobMarker + Worth(earlier.tx)
      BY <2>1, <2>4
    <3>2. latest.priority = TobMarker + Worth(latest.tx)
      BY <2>2, <2>4
    <3> QED
      BY <2>3, <3>1, <3>2, Spans
  <2>5. CASE earlier.role = "bid"
    <3> DEFINE base == GroupBase(latest.target)
    <3>1. earlier.priority = base + Worth(earlier.tx)
      BY <2>1, <2>5 DEF GroupBase, SameGroup
    <3>2. latest.priority = base + Worth(latest.tx)
      BY <2>2, <2>5
    <3>3. base \in Nat
      <4>1. BackrunId(latest.target) \in 0..(IdSpan - 1)
        BY <2>5, GroupedShape DEF IInv, Grouped
      <4>2. BackrunId(latest.target) \in Nat /\ 2 * PayloadSpan \in Nat
        BY <4>1, Spans
      <4> QED
        BY <4>2, TimesType DEF GroupBase
    <3> HIDE DEF base
    <3> QED
      BY <2>3, <3>1, <3>2, <3>3
  <2> QED
    BY <2>1, <2>4, <2>5
<1> QED
  BY <1>2, Invariance, PTL
=============================================================================

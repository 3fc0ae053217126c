------------------------------ MODULE Priority ------------------------------
(***************************************************************************)
(* The priorities of src/policy.rs: which transactions are bids            *)
(* (decode_gateway_call), the scalar one is worth to the proposer          *)
(* (compute_priority), and its place in the 256-bit priority the node      *)
(* sorts by (the encode_* functions).                                      *)
(*                                                                         *)
(* The 256-bit word is laid out in three fields, which stay as wide as the *)
(* constants say:                                                          *)
(*                                                                         *)
(*    bit 255    | bits 254..129       | bit 128     | bits 127..0         *)
(*    TOB marker | backrun_id, IdSpan  | opportunity | scalar, PayloadSpan *)
(*                                                                         *)
(* In the code PayloadSpan is 2^128 and IdSpan 2^126.  The code combines   *)
(* fields with |, which is + here because they share no bit.  A hash is a  *)
(* number; HashTail is the span of the bits below its top IdSpan.          *)
(***************************************************************************)
EXTENDS Integers

CONSTANTS
    PayloadSpan,    \* 2^128, the span of the low field
    IdSpan,         \* 2^126, the span of the group key
    HashTail,       \* 2^130, the span of the hash bits the group key drops
    Address,        \* whom a transaction may be addressed to
    Gateway,        \* the MagmaSearcherGateway of the network
    BaseFeeFloor,   \* base_fee_floor_wei of the network
    Fallback,       \* priority of a TOB bid whose scalar is zero
    Txs             \* transactions of the instance

ASSUME SpanAssumption ==
    /\ {PayloadSpan, IdSpan, HashTail} \subseteq Nat \ {0}
    /\ BaseFeeFloor \in Nat

\* Calldata: too short for a selector, with another selector, with the selector
\* of magmaSearcherGatewayCall and arguments that do not decode, or such a call.
\* The arguments are there in the last case; target 0 asks for the lead block.
Calldata == [form : {"short", "foreign", "garbled", "call"},
             bid : Nat, target : 0..(IdSpan * HashTail - 1)]

\* A transaction: what the scorer reads of it.  A legacy transaction has one
\* gas price, which is its fee cap and which stands for its tip.
Tx == [legacy : BOOLEAN, tip : Nat, maxFee : Nat, gas : Nat, to : Address, input : Calldata]

ASSUME InputAssumption ==
    /\ Gateway \in Address
    /\ Txs \subseteq Tx
    /\ Fallback \in 0..(PayloadSpan - 1)

TobMarker == IdSpan * (2 * PayloadSpan)     \* 2^255
WordSpan == 2 * TobMarker                   \* 2^256

Least(m, n) == IF m <= n THEN m ELSE n
Saturate(n) == Least(n, WordSpan - 1)
Monus(m, n) == IF m <= n THEN 0 ELSE m - n

-----------------------------------------------------------------------------
(* The bids.                                                               *)

IsAllowlistedGateway(address) == address = Gateway

\* decode_gateway_call succeeds; it does not look at the address.
Decodes(tx) == tx.input.form = "call"

IsGatewayCall(tx) == IsAllowlistedGateway(tx.to) /\ Decodes(tx)

\* is_tob: a bid for the lead block; any other call is one for a backrun.
IsTobBid(tx) == IsGatewayCall(tx) /\ tx.input.target = 0
IsBackrunBid(tx) == IsGatewayCall(tx) /\ tx.input.target # 0

Targets == {tx.input.target : tx \in {t \in Txs : IsBackrunBid(t)}}

-----------------------------------------------------------------------------
(* The scalar.                                                             *)

\* priority_fee_or_price.
FeeOrPrice(tx) == IF tx.legacy THEN tx.maxFee ELSE tx.tip

\* The validator cannot realise more per gas than what the base fee leaves.
EffectiveFeePerGas(tx) == Least(FeeOrPrice(tx), Monus(tx.maxFee, BaseFeeFloor))

\* gateway_bid_amount: zero unless the calldata is a gateway call.
GatewayBidAmount(tx) == IF Decodes(tx) THEN tx.input.bid ELSE 0

BidComponent(tx) == IF IsAllowlistedGateway(tx.to) THEN GatewayBidAmount(tx) ELSE 0

ScalarOfWrappingSum(tx) ==                                  \* faulty variant
    (Saturate(EffectiveFeePerGas(tx) * tx.gas) + BidComponent(tx)) % WordSpan
ComputePriority(tx) == Saturate(Saturate(EffectiveFeePerGas(tx) * tx.gas) + BidComponent(tx))

-----------------------------------------------------------------------------
(* The encodings.                                                          *)

\* scalar & low_128_mask()
Payload(scalar) == scalar % PayloadSpan

EncodeTobUnmarked(scalar) == Payload(scalar)                \* faulty variant
EncodeTobUnmasked(scalar) == TobMarker + scalar             \* faulty variant
EncodeTob(scalar) == TobMarker + Payload(scalar)

\* The top bits of the target hash.
BackrunId(target) == target \div HashTail

GroupBase(target) == BackrunId(target) * (2 * PayloadSpan)

EncodeOpportunityUnmarked(target) == GroupBase(target)      \* faulty variant
EncodeOpportunity(target) == GroupBase(target) + PayloadSpan

EncodeBidFlat(target, scalar) == GroupBase(target)          \* faulty variant
EncodeBidUnmasked(target, scalar) == GroupBase(target) + scalar     \* faulty variant
EncodeBid(target, scalar) == GroupBase(target) + Payload(scalar)

-----------------------------------------------------------------------------
(* What the node receives: one reinjection after the other.                *)

\* observe_at gives a TOB bid its fallback when its scalar is zero.
TobPriority(tx) ==
    LET scalar == ComputePriority(tx)
    IN  IF scalar = 0 THEN Fallback ELSE EncodeTob(scalar)

Ranked(role, tx, target, priority) ==
    [role |-> role, tx |-> tx, target |-> target, priority |-> priority]

\* A target goes out with a priority that does not depend on what it pays.
AnyTx == [legacy |-> FALSE, tip |-> 0, maxFee |-> 0, gas |-> 0, to |-> Gateway,
          input |-> [form |-> "short", bid |-> 0, target |-> 0]]

VARIABLES
    earlier,    \* the reinjection before the last one
    latest      \* the last reinjection

vars == <<earlier, latest>>

\* What is for the gateway and no call, and what is not for the gateway, goes out
\* only as the target of a bid.
Reinjections ==
    {Ranked("tob", tx, 0, TobPriority(tx)) : tx \in {t \in Txs : IsTobBid(t)}}
      \cup {Ranked("bid", tx, tx.input.target, EncodeBid(tx.input.target, ComputePriority(tx))) :
              tx \in {t \in Txs : IsBackrunBid(t)}}
      \cup {Ranked("opportunity", AnyTx, t, EncodeOpportunity(t)) : t \in Targets}

Init == earlier \in Reinjections /\ latest = earlier

Receive == earlier' = latest /\ latest' \in Reinjections

Spec == Init /\ [][Receive]_vars

-----------------------------------------------------------------------------
(* Properties: how any two reinjections compare.                           *)

Above(r, s) == r.priority > s.priority
Grouped(r) == r.role # "tob"
SameGroup(r, s) == BackrunId(r.target) = BackrunId(s.target)

\* What a transaction realises for the proposer, in unbounded arithmetic: the
\* gas it pays for, and the bid of a call to the gateway, of nothing else.
Bid(tx) == IF tx.to = Gateway /\ tx.input.form = "call" THEN tx.input.bid ELSE 0
Worth(tx) == Least(FeeOrPrice(tx), Monus(tx.maxFee, BaseFeeFloor)) * tx.gas + Bid(tx)

\* Every priority fits the word the node reads.
FitsWord == latest.priority \in 0..(WordSpan - 1)

\* A lead-block bid that is worth anything outranks every backrun group.
TobOutranksGroups ==
    earlier.role = "tob" /\ Worth(earlier.tx) > 0 /\ Grouped(latest) => Above(earlier, latest)

\* A target outranks every bid on it, and what belongs to another group is
\* above both of them or below both: nothing comes between target and bid.
TargetAboveItsBids ==
    earlier.role = "opportunity" /\ latest.role = "bid" /\ SameGroup(earlier, latest)
        => Above(earlier, latest)

GroupsDoNotInterleave ==
    Grouped(earlier) /\ Grouped(latest) /\ ~SameGroup(earlier, latest) =>
        (Above(earlier, latest) <=> BackrunId(earlier.target) > BackrunId(latest.target))

\* Competing bids, for the lead block or behind one target, are ordered by
\* what they are worth to the proposer, as long as that fits the low field.
BidsOrderedByWorth ==
    /\ earlier.role = latest.role /\ earlier.role # "opportunity"
    /\ SameGroup(earlier, latest)
    /\ {Worth(earlier.tx), Worth(latest.tx)} \subseteq 1..(PayloadSpan - 1)
    => (Above(earlier, latest) <=> Worth(earlier.tx) > Worth(latest.tx))

\* The scalar of a bid is its worth, up to one saturation at the end of the
\* word: no step of the computation loses or wraps anything on the way.
ScalarIsWorth == ComputePriority(latest.tx) = Saturate(Worth(latest.tx))
=============================================================================

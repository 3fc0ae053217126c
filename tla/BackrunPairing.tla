-------------------------- MODULE BackrunPairing --------------------------
(***************************************************************************)
(* What the backrun pairing of the sidecar promises, without saying how    *)
(* (the design notes of src/backrun.rs): it knows some of the transactions *)
(* it has seen, some bids wait for their target, and every transaction it  *)
(* receives is answered with reinjections.                                 *)
(*                                                                         *)
(*   - A bid whose target is known is sent at once, otherwise it waits.    *)
(*   - A vanilla transaction releases every bid that waits for it.         *)
(*   - A bid is sent together with its target, unless the target has been  *)
(*     offered before and is still known.                                  *)
(*   - Knowledge and waiting bids may be lost at any time, to age or       *)
(*     capacity, but the transaction just received is not.                 *)
(*                                                                         *)
(* There are no queues, ages or counters here: module PendingPool          *)
(* implements this one (its instance Pairing).                             *)
(***************************************************************************)
EXTENDS Naturals, FiniteSets

CONSTANTS Vanilla, Tob, Backrun, Invalid, Target, ZeroScore, KnownCap, WaitingCap

Tx == Vanilla \cup Tob \cup Backrun \cup Invalid

VARIABLES
    known,    \* transactions seen and still remembered
    offered,  \* targets whose own reinjection was sent while known
    waiting,  \* bids parked for a target
    sent      \* the reinjections of the last step

pairing == <<known, offered, waiting, sent>>

Send(class, h, t) == [hash |-> h, class |-> class, group |-> t]
SendBid(b) == Send("bid", b, Target[b])

BidsFor(t, W) == {b \in W : Target[b] = t}

\* Send the bids B behind their common target t.  The target goes out with
\* them, once for as long as it is known; K is what is still known of before.
SendBehind(t, B, K) ==
    /\ sent' = {SendBid(b) : b \in B}
                \cup (IF t \in offered \cap K THEN {} ELSE {Send("opportunity", t, t)})
    /\ offered' = (offered \cap K) \cup {t}

SendAlone(S, K) == sent' = S /\ offered' = offered \cap K

\* Learn h, when K is what age and capacity leave of what was known.
Learn(h, K) == known' = K \cup {h} /\ Cardinality(known') <= KnownCap

Start == known = {} /\ offered = {} /\ waiting = {} /\ sent = {}

ReceiveVanilla(h) ==
    \E K \in SUBSET known, W \in SUBSET waiting :
        /\ Learn(h, K)
        /\ waiting' = W \ BidsFor(h, W)
        /\ IF BidsFor(h, W) = {} THEN SendAlone({}, K) ELSE SendBehind(h, BidsFor(h, W), K)

\* A bid that waits already is not taken from its place when it is seen again.
ReceivePairedBid(b) ==
    \E K \in SUBSET known :
        /\ Learn(b, K)
        /\ Target[b] \in known'
        /\ waiting' \in SUBSET waiting
        /\ SendBehind(Target[b], {b}, K)

ReceiveEarlyBid(b) ==
    \E K \in SUBSET known, W \in SUBSET waiting :
        /\ Learn(b, K)
        /\ Target[b] \notin known'
        /\ waiting' = W \cup {b}
        /\ Cardinality(waiting') <= WaitingCap
        /\ SendAlone({}, K)

\* A lead-block bid pairs with nothing; a gateway call that does not decode
\* is not answered.
LeadBlock(h) == Send(IF h \in ZeroScore THEN "fallback" ELSE "tob", h, h)

ReceiveUnpaired(h) ==
    \E K \in SUBSET known :
        /\ Learn(h, K)
        /\ waiting' \in SUBSET waiting
        /\ SendAlone({LeadBlock(t) : t \in {h} \cap Tob}, K)

\* h left the node's pool: it is no target any more.  As a bid it stops
\* waiting, unless it was parked more than once.
Leave(h) ==
    /\ known' = known \ {h}
    /\ offered' = offered \ {h}
    /\ waiting' \in {waiting \ BidsFor(h, waiting), waiting \ (BidsFor(h, waiting) \cup {h})}
    /\ sent' = {}

Rest == sent' = {} /\ UNCHANGED <<known, offered, waiting>>

Step ==
    \/ \E h \in Vanilla : ReceiveVanilla(h)
    \/ \E b \in Backrun : ReceivePairedBid(b) \/ ReceiveEarlyBid(b)
    \/ \E h \in Tob \cup Invalid : ReceiveUnpaired(h)
    \/ \E h \in Tx : Leave(h)
    \/ Rest

Spec == Start /\ [][Step]_pairing
=============================================================================

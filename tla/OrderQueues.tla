---------------------------- MODULE OrderQueues ----------------------------
(***************************************************************************)
(* Operators shared by the two structures of the sidecar that pair a hash  *)
(* map with a VecDeque of keys in order of insertion (PendingPool and      *)
(* SentCache).  Both leave stale keys in the queue when the map loses an   *)
(* entry, pop a prefix of the queue to evict, and remove from the middle   *)
(* keeping the order of the rest.                                          *)
(***************************************************************************)
EXTENDS Integers, Sequences, FiniteSets

\* The least element of a set of positions, or d if there is none.
FirstOf(S, d) == IF S = {} THEN d ELSE CHOOSE i \in S : \A j \in S : i <= j

\* The sequence s without the positions in gone, the rest in the same order.
Without(s, gone) ==
    LET kept == DOMAIN s \ gone
        rank(i) == Cardinality({j \in kept : j <= i})
    IN  [n \in 1..Cardinality(kept) |-> s[CHOOSE i \in kept : rank(i) = n]]

\* The elements of s from position n + 1 on: what is left when n are popped.
Dropped(s, n) == SubSeq(s, n + 1, Len(s))

\* The constructors take n.max(1) for a configured capacity n.
AtLeastOne(n) == IF n = 0 THEN 1 ELSE n

\* Capacity is enforced by loops of the form while size > cap.
OffByOne(size, cap) == size > cap + 1           \* faulty variant
OverCapacity(size, cap) == size > cap
=============================================================================

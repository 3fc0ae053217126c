---------------------------- MODULE DedupWindow ----------------------------
(***************************************************************************)
(* What the IPC loop needs from its dedup memory (SentCache of             *)
(* src/txpool_ipc.rs): a bounded set of the hashes it has reinjected.  A   *)
(* hash recorded while the window is full pushes one out: the one recorded *)
(* first, unless a hash was erased before and left its place in the queue  *)
(* behind.  Such a hash, once it is recorded again, may be pushed out at   *)
(* any time, even by being recorded.                                       *)
(***************************************************************************)
EXTENDS Naturals, FiniteSets

CONSTANTS Tx, WindowCap

VARIABLES
    window,     \* the hashes whose echo would be recognised
    older,      \* the pairs of them of which the first was recorded earlier
    leftover    \* the hashes that were erased and left a place behind

held == <<window, older, leftover>>

Start == window = {} /\ older = {} /\ leftover = {}

\* Recording uses up places left behind; only Erase leaves a new one.
UsesUp == leftover' \in SUBSET leftover

Known(h) ==
    /\ h \in window
    /\ UsesUp
    /\ UNCHANGED <<window, older>>

Add(h) ==
    /\ h \notin window /\ UsesUp
    /\ Cardinality(window) < WindowCap
    /\ window' = window \cup {h}
    /\ older' = older \cup (window \X {h})

Replace(h, g) ==
    LET full == window \cup {h}
        order == older \cup (window \X {h})
    IN  /\ h \notin window /\ UsesUp
        /\ Cardinality(window) = WindowCap
        /\ g \in full
        /\ g \in leftover \/ \A k \in full \ {g} : <<g, k>> \in order
        /\ window' = full \ {g}
        /\ older' = order \cap (window' \X window')

Erase(h) ==
    /\ window' = window \ {h}
    /\ older' = older \cap (window' \X window')
    /\ leftover' = leftover \cup ({h} \cap window)

Step == \E h \in Tx : Known(h) \/ Add(h) \/ Erase(h) \/ \E g \in Tx : Replace(h, g)

Spec == Start /\ [][Step]_held
=============================================================================

--------------------------- MODULE MCPendingPool ---------------------------
(* Instances of PendingPool for TLC. *)
EXTENDS PendingPool, TLC

CONSTANTS v, w, a, b, c, x, g

\* Two bids for a vanilla transaction, and one for one of them.
BidOnBid == (a :> v) @@ (b :> v) @@ (c :> b)

\* One bid for each vanilla transaction.
OneEach == (a :> v) @@ (c :> w)
=============================================================================

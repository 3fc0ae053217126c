----------------------------- MODULE MCPriority -----------------------------
(* An instance of Priority for TLC, the word scaled down to six bits. *)
EXTENDS Priority

CONSTANTS Bids, gateway, elsewhere

\* A call for the lead block or for one of three targets, of which two are in
\* one group; and calldata that is no call, although it could be read as one.
SmallCalldata ==
    [form : {"call"}, bid : Bids, target : {0, 2, 3, 6}]
      \cup [form : {"short", "foreign", "garbled"}, bid : {1}, target : {0, 2}]

\* Fee caps below and above the base fee floor; legacy transactions carry no
\* tip of their own.
SmallTxs ==
    {tx \in [legacy : BOOLEAN, tip : {0, 2}, maxFee : {0, 2, 3}, gas : {0, 1},
              to : Address, input : SmallCalldata] : tx.legacy => tx.tip = 0}
=============================================================================

----------------------------- MODULE MCService -----------------------------
(* An instance of Service for TLC. *)
EXTENDS Service, TLC

CONSTANTS c1, c2, old, new, mainnet, devnet

\* The old release does not know devnet yet.
BakedOverTime == old :> {mainnet} @@ new :> {mainnet, devnet}

Seeded == [socket |-> TRUE, network |-> mainnet]
Operators == {[socket |-> FALSE, network |-> mainnet], [socket |-> TRUE, network |-> devnet]}
=============================================================================

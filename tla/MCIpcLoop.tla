----------------------------- MODULE MCIpcLoop -----------------------------
(* Instances of IpcLoop for TLC. *)
EXTENDS IpcLoop, TLC

CONSTANTS v, a, b, x, y

\* One backrun bid, for the vanilla transaction v.
OneBid == a :> v

\* Two, competing for it.
TwoBids == a :> v @@ b :> v
=============================================================================

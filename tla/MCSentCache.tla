---------------------------- MODULE MCSentCache ----------------------------
(* An instance of SentCache for TLC. *)
EXTENDS SentCache, TLC

CONSTANTS h1, h2, h3, h4, h5

\* Hashes are only compared.
AnyHash == Permutations({h1, h2, h3, h4, h5})
=============================================================================

------------------------------ MODULE MCFaucet ------------------------------
(* Three requests for two addresses, with two signed challenges. *)
EXTENDS Faucet

CONSTANTS a1, a2, r1, r2, r3, k1, k2

=============================================================================

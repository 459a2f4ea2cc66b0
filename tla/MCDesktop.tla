----------------------------- MODULE MCDesktop -----------------------------
(* One relay, one follower, and the handler of one click. *)
EXTENDS Desktop

CONSTANTS c1

=============================================================================

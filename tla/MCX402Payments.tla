--------------------------- MODULE MCX402Payments ---------------------------
(* Small instances of X402Payments. *)
EXTENDS X402Payments, TLC

CONSTANTS r1, r2, p1, p2, p3, p4, i1, i2

Symmetry == Permutations({r1, r2}) \cup Permutations({p1, p2, p3, p4}) \cup Permutations({i1, i2})

=============================================================================

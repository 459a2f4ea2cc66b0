-------------------------- MODULE MCReimbursement --------------------------
(* One sponsorship, a poll and a GET handler. *)
EXTENDS Reimbursement

CONSTANTS c1, c2, s1

=============================================================================

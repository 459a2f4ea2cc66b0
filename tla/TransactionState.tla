-------------------------- MODULE TransactionState --------------------------
(***************************************************************************)
(* The public lifecycle of one sponsorship: the states a record may name   *)
(* and the changes assertTransactionStateTransition lets through.  As a    *)
(* specification it is the contract the reimbursement worker implements.   *)
(***************************************************************************)

TransactionStates ==
    {"REQUESTED", "ACCEPTED", "SPONSORED", "BROADCAST", "CONFIRMED",
     "PAYMENTS_BROADCAST", "REIMBURSED", "REJECTED", "OPERATOR_UNAVAILABLE",
     "INSUFFICIENT_STX", "BROADCAST_FAILED", "CONFIRMATION_TIMEOUT",
     "REIMBURSEMENT_FAILED"}

TerminalStates ==
    {"REIMBURSED", "REJECTED", "OPERATOR_UNAVAILABLE", "INSUFFICIENT_STX",
     "BROADCAST_FAILED", "CONFIRMATION_TIMEOUT", "REIMBURSEMENT_FAILED"}

Transitions(from) ==
    CASE from = "REQUESTED" -> {"ACCEPTED", "REJECTED", "OPERATOR_UNAVAILABLE", "INSUFFICIENT_STX"}
      [] from = "ACCEPTED" -> {"SPONSORED", "REJECTED", "OPERATOR_UNAVAILABLE", "INSUFFICIENT_STX"}
      [] from = "SPONSORED" -> {"BROADCAST", "BROADCAST_FAILED"}
      [] from = "BROADCAST" -> {"CONFIRMED", "REJECTED", "CONFIRMATION_TIMEOUT"}
      [] from = "CONFIRMED" -> {"PAYMENTS_BROADCAST", "REIMBURSED", "REIMBURSEMENT_FAILED"}
      [] from = "PAYMENTS_BROADCAST" -> {"REIMBURSED", "REIMBURSEMENT_FAILED"}
      [] OTHER -> {}

CanTransition(from, to) == to \in Transitions(from)

=============================================================================

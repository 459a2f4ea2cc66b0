------------------------ MODULE SponsorshipLifecycle ------------------------
(***************************************************************************)
(* What a reader of the reimbursement records may rely on, whatever        *)
(* callers reconcile them: a record's status moves along the public        *)
(* lifecycle only, it is first seen as BROADCAST, and the payment it names *)
(* is chosen once, while it is CONFIRMED.                                  *)
(***************************************************************************)
EXTENDS TransactionState, Naturals

CONSTANT Sponsorships

VARIABLES
    status,     \* "SPONSORED" until the record exists
    payment     \* which reimbursement transaction the record names, 0 for none

Init ==
    /\ status = [s \in Sponsorships |-> "SPONSORED"]
    /\ payment = [s \in Sponsorships |-> 0]

Advance(s) ==
    /\ \E to \in TransactionStates :
          /\ CanTransition(status[s], to)
          /\ status' = [status EXCEPT ![s] = to]
    /\ UNCHANGED payment

NamePayment(s) ==
    /\ status[s] = "CONFIRMED" /\ payment[s] = 0
    /\ payment'[s] # 0
    /\ payment' = [payment EXCEPT ![s] = payment'[s]]
    /\ UNCHANGED status

Next == \E s \in Sponsorships : Advance(s) \/ NamePayment(s)

Spec == Init /\ [][Next]_<<status, payment>>

=============================================================================

---------------------------- MODULE NonceLedger ----------------------------
(***************************************************************************)
(* The durable nonce ledger (JsonNonceStore) and the operator's in-memory  *)
(* cursor.  All of it is used under the operator's nonce lock, so a        *)
(* mutation and its write are one step with two outcomes: the file is      *)
(* replaced, or the write throws and only the memory changed.              *)
(***************************************************************************)
EXTENDS Transactions

VARIABLES
    reservations,   \* the in-memory list
    ledgerDisk,     \* the JSON file
    cursor          \* nextSponsorNonce; 0 when undefined

ledgerVars == <<reservations, ledgerDisk, cursor>>

Statuses == {"SIGNED", "SIMULATED", "BROADCAST", "AMBIGUOUS", "CONFIRMED", "FAILED"}

Reservation == [tx : Tx, status : Statuses]

LedgerTypeOK ==
    /\ reservations \subseteq Reservation
    /\ ledgerDisk \subseteq Reservation
    /\ cursor \in Nat

LedgerInit == reservations = {} /\ ledgerDisk = {} /\ cursor = 0

-----------------------------------------------------------------------------
\* nextNonce(): n is the larger of the chain nonce and one more than every
\* nonce ever reserved, whatever became of the reservation.
IsNextNonce(n, chainNonce) ==
    /\ n >= chainNonce
    /\ \A x \in reservations : n > x.tx.nonce
    /\ n = chainNonce \/ \E x \in reservations : n = x.tx.nonce + 1

\* reserve() refuses a nonce or a transaction that is already in the list.
NonceTaken(t) == \E x \in reservations : x.tx.nonce = t.nonce \/ x.tx = t

SaveLedger(list, written) ==
    /\ reservations' = list
    /\ ledgerDisk' = IF written THEN list ELSE ledgerDisk

\* reserve() without persist().
AddReservationInMemory(t, status, written) ==
    SaveLedger(reservations \cup {[tx |-> t, status |-> status]}, FALSE)

AddReservation(t, status, written) ==
    SaveLedger(reservations \cup {[tx |-> t, status |-> status]}, written)

\* update() of the status of one transaction's reservation.
SetStatus(t, status, written) ==
    SaveLedger({IF x.tx = t THEN [x EXCEPT !.status = status] ELSE x : x \in reservations},
               written)

\* A restarted process loads the file and has no cursor.
ReloadLedger ==
    /\ reservations' = ledgerDisk
    /\ cursor' = 0
    /\ UNCHANGED ledgerDisk

=============================================================================

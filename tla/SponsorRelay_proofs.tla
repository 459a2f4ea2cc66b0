------------------------ MODULE SponsorRelay_proofs ------------------------
(***************************************************************************)
(* Proofs about SponsorRelay for any number of connections, quotes,        *)
(* transactions, nonces and blocks, and with any set of faults.            *)
(***************************************************************************)
EXTENDS SponsorRelayInv, TLAPS

USE TransactionsAssumption, QuoteStoreAssumption, RelayAssumption

-----------------------------------------------------------------------------
(* Types. *)

\* What the store writes back is a quote record.
LEMMA RecordTypes ==
    /\ Absent \in QuoteRecord
    /\ \A e \in Nat : Issued(e) \in QuoteRecord
    /\ \A x \in QuoteRecord, h \in Bytes : Reserved(x, h) \in QuoteRecord
    /\ \A x \in QuoteRecord : Released(x) \in QuoteRecord
    /\ \A x \in QuoteRecord, t \in Tx : Completed(x, t) \in QuoteRecord
  BY DEF Absent, Issued, Reserved, Released, Completed, QuoteRecord, QuoteStates

\* The bytes a request carries and the nonce it was given form a transaction.
LEMMA TxOfType ==
    ASSUME TypeOK, NEW r \in Requests, body[r] \in Body
    PROVE  TxOf(r) \in Tx
  BY DEF TypeOK, TxOf, Tx, Body

\* Adding or changing a reservation keeps the ledger well typed, in memory and on file.
LEMMA LedgerTypes ==
    ASSUME LedgerTypeOK, NEW t \in Tx, NEW status \in Statuses, NEW written
    PROVE  /\ AddReservation(t, status, written) =>
                 reservations' \subseteq Reservation /\ ledgerDisk' \subseteq Reservation
           /\ SetStatus(t, status, written) =>
                 reservations' \subseteq Reservation /\ ledgerDisk' \subseteq Reservation
  BY DEF LedgerTypeOK, AddReservation, SetStatus, SaveLedger, Reservation

\* The relay starts well typed.
LEMMA InitTypes == Init => TypeOK
  BY RecordTypes DEF Init, TypeOK, QuoteInit, LedgerInit, QuoteTypeOK, LedgerTypeOK, PCs

\* Every action keeps the types.
LEMMA StepTypes == TypeOK /\ [Next]_vars => TypeOK'
<1> SUFFICES ASSUME TypeOK, [Next]_vars PROVE TypeOK'
  OBVIOUS
<1> USE DEF TypeOK, QuoteTypeOK, LedgerTypeOK, PCs, At, worldVars, handlerVars, ledgerVars, quoteVars
<1>1. CASE UNCHANGED vars
  BY <1>1 DEF vars
<1>2. CASE Tick
  BY <1>2 DEF Tick
<1>3. CASE Crash
  BY <1>3 DEF Crash, ReloadQuotes, ReloadLedger
<1>4. ASSUME NEW q \in Quotes, IssueQuote(q) PROVE TypeOK'
  BY <1>4, RecordTypes DEF IssueQuote, PutIssued, WriteOutcomes
<1>5. ASSUME NEW r \in Requests, Submit(r) PROVE TypeOK'
  BY <1>5 DEF Submit, Body
<1>6. ASSUME NEW r \in Requests, Close(r) PROVE TypeOK'
  BY <1>6 DEF Close
<1>7. ASSUME NEW r \in Requests, HandlerStep(r) PROVE TypeOK'
  <2>1. CASE CheckQuote(r)
    BY <2>1 DEF CheckQuote
  <2>2. CASE ObserveTip(r)
    BY <2>2 DEF ObserveTip, MinimumSimulationHeight
  <2>3. CASE RefuseEarly(r)
    BY <2>3 DEF RefuseEarly
  <2>4. CASE ReserveQuote(r)
    BY <2>4, RecordTypes DEF ReserveQuote, BeginWrite, QuoteOfRequest, BytesOfRequest, Body
  <2>5. CASE RefuseReservation(r)
    BY <2>5 DEF RefuseReservation
  <2>6. CASE ReplayResult(r)
    BY <2>6 DEF ReplayResult, QuoteRecord, QuoteOfRequest, Body
  <2>7. CASE PersistReservation(r)
    BY <2>7 DEF PersistReservation, AfterReservation, EndWrite
  <2>8. CASE BudgetAdmits(r) \/ BudgetRefuses(r)
    BY <2>8 DEF BudgetAdmits, BudgetRefuses
  <2>9. CASE TakeNonceLock(r)
    BY <2>9 DEF TakeNonceLock
  <2>10. CASE SignAtCurrentNonce(r)
    <3>1. \A n \in Nonces : [TxOf(r) EXCEPT !.nonce = n] \in Tx
      BY <2>10 DEF SignAtCurrentNonce, TxOf, Tx, Body
    <3> QED
      BY <2>10, <3>1 DEF SignAtCurrentNonce
  <2>11. CASE RefuseToSign(r)
    BY <2>11 DEF RefuseToSign
  <2>12. CASE Simulate(r)
    BY <2>12 DEF Simulate
  <2>13. CASE FailCheck(r)
    BY <2>13 DEF FailCheck
  <2>14. CASE ReserveNonce(r)
    <3>1. TxOf(r) \in Tx /\ "SIMULATED" \in Statuses
      BY <2>14, TxOfType DEF ReserveNonce, Statuses
    <3>2. reservations' \subseteq Reservation /\ ledgerDisk' \subseteq Reservation
      BY <2>14, <3>1, LedgerTypes DEF ReserveNonce
    <3>3. nonce[r] \in Nat /\ cursor \in Nat
      OBVIOUS
    <3>4. cursor' \in {nonce[r] + 1, cursor}
      BY <2>14 DEF ReserveNonce
    <3> QED
      BY <2>14, <3>2, <3>3, <3>4 DEF ReserveNonce
  <2>15. CASE BroadcastAccepted(r)
    BY <2>15, TxOfType DEF BroadcastAccepted
  <2>16. CASE BroadcastFails(r)
    BY <2>16, TxOfType DEF BroadcastFails
  <2>17. CASE RecordBroadcast(r)
    <3>1. TxOf(r) \in Tx /\ "BROADCAST" \in Statuses
      BY <2>17, TxOfType DEF RecordBroadcast, Statuses
    <3>2. reservations' \subseteq Reservation /\ ledgerDisk' \subseteq Reservation
      BY <2>17, <3>1, LedgerTypes DEF RecordBroadcast
    <3> QED
      BY <2>17, <3>2 DEF RecordBroadcast
  <2>18. CASE RecordAmbiguous(r)
    <3>1. TxOf(r) \in Tx /\ "AMBIGUOUS" \in Statuses
      BY <2>18, TxOfType DEF RecordAmbiguous, Statuses
    <3>2. reservations' \subseteq Reservation /\ ledgerDisk' \subseteq Reservation
      BY <2>18, <3>1, LedgerTypes DEF RecordAmbiguous
    <3> QED
      BY <2>18, <3>2 DEF RecordAmbiguous
  <2>19. CASE ReleaseQuote(r)
    BY <2>19, RecordTypes DEF ReleaseQuote, BeginWrite, QuoteOfRequest, BytesOfRequest, Body
  <2>20. CASE KeepQuote(r)
    BY <2>20 DEF KeepQuote
  <2>21. CASE PersistRelease(r)
    BY <2>21 DEF PersistRelease, EndWrite
  <2>22. CASE CompleteQuote(r)
    <3>1. TxOf(r) \in Tx /\ QuoteOfRequest(r) \in Quotes
      BY <2>22, TxOfType DEF CompleteQuote, QuoteOfRequest, Body
    <3>2. Completed(records[QuoteOfRequest(r)], TxOf(r)) \in QuoteRecord
      BY <3>1, RecordTypes
    <3>3. records' \in [Quotes -> QuoteRecord] /\ quoteWriter' \in Requests \cup {Nobody}
      BY <2>22, <3>1, <3>2 DEF CompleteQuote, BeginWrite
    <3> QED
      BY <2>22, <3>3 DEF CompleteQuote, BeginWrite
  <2>23. CASE PersistCompletion(r)
    BY <2>23, TxOfType DEF PersistCompletion, EndWrite
  <2> QED
    BY <1>7, <2>1, <2>2, <2>3, <2>4, <2>5, <2>6, <2>7, <2>8, <2>9, <2>10, <2>11,
       <2>12, <2>13, <2>14, <2>15, <2>16, <2>17, <2>18, <2>19, <2>20, <2>21, <2>22,
       <2>23 DEF HandlerStep
<1> QED
  BY <1>1, <1>2, <1>3, <1>4, <1>5, <1>6, <1>7 DEF Next

\* Every state the relay reaches is well typed.
THEOREM TypeCorrect == Spec => []TypeOK
<1> QED
  BY InitTypes, StepTypes, PTL DEF Spec

-----------------------------------------------------------------------------
(* The inductive invariant. *)

\* Who holds the write queue and the nonce lock.
LEMMA SchedulingStep ==
    ASSUME TypeOK, TypeOK', Consistent, [Next]_vars
    PROVE  Scheduling'
<1> USE DEF TypeOK, QuoteTypeOK, LedgerTypeOK, At, Consistent, handlerVars, worldVars,
        quoteVars, ledgerVars, QuoteOfRequest, BytesOfRequest, Scheduling, Writing, Locked
<1>1. CASE UNCHANGED vars
  BY <1>1 DEF vars
<1>2. CASE Tick
  BY <1>2 DEF Tick
<1>3. CASE Crash
  BY <1>3 DEF Crash, ReloadQuotes, ReloadLedger
<1>4. ASSUME NEW q \in Quotes, IssueQuote(q) PROVE Scheduling'
  BY <1>4 DEF IssueQuote, PutIssued
<1>5. ASSUME NEW r \in Requests, Submit(r) PROVE Scheduling'
  BY <1>5 DEF Submit
<1>6. ASSUME NEW r \in Requests, Close(r) PROVE Scheduling'
  BY <1>6 DEF Close
<1>7. ASSUME NEW r \in Requests, HandlerStep(r) PROVE Scheduling'
  <2>1. CASE CheckQuote(r)
    BY <2>1 DEF CheckQuote, UsableQuote
  <2>2. CASE ObserveTip(r)
    BY <2>2 DEF ObserveTip
  <2>3. CASE RefuseEarly(r)
    BY <2>3 DEF RefuseEarly
  <2>4. CASE ReserveQuote(r)
    BY <2>4 DEF ReserveQuote, BeginWrite
  <2>5. CASE RefuseReservation(r)
    BY <2>5 DEF RefuseReservation
  <2>6. CASE ReplayResult(r)
    BY <2>6 DEF ReplayResult
  <2>7. CASE PersistReservation(r)
    BY <2>7 DEF PersistReservation, AfterReservation, EndWrite
  <2>8. CASE BudgetAdmits(r) \/ BudgetRefuses(r)
    BY <2>8 DEF BudgetAdmits, BudgetRefuses
  <2>9. CASE TakeNonceLock(r)
    BY <2>9 DEF TakeNonceLock
  <2>10. CASE SignAtCurrentNonce(r)
    BY <2>10 DEF SignAtCurrentNonce
  <2>11. CASE RefuseToSign(r)
    BY <2>11 DEF RefuseToSign
  <2>12. CASE Simulate(r)
    BY <2>12 DEF Simulate
  <2>13. CASE FailCheck(r)
    BY <2>13 DEF FailCheck
  <2>14. CASE ReserveNonce(r)
    BY <2>14 DEF ReserveNonce
  <2>15. CASE BroadcastAccepted(r)
    BY <2>15 DEF BroadcastAccepted
  <2>16. CASE BroadcastFails(r)
    BY <2>16 DEF BroadcastFails
  <2>17. CASE RecordBroadcast(r)
    BY <2>17 DEF RecordBroadcast
  <2>18. CASE RecordAmbiguous(r)
    BY <2>18 DEF RecordAmbiguous
  <2>19. CASE ReleaseQuote(r)
    BY <2>19 DEF ReleaseQuote, BeginWrite
  <2>20. CASE KeepQuote(r)
    BY <2>20 DEF KeepQuote
  <2>21. CASE PersistRelease(r)
    BY <2>21 DEF PersistRelease, EndWrite
  <2>22. CASE CompleteQuote(r)
    BY <2>22 DEF CompleteQuote, BeginWrite
  <2>23. CASE PersistCompletion(r)
    BY <2>23 DEF PersistCompletion, EndWrite
  <2> QED
    BY <1>7, <2>1, <2>2, <2>3, <2>4, <2>5, <2>6, <2>7, <2>8, <2>9, <2>10, <2>11,
       <2>12, <2>13, <2>14, <2>15, <2>16, <2>17, <2>18, <2>19, <2>20, <2>21, <2>22,
       <2>23 DEF HandlerStep
<1> QED
  BY <1>1, <1>2, <1>3, <1>4, <1>5, <1>6, <1>7 DEF Next

\* A quote keeps its owner until the owner lets it go.
LEMMA OwnershipStep ==
    ASSUME TypeOK, TypeOK', Consistent, [Next]_vars
    PROVE  Ownership'
<1> USE DEF TypeOK, QuoteTypeOK, LedgerTypeOK, At, Consistent, handlerVars, worldVars,
        quoteVars, ledgerVars, QuoteOfRequest, BytesOfRequest,
        Scheduling, Ownership, Owning, Writing, Locked, Holds, Bound
<1>1. CASE UNCHANGED vars
  BY <1>1 DEF vars
<1>2. CASE Tick
  BY <1>2 DEF Tick
<1>3. CASE Crash
  BY <1>3 DEF Crash, ReloadQuotes, ReloadLedger
<1>4. ASSUME NEW q \in Quotes, IssueQuote(q) PROVE Ownership'
  BY <1>4 DEF IssueQuote, PutIssued
<1>5. ASSUME NEW r \in Requests, Submit(r) PROVE Ownership'
  BY <1>5 DEF Submit
<1>6. ASSUME NEW r \in Requests, Close(r) PROVE Ownership'
  BY <1>6 DEF Close
<1>7. ASSUME NEW r \in Requests, HandlerStep(r) PROVE Ownership'
  <2>1. CASE CheckQuote(r)
    BY <2>1 DEF CheckQuote
  <2>2. CASE ObserveTip(r)
    BY <2>2 DEF ObserveTip
  <2>3. CASE RefuseEarly(r)
    BY <2>3 DEF RefuseEarly
  <2>4. CASE ReserveQuote(r)
    BY <2>4 DEF ReserveQuote, BeginWrite, Reserved, ReserveKind
  <2>5. CASE RefuseReservation(r)
    BY <2>5 DEF RefuseReservation
  <2>6. CASE ReplayResult(r)
    BY <2>6 DEF ReplayResult
  <2>7. CASE PersistReservation(r)
    BY <2>7 DEF PersistReservation, AfterReservation, EndWrite
  <2>8. CASE BudgetAdmits(r) \/ BudgetRefuses(r)
    BY <2>8 DEF BudgetAdmits, BudgetRefuses
  <2>9. CASE TakeNonceLock(r)
    BY <2>9 DEF TakeNonceLock
  <2>10. CASE SignAtCurrentNonce(r)
    BY <2>10 DEF SignAtCurrentNonce
  <2>11. CASE RefuseToSign(r)
    BY <2>11 DEF RefuseToSign
  <2>12. CASE Simulate(r)
    BY <2>12 DEF Simulate
  <2>13. CASE FailCheck(r)
    BY <2>13 DEF FailCheck
  <2>14. CASE ReserveNonce(r)
    BY <2>14 DEF ReserveNonce
  <2>15. CASE BroadcastAccepted(r)
    BY <2>15 DEF BroadcastAccepted
  <2>16. CASE BroadcastFails(r)
    BY <2>16 DEF BroadcastFails
  <2>17. CASE RecordBroadcast(r)
    BY <2>17 DEF RecordBroadcast
  <2>18. CASE RecordAmbiguous(r)
    BY <2>18 DEF RecordAmbiguous
  <2>19. CASE ReleaseQuote(r)
    BY <2>19 DEF ReleaseQuote, BeginWrite, Released
  <2>20. CASE KeepQuote(r)
    BY <2>20 DEF KeepQuote
  <2>21. CASE PersistRelease(r)
    BY <2>21 DEF PersistRelease, EndWrite
  <2>22. CASE CompleteQuote(r)
    <3>1. Holds(QuoteOfRequest(r), BytesOfRequest(r))
      BY <2>22 DEF CompleteQuote
    <3>2. /\ At(r, "complete", "completing")
          /\ BeginWrite(r, QuoteOfRequest(r), Completed(records[QuoteOfRequest(r)], TxOf(r)))
          /\ UNCHANGED <<ledgerVars, handlerVars, worldVars, nonceLock, reply>>
      BY <2>22, <3>1 DEF CompleteQuote
    <3> QED
      BY <3>1, <3>2 DEF BeginWrite, Completed
  <2>23. CASE PersistCompletion(r)
    BY <2>23 DEF PersistCompletion, EndWrite
  <2> QED
    BY <1>7, <2>1, <2>2, <2>3, <2>4, <2>5, <2>6, <2>7, <2>8, <2>9, <2>10, <2>11,
       <2>12, <2>13, <2>14, <2>15, <2>16, <2>17, <2>18, <2>19, <2>20, <2>21, <2>22,
       <2>23 DEF HandlerStep
<1> QED
  BY <1>1, <1>2, <1>3, <1>4, <1>5, <1>6, <1>7 DEF Next

\* What reached the network stays out of reach.
LEMMA SubmissionsStep ==
    ASSUME TypeOK, TypeOK', Consistent, [Next]_vars
    PROVE  Submissions'
<1> USE DEF TypeOK, QuoteTypeOK, LedgerTypeOK, At, Consistent, handlerVars, worldVars,
        quoteVars, ledgerVars, QuoteOfRequest, BytesOfRequest,
        Scheduling, Ownership, Submissions, Unsent, Consumed, Backed, Owning, Writing,
        Locked, Holds, Bound, TxOf
<1>1. CASE UNCHANGED vars
  BY <1>1 DEF vars
<1>2. CASE Tick
  BY <1>2 DEF Tick
<1>3. CASE Crash
  BY <1>3 DEF Crash, ReloadQuotes, ReloadLedger
<1>4. ASSUME NEW q \in Quotes, IssueQuote(q) PROVE Submissions'
  BY <1>4 DEF IssueQuote, PutIssued, Issued
<1>5. ASSUME NEW r \in Requests, Submit(r) PROVE Submissions'
  BY <1>5 DEF Submit
<1>6. ASSUME NEW r \in Requests, Close(r) PROVE Submissions'
  BY <1>6 DEF Close
<1>7. ASSUME NEW r \in Requests, HandlerStep(r) PROVE Submissions'
  <2>1. CASE CheckQuote(r)
    BY <2>1 DEF CheckQuote
  <2>2. CASE ObserveTip(r)
    BY <2>2 DEF ObserveTip
  <2>3. CASE RefuseEarly(r)
    BY <2>3 DEF RefuseEarly
  <2>4. CASE ReserveQuote(r)
    BY <2>4 DEF ReserveQuote, BeginWrite, Reserved, ReserveKind
  <2>5. CASE RefuseReservation(r)
    BY <2>5 DEF RefuseReservation
  <2>6. CASE ReplayResult(r)
    BY <2>6 DEF ReplayResult
  <2>7. CASE PersistReservation(r)
    BY <2>7 DEF PersistReservation, AfterReservation, EndWrite
  <2>8. CASE BudgetAdmits(r) \/ BudgetRefuses(r)
    BY <2>8 DEF BudgetAdmits, BudgetRefuses
  <2>9. CASE TakeNonceLock(r)
    BY <2>9 DEF TakeNonceLock
  <2>10. CASE SignAtCurrentNonce(r)
    BY <2>10 DEF SignAtCurrentNonce
  <2>11. CASE RefuseToSign(r)
    BY <2>11 DEF RefuseToSign
  <2>12. CASE Simulate(r)
    BY <2>12 DEF Simulate
  <2>13. CASE FailCheck(r)
    BY <2>13 DEF FailCheck
  <2>14. CASE ReserveNonce(r)
    BY <2>14 DEF ReserveNonce
  <2>15. CASE BroadcastAccepted(r)
    BY <2>15 DEF BroadcastAccepted
  <2>16. CASE BroadcastFails(r)
    BY <2>16 DEF BroadcastFails
  <2>17. CASE RecordBroadcast(r)
    BY <2>17 DEF RecordBroadcast
  <2>18. CASE RecordAmbiguous(r)
    BY <2>18 DEF RecordAmbiguous
  <2>19. CASE ReleaseQuote(r)
    BY <2>19 DEF ReleaseQuote, BeginWrite, Released, MayRelease
  <2>20. CASE KeepQuote(r)
    BY <2>20 DEF KeepQuote
  <2>21. CASE PersistRelease(r)
    BY <2>21 DEF PersistRelease, EndWrite
  <2>22. CASE CompleteQuote(r)
    <3>1. Holds(QuoteOfRequest(r), BytesOfRequest(r))
      BY <2>22 DEF CompleteQuote
    <3>2. /\ At(r, "complete", "completing")
          /\ BeginWrite(r, QuoteOfRequest(r), Completed(records[QuoteOfRequest(r)], TxOf(r)))
          /\ UNCHANGED <<ledgerVars, handlerVars, worldVars, nonceLock, reply>>
      BY <2>22, <3>1 DEF CompleteQuote
    <3> QED
      BY <3>1, <3>2 DEF BeginWrite, Completed
  <2>23. CASE PersistCompletion(r)
    BY <2>23 DEF PersistCompletion, EndWrite
  <2> QED
    BY <1>7, <2>1, <2>2, <2>3, <2>4, <2>5, <2>6, <2>7, <2>8, <2>9, <2>10, <2>11,
       <2>12, <2>13, <2>14, <2>15, <2>16, <2>17, <2>18, <2>19, <2>20, <2>21, <2>22,
       <2>23 DEF HandlerStep
<1> QED
  BY <1>1, <1>2, <1>3, <1>4, <1>5, <1>6, <1>7 DEF Next

\* A write succeeds or throws.
LEMMA Outcomes == WriteOutcomes \subseteq BOOLEAN
  BY DEF WriteOutcomes

\* A change of status moves no nonce to another transaction, in memory or, if
\* it is written, on disk.
LEMMA StatusKeepsNonces ==
    ASSUME LedgerTypeOK, NonceOnce(reservations), NonceOnce(ledgerDisk),
           NEW t, NEW status, NEW written, SetStatus(t, status, written)
    PROVE  /\ NonceOnce(reservations') /\ NonceOnce(ledgerDisk')
           /\ \A u : Reserves(reservations, u) => Reserves(reservations', u)
           /\ \A u : Reserves(reservations, u) /\ Reserves(ledgerDisk, u) =>
                    Reserves(ledgerDisk', u)
<1> DEFINE f(x) == IF x.tx = t THEN [x EXCEPT !.status = status] ELSE x
<1>1. reservations' = {f(x) : x \in reservations}
  BY DEF SetStatus, SaveLedger
<1>2. ledgerDisk' = IF written THEN reservations' ELSE ledgerDisk
  BY DEF SetStatus, SaveLedger
<1>3. \A x \in reservations : f(x).tx = x.tx
  BY DEF Reservation, LedgerTypeOK
<1> HIDE DEF f
<1>4. NonceOnce(reservations')
  BY <1>1, <1>3 DEF NonceOnce
<1>5. \A u : Reserves(reservations, u) => Reserves(reservations', u)
  BY <1>1, <1>3 DEF Reserves
<1> QED
  BY <1>2, <1>4, <1>5

\* Nonces are reserved once, and before the broadcast.
LEMMA LedgerStep ==
    ASSUME TypeOK, TypeOK', Consistent, [Next]_vars
    PROVE  Ledger'
<1> USE DEF TypeOK, QuoteTypeOK, LedgerTypeOK, At, Consistent, handlerVars, worldVars,
        quoteVars, ledgerVars, QuoteOfRequest, BytesOfRequest,
        Scheduling, Submissions, Ledger, Locked, TxOf
<1>1. CASE UNCHANGED vars
  BY <1>1 DEF vars
<1>2. CASE Tick
  BY <1>2 DEF Tick
<1>3. CASE Crash
  BY <1>3 DEF Crash, ReloadQuotes, ReloadLedger
<1>4. ASSUME NEW q \in Quotes, IssueQuote(q) PROVE Ledger'
  BY <1>4 DEF IssueQuote, PutIssued
<1>5. ASSUME NEW r \in Requests, Submit(r) PROVE Ledger'
  BY <1>5 DEF Submit
<1>6. ASSUME NEW r \in Requests, Close(r) PROVE Ledger'
  BY <1>6 DEF Close
<1>7. ASSUME NEW r \in Requests, HandlerStep(r) PROVE Ledger'
  <2>1. CASE CheckQuote(r)
    BY <2>1 DEF CheckQuote
  <2>2. CASE ObserveTip(r)
    BY <2>2 DEF ObserveTip
  <2>3. CASE RefuseEarly(r)
    BY <2>3 DEF RefuseEarly
  <2>4. CASE ReserveQuote(r)
    BY <2>4 DEF ReserveQuote, BeginWrite
  <2>5. CASE RefuseReservation(r)
    BY <2>5 DEF RefuseReservation
  <2>6. CASE ReplayResult(r)
    BY <2>6 DEF ReplayResult
  <2>7. CASE PersistReservation(r)
    BY <2>7 DEF PersistReservation, AfterReservation, EndWrite
  <2>8. CASE BudgetAdmits(r) \/ BudgetRefuses(r)
    BY <2>8 DEF BudgetAdmits, BudgetRefuses
  <2>9. CASE TakeNonceLock(r)
    BY <2>9 DEF TakeNonceLock
  <2>10. CASE SignAtCurrentNonce(r)
    BY <2>10 DEF SignAtCurrentNonce
  <2>11. CASE RefuseToSign(r)
    BY <2>11 DEF RefuseToSign
  <2>12. CASE Simulate(r)
    BY <2>12 DEF Simulate
  <2>13. CASE FailCheck(r)
    BY <2>13 DEF FailCheck
  <2>14. CASE ReserveNonce(r)
    <3>1. /\ pc' = [pc EXCEPT ![r] = "failed"] \/ pc' = [pc EXCEPT ![r] = "broadcast"]
          /\ UNCHANGED <<body, nonce, submitted>>
      BY <2>14 DEF ReserveNonce
    <3>2. CASE NonceTaken(TxOf(r))
      BY <2>14, <3>2 DEF ReserveNonce
    <3>3. CASE ~NonceTaken(TxOf(r))
      <4>1. PICK written \in WriteOutcomes :
               /\ At(r, "nonce", IF ~NonceTaken(TxOf(r)) /\ written THEN "broadcast" ELSE "failed")
               /\ IF NonceTaken(TxOf(r)) THEN UNCHANGED <<reservations, ledgerDisk>>
                  ELSE AddReservation(TxOf(r), "SIMULATED", written)
        <5> HIDE DEF TxOf
        <5> QED
          BY <2>14 DEF ReserveNonce
      <4>2. written \in BOOLEAN /\ AddReservation(TxOf(r), "SIMULATED", written)
        BY <3>3, <4>1, Outcomes
      <4> DEFINE new == [tx |-> TxOf(r), status |-> "SIMULATED"]
      <4>3. reservations' = reservations \cup {new} /\ new.tx = TxOf(r)
        BY <4>2 DEF AddReservation, SaveLedger
      <4>4. ledgerDisk' = IF written THEN reservations' ELSE ledgerDisk
        BY <4>2 DEF AddReservation, SaveLedger
      <4>5. \A x \in reservations : x.tx.nonce # TxOf(r).nonce
        BY <3>3 DEF NonceTaken
      <4> HIDE DEF new
      <4>6. NonceOnce(reservations')
        BY <4>3, <4>5 DEF NonceOnce
      <4>7. NonceOnce(ledgerDisk')
        BY <4>4, <4>6
      <4>8. \A u : Reserves(reservations, u) \/ u = TxOf(r) => Reserves(reservations', u)
        BY <4>3 DEF Reserves
      <4> QED
        BY <3>1, <3>3, <4>1, <4>2, <4>4, <4>6, <4>7, <4>8
    <3> QED
      BY <3>2, <3>3
  <2>15. CASE BroadcastAccepted(r)
    BY <2>15 DEF BroadcastAccepted
  <2>16. CASE BroadcastFails(r)
    BY <2>16 DEF BroadcastFails
  <2>17. CASE RecordBroadcast(r)
    <3>1. PICK written \in WriteOutcomes : SetStatus(TxOf(r), "BROADCAST", written)
      BY <2>17 DEF RecordBroadcast
    <3>2. /\ NonceOnce(reservations') /\ NonceOnce(ledgerDisk')
          /\ \A u : Reserves(reservations, u) => Reserves(reservations', u)
          /\ \A u : Reserves(reservations, u) /\ Reserves(ledgerDisk, u) =>
                   Reserves(ledgerDisk', u)
      BY <3>1, StatusKeepsNonces
    <3>3. /\ UNCHANGED <<body, nonce, submitted>>
          /\ \A s \in Requests : pc'[s] \in {"broadcast", "record", "ambiguous"} =>
                pc[s] \in {"broadcast", "record", "ambiguous"}
      BY <2>17 DEF RecordBroadcast
    <3> QED
      BY <3>2, <3>3
  <2>18. CASE RecordAmbiguous(r)
    <3>1. PICK written \in WriteOutcomes : SetStatus(TxOf(r), "AMBIGUOUS", written)
      BY <2>18 DEF RecordAmbiguous
    <3>2. /\ NonceOnce(reservations') /\ NonceOnce(ledgerDisk')
          /\ \A u : Reserves(reservations, u) => Reserves(reservations', u)
          /\ \A u : Reserves(reservations, u) /\ Reserves(ledgerDisk, u) =>
                   Reserves(ledgerDisk', u)
      BY <3>1, StatusKeepsNonces
    <3>3. /\ UNCHANGED <<body, nonce, submitted>>
          /\ \A s \in Requests : pc'[s] \in {"broadcast", "record", "ambiguous"} =>
                pc[s] \in {"broadcast", "record", "ambiguous"}
      BY <2>18 DEF RecordAmbiguous
    <3> QED
      BY <3>2, <3>3
  <2>19. CASE ReleaseQuote(r)
    BY <2>19 DEF ReleaseQuote, BeginWrite
  <2>20. CASE KeepQuote(r)
    BY <2>20 DEF KeepQuote
  <2>21. CASE PersistRelease(r)
    BY <2>21 DEF PersistRelease, EndWrite
  <2>22. CASE CompleteQuote(r)
    BY <2>22 DEF CompleteQuote, BeginWrite
  <2>23. CASE PersistCompletion(r)
    BY <2>23 DEF PersistCompletion, EndWrite
  <2> QED
    BY <1>7, <2>1, <2>2, <2>3, <2>4, <2>5, <2>6, <2>7, <2>8, <2>9, <2>10, <2>11,
       <2>12, <2>13, <2>14, <2>15, <2>16, <2>17, <2>18, <2>19, <2>20, <2>21, <2>22,
       <2>23 DEF HandlerStep
<1> QED
  BY <1>1, <1>2, <1>3, <1>4, <1>5, <1>6, <1>7 DEF Next

\* The relay starts consistent.
LEMMA ConsistentInit == Init => Consistent
  BY DEF Init, QuoteInit, LedgerInit, Absent, Consistent, Scheduling, Ownership, Submissions,
         Ledger, Owning, Writing, Locked, Unsent, Consumed, Backed, NonceOnce

\* Every action keeps the relay consistent.
LEMMA ConsistentStep == TypeOK /\ TypeOK' /\ Consistent /\ [Next]_vars => Consistent'
  BY SchedulingStep, OwnershipStep, SubmissionsStep, LedgerStep DEF Consistent

\* The ownership of quotes, writes and nonces is never lost: Consistent is an
\* invariant of the relay.
THEOREM AlwaysConsistent == Spec => []Consistent
<1>1. Spec => [](TypeOK /\ Consistent)
  BY InitTypes, StepTypes, ConsistentInit, ConsistentStep, PTL DEF Spec
<1> QED
  BY <1>1, PTL

-----------------------------------------------------------------------------
(* What it is for. *)

\* The safety invariants follow from the inductive one.
LEMMA ConsistentIsSafe ==
    ASSUME TypeOK, Consistent
    PROVE  /\ OneSponsorshipPerQuote
           /\ UniqueSponsorNonce
           /\ RecoverableBroadcasts
           /\ ReservationHeldToCompletion
<1> USE DEF Consistent
<1>1. OneSponsorshipPerQuote
  BY DEF Submissions, OneSponsorshipPerQuote
<1>2. UniqueSponsorNonce
  BY DEF Ledger, Reserves, NonceOnce, UniqueSponsorNonce
<1>3. RecoverableBroadcasts
  BY DEF Ledger, Reserves, Submissions, Consumed, RecoverableBroadcasts
<1>4. ReservationHeldToCompletion
  BY DEF Ownership, Owning, ReservationHeldToCompletion
<1> QED
  BY <1>1, <1>2, <1>3, <1>4

\* A quote, and a client's signed transaction, is sponsored at most once.
THEOREM SponsoredOnce == Spec => []OneSponsorshipPerQuote
  BY TypeCorrect, AlwaysConsistent, ConsistentIsSafe, PTL

\* Two transactions handed to the network never share a sponsor nonce.
THEOREM NoncesUnique == Spec => []UniqueSponsorNonce
  BY TypeCorrect, AlwaysConsistent, ConsistentIsSafe, PTL

\* A restarted process finds every broadcast in its files.
THEOREM BroadcastsRecoverable == Spec => []RecoverableBroadcasts
  BY TypeCorrect, AlwaysConsistent, ConsistentIsSafe, PTL

\* A handler that broadcast still holds its quote when it completes it.
THEOREM ReservationHeld == Spec => []ReservationHeldToCompletion
  BY TypeCorrect, AlwaysConsistent, ConsistentIsSafe, PTL

\* A result on disk never changes: the file is only replaced by a memory that
\* holds the same result.
THEOREM ResultsFinal == Spec => StoredResultIsFinal
<1>1. TypeOK /\ TypeOK' /\ Consistent /\ Consistent' /\ [Next]_vars =>
         [\A q \in Quotes :
             quoteDisk[q].state = "BROADCAST" => quoteDisk'[q] = quoteDisk[q]]_vars
  <2> SUFFICES ASSUME TypeOK, Consistent, [Next]_vars, NEW q \in Quotes,
                      quoteDisk[q].state = "BROADCAST"
               PROVE  quoteDisk'[q] = quoteDisk[q]
    OBVIOUS
  <2>1. records[q] = quoteDisk[q]
    BY DEF Consistent, Submissions
  <2>2. quoteDisk' \in {quoteDisk, records} \/ \E p \in Quotes : IssueQuote(p)
    BY DEF Next, vars, quoteVars, Tick, Crash, ReloadQuotes, Submit, Close, HandlerStep,
           CheckQuote, ObserveTip, RefuseEarly, ReserveQuote, RefuseReservation, ReplayResult,
           PersistReservation, BudgetAdmits, BudgetRefuses, TakeNonceLock,
           SignAtCurrentNonce, RefuseToSign, Simulate, FailCheck,
           ReserveNonce, BroadcastAccepted, BroadcastFails, RecordBroadcast, RecordAmbiguous,
           ReleaseQuote, KeepQuote, PersistRelease, CompleteQuote, PersistCompletion,
           BeginWrite, EndWrite
  <2>3. ASSUME NEW p \in Quotes, IssueQuote(p) PROVE quoteDisk'[q] = quoteDisk[q]
    BY <2>1, <2>3 DEF IssueQuote, PutIssued, TypeOK, QuoteTypeOK
  <2> QED
    BY <2>1, <2>2, <2>3
<1> QED
  BY <1>1, TypeCorrect, AlwaysConsistent, PTL DEF Spec, StoredResultIsFinal

-----------------------------------------------------------------------------
(* Under a budget. *)

\* What was signed has a quote.
LEMMA SignedHasQuote ==
    ASSUME TypeOK, NEW t \in signed
    PROVE  t.quote \in Quotes
  BY DEF TypeOK, Tx

\* A new signature is for a quote that had none, and that is in use.
LEMMA SignatureStep ==
    ASSUME TypeOK, TypeOK', Consistent, Signatures, NEW r \in Requests, SignAtCurrentNonce(r)
    PROVE  Signatures'
<1> USE DEF At, quoteVars, Signatures, Unsigned, QuoteOfRequest, BytesOfRequest
<1>1. PICK n \in Nonces : signed' = signed \cup {[TxOf(r) EXCEPT !.nonce = n]}
  BY DEF SignAtCurrentNonce
<1> DEFINE t == [TxOf(r) EXCEPT !.nonce = n]
           q == QuoteOfRequest(r)
<1>2. t.quote = q /\ q \in Quotes
  BY DEF SignAtCurrentNonce, TxOf, TypeOK, Body
<1>3. pc[r] = "sign" /\ pc' = [pc EXCEPT ![r] = "simulate"]
      /\ UNCHANGED <<records, quoteDisk, body>> /\ prepared' = [prepared EXCEPT ![r] = TRUE]
  BY DEF SignAtCurrentNonce
<1>4. Holds(q, BytesOfRequest(r)) /\ Bound(quoteDisk[q], BytesOfRequest(r))
  BY <1>3 DEF Consistent, Ownership, Owning
<1>5. \A s \in Requests : s # r /\ Unsigned(s) => QuoteOfRequest(s) # q
  BY <1>3 DEF Consistent, Ownership, Owning, Writing
<1>6. \A u \in signed : u.quote # q
  BY <1>3
<1> HIDE DEF t
<1>7. InUse(records)' /\ InUse(quoteDisk)'
  BY <1>1, <1>2, <1>3, <1>4 DEF InUse, Holds, Bound, t
<1>8. OneSignaturePerQuote'
  BY <1>1, <1>2, <1>6 DEF OneSignaturePerQuote, t
<1>9. \A s \in Requests : Unsigned(s)' => \A u \in signed' : u.quote # QuoteOfRequest(s)'
  <2>1. \A s \in Requests : Unsigned(s)' => s # r /\ Unsigned(s)
    BY <1>3 DEF TypeOK
  <2>2. signed' = signed \cup {t} /\ UNCHANGED body
    BY <1>1, <1>3 DEF t
  <2> QED
    BY <1>2, <1>5, <2>1, <2>2
<1>10. \A s \in Requests :
          pc'[s] \in (Locked \ {"sign"}) \cup {"complete", "completing"} => prepared'[s]
  BY <1>3 DEF TypeOK
<1> QED
  BY <1>7, <1>8, <1>9, <1>10

\* Every action keeps signed quotes in use.
LEMMA SignaturesStep ==
    ASSUME TypeOK, TypeOK', Consistent, Signatures, BudgetControlled, [Next]_vars
    PROVE  Signatures'
<1> USE SignedHasQuote
        DEF TypeOK, QuoteTypeOK, At, handlerVars, worldVars, quoteVars, QuoteOfRequest,
            Signatures, InUse, Unsigned, OneSignaturePerQuote, Locked
<1>1. CASE UNCHANGED vars
  BY <1>1 DEF vars
<1>2. CASE Tick
  BY <1>2 DEF Tick
<1>3. CASE Crash
  BY <1>3 DEF Crash, ReloadQuotes
<1>4. ASSUME NEW q \in Quotes, IssueQuote(q) PROVE Signatures'
  BY <1>4 DEF IssueQuote, PutIssued
<1>5. ASSUME NEW r \in Requests, Submit(r) PROVE Signatures'
  BY <1>5 DEF Submit
<1>6. ASSUME NEW r \in Requests, Close(r) PROVE Signatures'
  BY <1>6 DEF Close
<1>7. ASSUME NEW r \in Requests, HandlerStep(r) PROVE Signatures'
  <2>1. CASE CheckQuote(r)
    BY <2>1 DEF CheckQuote, UsableQuote
  <2>2. CASE ObserveTip(r)
    BY <2>2 DEF ObserveTip
  <2>3. CASE RefuseEarly(r)
    BY <2>3 DEF RefuseEarly
  <2>4. CASE ReserveQuote(r)
    <3> DEFINE q == QuoteOfRequest(r)
    <3>1. q \in Quotes /\ body[r] \in Body
      BY <2>4 DEF ReserveQuote, Body
    <3>2. /\ ReserveKind(q, BytesOfRequest(r)) = "reserved"
          /\ BeginWrite(r, q, Reserved(records[q], BytesOfRequest(r)))
          /\ At(r, "reserve", "reserving") /\ UNCHANGED <<handlerVars, worldVars>>
      BY <2>4 DEF ReserveQuote
    <3>3. records[q].state = "BROADCAST" => records[q].result # NoTx
      BY <3>1, TransactionsAssumption DEF Consistent, Submissions, Backed
    <3>4. records[q].state = "ISSUED"
      BY <3>1, <3>2, <3>3 DEF ReserveKind, QuoteRecord, QuoteStates
    <3>5. \A t \in signed : t.quote # q
      BY <3>4
    <3>6. \A p \in Quotes : records'[p].state \in {records[p].state, "PROCESSING"}
      BY <3>1, <3>2 DEF BeginWrite, Reserved, QuoteRecord
    <3> QED
      BY <3>2, <3>5, <3>6 DEF BeginWrite
  <2>5. CASE RefuseReservation(r)
    BY <2>5 DEF RefuseReservation
  <2>6. CASE ReplayResult(r)
    BY <2>6 DEF ReplayResult
  <2>7. CASE PersistReservation(r)
    BY <2>7 DEF PersistReservation, AfterReservation, EndWrite
  <2>8. CASE BudgetAdmits(r) \/ BudgetRefuses(r)
    BY <2>8 DEF BudgetAdmits, BudgetRefuses
  <2>9. CASE TakeNonceLock(r)
    BY <2>9 DEF TakeNonceLock
  <2>10. CASE SignAtCurrentNonce(r)
    BY <2>10, SignatureStep
  <2>11. CASE RefuseToSign(r)
    BY <2>11 DEF RefuseToSign
  <2>12. CASE Simulate(r)
    BY <2>12 DEF Simulate
  <2>13. CASE FailCheck(r)
    BY <2>13 DEF FailCheck
  <2>14. CASE ReserveNonce(r)
    BY <2>14 DEF ReserveNonce
  <2>15. CASE BroadcastAccepted(r)
    BY <2>15 DEF BroadcastAccepted
  <2>16. CASE BroadcastFails(r)
    BY <2>16 DEF BroadcastFails
  <2>17. CASE RecordBroadcast(r)
    BY <2>17 DEF RecordBroadcast
  <2>18. CASE RecordAmbiguous(r)
    BY <2>18 DEF RecordAmbiguous
  <2>19. CASE ReleaseQuote(r)
    BY <2>19 DEF ReleaseQuote, MayRelease, BeginWrite, Released
  <2>20. CASE KeepQuote(r)
    BY <2>20 DEF KeepQuote
  <2>21. CASE PersistRelease(r)
    BY <2>21 DEF PersistRelease, EndWrite
  <2>22. CASE CompleteQuote(r)
    <3>1. Holds(QuoteOfRequest(r), BytesOfRequest(r))
      BY <2>22 DEF CompleteQuote, Consistent, Ownership, Owning
    <3>2. /\ At(r, "complete", "completing")
          /\ BeginWrite(r, QuoteOfRequest(r), Completed(records[QuoteOfRequest(r)], TxOf(r)))
          /\ UNCHANGED <<handlerVars, worldVars>>
      BY <2>22, <3>1 DEF CompleteQuote
    <3>3. \A q \in Quotes : records'[q].state \in {records[q].state, "BROADCAST"}
      BY <3>2 DEF BeginWrite, Completed, QuoteRecord
    <3> QED
      BY <3>2, <3>3 DEF BeginWrite
  <2>23. CASE PersistCompletion(r)
    BY <2>23 DEF PersistCompletion, EndWrite
  <2> QED
    BY <1>7, <2>1, <2>2, <2>3, <2>4, <2>5, <2>6, <2>7, <2>8, <2>9, <2>10, <2>11,
       <2>12, <2>13, <2>14, <2>15, <2>16, <2>17, <2>18, <2>19, <2>20, <2>21, <2>22,
       <2>23 DEF HandlerStep
<1> QED
  BY <1>1, <1>2, <1>3, <1>4, <1>5, <1>6, <1>7 DEF Next

\* When a budget is configured a quote is signed at most once: not even a
\* signature whose check failed is followed by another.
THEOREM SignedOnce == Spec => [](BudgetControlled => OneSignaturePerQuote)
<1>1. Init => Signatures
  BY DEF Init, QuoteInit, Signatures, InUse, Unsigned, Locked, OneSignaturePerQuote
<1>2. /\ TypeOK /\ TypeOK' /\ Consistent /\ [Next]_vars
      /\ BudgetControlled => Signatures
      => (BudgetControlled => Signatures)'
  BY SignaturesStep
<1>3. (BudgetControlled => Signatures) => (BudgetControlled => OneSignaturePerQuote)
  BY DEF Signatures
<1> QED
  BY <1>1, <1>2, <1>3, TypeCorrect, AlwaysConsistent, PTL DEF Spec

-----------------------------------------------------------------------------
(* The relay implements the abstract sponsorship service. *)

\* The relay starts where the abstract service starts.
LEMMA AbstractInit == Init => Abstract!Init
  BY DEF Init, Abstract!Init

\* Broadcasts are Sponsor steps, answers are Answer steps, and everything else
\* is invisible.
LEMMA AbstractStep ==
    ASSUME TypeOK, Consistent, [Next]_vars
    PROVE  [Abstract!Next]_(Abstract!vars)
<1> USE DEF Abstract!vars, Abstract!Next, At
<1>1. ASSUME NEW t \in Tx, submitted' = submitted \cup {t}, UNCHANGED <<body, reply>>,
             QuoteOf[t.bytes] = t.quote, Reserves(reservations, t),
             \A u \in submitted : u.quote # t.quote
      PROVE  Abstract!Next
  <2>1. \A u \in submitted : u.bytes # t.bytes
    BY <1>1 DEF Consistent, Submissions
  <2>2. \A u \in submitted : u.nonce # t.nonce
    BY <1>1 DEF Consistent, Ledger, Reserves, NonceOnce
  <2>3. Abstract!Sponsor(t)
    BY <1>1, <2>1, <2>2 DEF Abstract!Sponsor
  <2> QED
    BY <1>1, <2>3 DEF Tx, Body, Abstract!Tx
<1>2. ASSUME NEW r \in Requests, NEW t \in submitted, UNCHANGED <<body, submitted>>,
             reply' = [reply EXCEPT ![r] = t], pc[r] # "idle",
             t.quote = QuoteOfRequest(r), t.bytes = BytesOfRequest(r)
      PROVE  Abstract!Next
  <2>1. body[r] = [quote |-> t.quote, bytes |-> t.bytes]
    BY <1>2 DEF TypeOK, QuoteOfRequest, BytesOfRequest, Body
  <2> QED
    BY <1>2, <2>1 DEF Abstract!Answer
<1>3. ASSUME NEW r \in Requests, pc[r] = "broadcast",
             submitted' \in {submitted, submitted \cup {TxOf(r)}}, UNCHANGED <<body, reply>>
      PROVE  [Abstract!Next]_(Abstract!vars)
  <2>1. /\ Reserves(reservations, TxOf(r))
        /\ \A u \in submitted : u.quote # TxOf(r).quote
        /\ QuoteOf[TxOf(r).bytes] = TxOf(r).quote
    BY <1>3 DEF Consistent, Ledger, Submissions, Unsent, Scheduling, TxOf,
                QuoteOfRequest, BytesOfRequest
  <2>2. TxOf(r) \in Tx
    BY <1>3, TxOfType DEF TypeOK
  <2> QED
    BY <1>1, <1>3, <2>1, <2>2
<1>4. CASE Crash
  <2>1. Abstract!Hangup(Requests)
    BY <1>4 DEF Crash, Abstract!Hangup, worldVars
  <2> QED
    BY <2>1
<1>5. ASSUME NEW r \in Requests, Submit(r) PROVE Abstract!Next
  <2>1. PICK q \in offered, b \in Bytes : body' = [body EXCEPT ![r] = [quote |-> q, bytes |-> b]]
    BY <1>5 DEF Submit
  <2>2. [quote |-> q, bytes |-> b] \in Abstract!Body
    BY <2>1 DEF Abstract!Body, TypeOK
  <2>3. Abstract!Ask(r, [quote |-> q, bytes |-> b])
    BY <1>5, <2>1 DEF Submit, Abstract!Ask, worldVars, Consistent, Scheduling
  <2> QED
    BY <2>2, <2>3
<1>6. ASSUME NEW r \in Requests, Close(r) PROVE Abstract!Next
  <2>1. Abstract!Hangup({r})
    BY <1>6 DEF Close, Abstract!Hangup, TypeOK, worldVars
  <2> QED
    BY <2>1
<1>7. ASSUME NEW r \in Requests, HandlerStep(r) PROVE [Abstract!Next]_(Abstract!vars)
  <2>1. CASE BroadcastAccepted(r) \/ BroadcastFails(r)
    BY <1>3, <2>1 DEF BroadcastAccepted, BroadcastFails, handlerVars
  <2>2. CASE ReplayResult(r)
    <3> DEFINE t == records[QuoteOfRequest(r)].result
    <3>1. QuoteOfRequest(r) \in Quotes
      BY <2>2 DEF ReplayResult, QuoteOfRequest, TypeOK, Body
    <3>2. /\ records[QuoteOfRequest(r)].state = "BROADCAST"
          /\ records[QuoteOfRequest(r)].hash \in {NoBytes, BytesOfRequest(r)}
      BY <2>2 DEF ReplayResult, ReserveKind
    <3>3. /\ t \in submitted
          /\ t.quote = QuoteOfRequest(r)
          /\ t.bytes = records[QuoteOfRequest(r)].hash
      BY <3>1, <3>2 DEF Consistent, Submissions, Backed
    <3>4. t.bytes # NoBytes
      BY <3>3, TransactionsAssumption DEF TypeOK, Tx
    <3> QED
      BY <1>2, <2>2, <3>2, <3>3, <3>4 DEF ReplayResult, handlerVars, worldVars
  <2>3. CASE PersistCompletion(r)
    <3>1. TxOf(r) \in submitted
      BY <2>3 DEF PersistCompletion, Consistent, Submissions
    <3>2. reply' = reply \/ reply' = [reply EXCEPT ![r] = TxOf(r)]
      BY <2>3 DEF PersistCompletion
    <3> QED
      BY <1>2, <2>3, <3>1, <3>2
         DEF PersistCompletion, handlerVars, worldVars, TxOf, QuoteOfRequest, BytesOfRequest
  <2>4. UNCHANGED <<submitted, body, reply>>
        \/ BroadcastAccepted(r) \/ BroadcastFails(r) \/ ReplayResult(r) \/ PersistCompletion(r)
    BY <1>7 DEF HandlerStep, handlerVars, worldVars,
           CheckQuote, ObserveTip, RefuseEarly, ReserveQuote, RefuseReservation,
           PersistReservation, BudgetAdmits, BudgetRefuses, TakeNonceLock,
           SignAtCurrentNonce, RefuseToSign, Simulate, FailCheck,
           ReserveNonce, RecordBroadcast, RecordAmbiguous,
           ReleaseQuote, KeepQuote, PersistRelease, CompleteQuote
  <2> QED
    BY <2>1, <2>2, <2>3, <2>4
<1>8. CASE UNCHANGED vars \/ Tick \/ \E q \in Quotes : IssueQuote(q)
  BY <1>8 DEF vars, handlerVars, worldVars, Tick, IssueQuote
<1> QED
  BY <1>4, <1>5, <1>6, <1>7, <1>8 DEF Next

\* Concurrency, failing disks, ambiguous broadcasts and restarts are invisible:
\* the relay behaves as the one-shot sponsorship service its clients see.
THEOREM Implementation == Spec => ImplementsSponsorship
<1> QED
  BY AbstractInit, AbstractStep, TypeCorrect, AlwaysConsistent, PTL
     DEF Spec, ImplementsSponsorship, Abstract!Spec

=============================================================================

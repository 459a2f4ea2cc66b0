---------------------------- MODULE SponsorRelay ----------------------------
(***************************************************************************)
(* The relay's sponsorship path: concurrent POST /v1/sponsorships handlers *)
(* (OssrRelayApi.sponsor) over one quote store, one operator with its      *)
(* nonce lock (OssrOperator.sponsorAndBroadcast) and one nonce ledger,     *)
(* with failing disks, refused and ambiguous broadcasts, and a process     *)
(* that may die and be restarted between any two steps.                    *)
(*                                                                         *)
(* A handler is a connection r; pc[r] names the await it is suspended at.  *)
(* Every step between two awaits is one action.                            *)
(***************************************************************************)
EXTENDS QuoteStore, NonceLedger

CONSTANTS
    BudgetControlled,   \* a beta budget is configured
    Faults,             \* which of "crash", "disk", "broadcast" can happen
    Lifetime,           \* quoteLifetimeBlocks
    MaxHeight,          \* bound: last block height explored
    MaxFetched          \* bound: largest account nonce the API answers with

ASSUME RelayAssumption ==
    /\ BudgetControlled \in BOOLEAN
    /\ Faults \subseteq {"crash", "disk", "broadcast"}
    /\ Lifetime \in Nat /\ MaxHeight \in Nat
    /\ MaxFetched \in Nat

VARIABLES
    height,     \* stacks_tip_height
    offered,    \* quotes that were returned to a client
    pc,         \* where each handler is suspended
    body,       \* body[r]: the request being handled
    minHeight,  \* minimumSimulationBlockHeight of each handler
    nonce,      \* sponsorNonce each handler signed with
    prepared,   \* signaturePrepared
    passed,     \* simulationPassed
    nonceLock,  \* the handler inside withNonceLock, or Nobody
    signed,     \* every transaction the sponsor key ever signed
    submitted,  \* every transaction that reached the network
    reply       \* transaction reported to the client, NoTx for an error

handlerVars == <<body, minHeight, nonce, prepared, passed>>
worldVars == <<height, offered, signed, submitted>>
vars == <<quoteVars, ledgerVars, handlerVars, worldVars, pc, nonceLock, reply>>

PCs == {"idle", "check", "price", "reserve", "reserving", "budget", "queued", "sign",
        "simulate", "nonce", "broadcast", "record", "ambiguous", "failed", "releasing",
        "complete", "completing", "done"}

TypeOK ==
    /\ QuoteTypeOK
    /\ LedgerTypeOK
    /\ height \in Nat
    /\ offered \subseteq Quotes
    /\ pc \in [Requests -> PCs]
    /\ body \in [Requests -> Body \cup {NoBody}]
    /\ \A r \in Requests : pc[r] # "idle" => body[r] \in Body
    /\ minHeight \in [Requests -> Nat]
    /\ nonce \in [Requests -> Nonces]
    /\ prepared \in [Requests -> BOOLEAN]
    /\ passed \in [Requests -> BOOLEAN]
    /\ nonceLock \in Requests \cup {Nobody}
    /\ signed \subseteq Tx
    /\ submitted \subseteq Tx
    /\ reply \in [Requests -> Tx \cup {NoTx}]

Init ==
    /\ QuoteInit
    /\ LedgerInit
    /\ height = 0
    /\ offered = {}
    /\ pc = [r \in Requests |-> "idle"]
    /\ body = [r \in Requests |-> NoBody]
    /\ minHeight = [r \in Requests |-> 0]
    /\ nonce = [r \in Requests |-> 0]
    /\ prepared = [r \in Requests |-> FALSE]
    /\ passed = [r \in Requests |-> FALSE]
    /\ nonceLock = Nobody
    /\ signed = {}
    /\ submitted = {}
    /\ reply = [r \in Requests |-> NoTx]

-----------------------------------------------------------------------------
(* Helpers. *)

QuoteOfRequest(r) == body[r].quote
BytesOfRequest(r) == body[r].bytes

\* The transaction handler r has signed.
TxOf(r) == [quote |-> body[r].quote, bytes |-> body[r].bytes, nonce |-> nonce[r]]

At(r, from, to) == pc[r] = from /\ pc' = [pc EXCEPT ![r] = to]

\* A write to disk succeeds, or fails when disks may fail.
WriteOutcomes == {TRUE} \cup (IF "disk" \in Faults THEN {FALSE} ELSE {})

Larger(a, b) == IF a >= b THEN a ELSE b

-----------------------------------------------------------------------------
(* The world outside a handler. *)

Tick ==
    /\ height < MaxHeight
    /\ height' = height + 1
    /\ UNCHANGED <<quoteVars, ledgerVars, handlerVars, offered, signed, submitted,
                   pc, nonceLock, reply>>

\* quote(): a fresh id that expires Lifetime blocks after the tip the handler
\* read, which may be behind by now, is stored; it is returned to the client
\* only when the write succeeded.
IssueQuote(q) ==
    /\ \E tip \in 0 .. height, written \in WriteOutcomes :
          /\ PutIssued(q, tip + Lifetime, written)
          /\ offered' = IF written THEN offered \cup {q} ELSE offered
    /\ UNCHANGED <<ledgerVars, handlerVars, height, signed, submitted, pc,
                   nonceLock, reply>>

\* A client sends bytes for a quote it was given, on an idle connection.
Submit(r) ==
    /\ At(r, "idle", "check")
    /\ \E q \in offered, b \in Bytes :
          body' = [body EXCEPT ![r] = [quote |-> q, bytes |-> b]]
    /\ UNCHANGED <<quoteVars, ledgerVars, minHeight, nonce, prepared, passed,
                   worldVars, nonceLock, reply>>

\* The response was delivered; the connection can carry another request.
Close(r) ==
    /\ At(r, "done", "idle")
    /\ body' = [body EXCEPT ![r] = NoBody]
    /\ minHeight' = [minHeight EXCEPT ![r] = 0]
    /\ nonce' = [nonce EXCEPT ![r] = 0]
    /\ prepared' = [prepared EXCEPT ![r] = FALSE]
    /\ passed' = [passed EXCEPT ![r] = FALSE]
    /\ reply' = [reply EXCEPT ![r] = NoTx]
    /\ UNCHANGED <<quoteVars, ledgerVars, worldVars, nonceLock>>

\* The process dies and is restarted: handlers, locks, the cursor and both
\* in-memory maps are lost, and the stores are loaded from their files.
Crash ==
    /\ "crash" \in Faults
    /\ ReloadQuotes
    /\ ReloadLedger
    /\ pc' = [r \in Requests |-> "idle"]
    /\ body' = [r \in Requests |-> NoBody]
    /\ minHeight' = [r \in Requests |-> 0]
    /\ nonce' = [r \in Requests |-> 0]
    /\ prepared' = [r \in Requests |-> FALSE]
    /\ passed' = [r \in Requests |-> FALSE]
    /\ reply' = [r \in Requests |-> NoTx]
    /\ nonceLock' = Nobody
    /\ UNCHANGED worldVars

-----------------------------------------------------------------------------
(* Validation and the quote reservation. *)

\* requireUsableQuote: a quote that already has a result is not checked for
\* expiry, because the stored result is about to be replayed.
UsableQuote(q) ==
    \/ records[q].state = "BROADCAST" /\ records[q].result # NoTx
    \/ records[q].state # "NONE" /\ height <= records[q].expiry

\* The quote is usable and the transaction's arguments are the quote's.
CheckQuote(r) ==
    /\ pc[r] = "check"
    /\ At(r, "check", IF UsableQuote(QuoteOfRequest(r))
                         /\ QuoteOf[BytesOfRequest(r)] = QuoteOfRequest(r)
                      THEN "price" ELSE "done")
    /\ UNCHANGED <<quoteVars, ledgerVars, handlerVars, worldVars, nonceLock, reply>>

\* The sign of the margin slipped.
MinimumSimulationHeightBelowTip == height - 1

\* The simulation must run on a block after the tip the handler read.
MinimumSimulationHeight == height + 1

\* Health, fee estimate and tip height are read before the reservation.
ObserveTip(r) ==
    /\ At(r, "price", "reserve")
    /\ minHeight' = [minHeight EXCEPT ![r] = MinimumSimulationHeight]
    /\ UNCHANGED <<quoteVars, ledgerVars, body, nonce, prepared, passed,
                   worldVars, nonceLock, reply>>

\* Unhealthy operator, fee out of policy, or an API that does not answer.
RefuseEarly(r) ==
    /\ At(r, "price", "done")
    /\ UNCHANGED <<quoteVars, ledgerVars, handlerVars, worldVars, nonceLock, reply>>

ReserveQuote(r) ==
    LET q == QuoteOfRequest(r)
        b == BytesOfRequest(r)
    IN  /\ At(r, "reserve", "reserving")
        /\ ReserveKind(q, b) = "reserved"
        /\ BeginWrite(r, q, Reserved(records[q], b))
        /\ UNCHANGED <<ledgerVars, handlerVars, worldVars, nonceLock, reply>>

\* 404, 409 IDEMPOTENCY_MISMATCH or 409 SPONSORSHIP_IN_PROGRESS.
RefuseReservation(r) ==
    /\ At(r, "reserve", "done")
    /\ quoteWriter = Nobody
    /\ ReserveKind(QuoteOfRequest(r), BytesOfRequest(r))
          \in {"missing", "mismatch", "processing"}
    /\ UNCHANGED <<quoteVars, ledgerVars, handlerVars, worldVars, nonceLock, reply>>

\* The same bytes again: the stored result is returned.
ReplayResult(r) ==
    /\ At(r, "reserve", "done")
    /\ quoteWriter = Nobody
    /\ ReserveKind(QuoteOfRequest(r), BytesOfRequest(r)) = "completed"
    /\ reply' = [reply EXCEPT ![r] = records[QuoteOfRequest(r)].result]
    /\ UNCHANGED <<quoteVars, ledgerVars, handlerVars, worldVars, nonceLock>>

\* The budget comes first when there is one, then the queue for the nonce lock.
AfterReservation == IF BudgetControlled THEN "budget" ELSE "queued"

\* The write is not awaited, so its failure is not noticed.
PersistReservationUnawaited(r) ==
    /\ At(r, "reserving", AfterReservation)
    /\ \E written \in WriteOutcomes : EndWrite(r, written)
    /\ UNCHANGED <<ledgerVars, handlerVars, worldVars, nonceLock, reply>>

\* A failed write leaves the handler (the reservation is outside the try
\* block) with the quote PROCESSING in memory.
PersistReservation(r) ==
    /\ \E written \in WriteOutcomes :
          /\ At(r, "reserving", IF written THEN AfterReservation ELSE "done")
          /\ EndWrite(r, written)
    /\ UNCHANGED <<ledgerVars, handlerVars, worldVars, nonceLock, reply>>

BudgetAdmits(r) ==
    /\ At(r, "budget", "queued")
    /\ UNCHANGED <<quoteVars, ledgerVars, handlerVars, worldVars, nonceLock, reply>>

\* An asset the beta does not cover, a limit that is reached, or a ledger that
\* cannot be written.
BudgetRefuses(r) ==
    /\ At(r, "budget", "failed")
    /\ UNCHANGED <<quoteVars, ledgerVars, handlerVars, worldVars, nonceLock, reply>>

-----------------------------------------------------------------------------
(* sponsorAndBroadcast, under the operator's nonce lock. *)

\* withNonceLock: the handlers before this one have released the lock.
TakeNonceLock(r) ==
    /\ nonceLock = Nobody
    /\ nonceLock' = r
    /\ At(r, "queued", "sign")
    /\ UNCHANGED <<quoteVars, ledgerVars, handlerVars, worldVars, reply>>

\* signAtCurrentNonce: the account nonce the API answers with may be stale or
\* ahead (other wallets use the account); cursor and ledger are floors.
SignAtCurrentNonce(r) ==
    /\ At(r, "sign", "simulate")
    /\ \E fetched \in 0 .. MaxFetched, n \in Nonces :
          /\ IsNextNonce(n, Larger(cursor, fetched))
          /\ nonce' = [nonce EXCEPT ![r] = n]
          /\ signed' = signed \cup {[TxOf(r) EXCEPT !.nonce = n]}
    /\ prepared' = [prepared EXCEPT ![r] = TRUE]
    /\ UNCHANGED <<quoteVars, ledgerVars, body, minHeight, passed, height, offered,
                   submitted, nonceLock, reply>>

\* The lock is not released when the operation throws.
RefuseToSignKeepingLock(r) ==
    /\ At(r, "sign", "failed")
    /\ UNCHANGED <<quoteVars, ledgerVars, handlerVars, worldVars, nonceLock, reply>>

\* The balance is too low, or the balance or the nonce cannot be read; the lock
\* is released on the way out.
RefuseToSign(r) ==
    /\ At(r, "sign", "failed")
    /\ nonceLock' = Nobody
    /\ UNCHANGED <<quoteVars, ledgerVars, handlerVars, worldVars, reply>>

\* validateSimulationResponse on a block the adapter accepts: at least the
\* height required when the request was priced, at most the quote's expiry.
\* The simulated block may be the tip, an older one, or the next.
SimulationAccepts(r, h) ==
    /\ h >= minHeight[r]
    /\ h <= records[QuoteOfRequest(r)].expiry

Simulate(r) ==
    /\ At(r, "simulate", "nonce")
    /\ \E h \in 1 .. height + 1 : SimulationAccepts(r, h)
    /\ passed' = [passed EXCEPT ![r] = TRUE]
    /\ UNCHANGED <<quoteVars, ledgerVars, body, minHeight, nonce, prepared,
                   worldVars, nonceLock, reply>>

\* The check throws (simulation, budget attachment or payment settlement);
\* the nonce lock is released and the nonce stays free.
FailCheck(r) ==
    /\ At(r, "simulate", "failed")
    /\ nonceLock' = Nobody
    /\ UNCHANGED <<quoteVars, ledgerVars, handlerVars, worldVars, reply>>

\* The nonce is reserved durably, and the cursor moves past it, before the
\* bytes may reach the network.
ReserveNonce(r) ==
    /\ pc[r] = "nonce"
    /\ \E written \in WriteOutcomes :
          LET reserved == ~NonceTaken(TxOf(r)) /\ written
          IN  /\ At(r, "nonce", IF reserved THEN "broadcast" ELSE "failed")
              /\ IF NonceTaken(TxOf(r))
                 THEN UNCHANGED <<reservations, ledgerDisk>>
                 ELSE AddReservation(TxOf(r), "SIMULATED", written)
              /\ cursor' = IF reserved THEN nonce[r] + 1 ELSE cursor
              /\ nonceLock' = IF reserved THEN nonceLock ELSE Nobody
    /\ UNCHANGED <<quoteVars, handlerVars, worldVars, reply>>

BroadcastAccepted(r) ==
    /\ At(r, "broadcast", "record")
    /\ submitted' = submitted \cup {TxOf(r)}
    /\ UNCHANGED <<quoteVars, ledgerVars, handlerVars, height, offered, signed,
                   nonceLock, reply>>

\* The node refuses the transaction, or its answer is lost on the way back.
BroadcastFails(r) ==
    /\ "broadcast" \in Faults
    /\ At(r, "broadcast", "ambiguous")
    /\ submitted' \in {submitted, submitted \cup {TxOf(r)}}
    /\ UNCHANGED <<quoteVars, ledgerVars, handlerVars, height, offered, signed,
                   nonceLock, reply>>

\* An update that cannot be written lands in the same catch block as a
\* failed broadcast.
RecordBroadcast(r) ==
    /\ \E written \in WriteOutcomes :
          /\ At(r, "record", IF written THEN "complete" ELSE "ambiguous")
          /\ SetStatus(TxOf(r), "BROADCAST", written)
          /\ nonceLock' = IF written THEN Nobody ELSE nonceLock
    /\ UNCHANGED <<quoteVars, cursor, handlerVars, worldVars, reply>>

RecordAmbiguous(r) ==
    /\ At(r, "ambiguous", "failed")
    /\ \E written \in WriteOutcomes : SetStatus(TxOf(r), "AMBIGUOUS", written)
    /\ nonceLock' = Nobody
    /\ UNCHANGED <<quoteVars, cursor, handlerVars, worldVars, reply>>

-----------------------------------------------------------------------------
(* The catch block and the completion of the quote. *)

\* The catch block forgets that the bytes were cleared for broadcast, or treats
\* every signature as final.
MayReleaseAlways(r) == BudgetControlled => ~prepared[r]

MayReleaseUnsigned(r) == ~passed[r] /\ ~prepared[r]

\* The quote may be tried again only when the signed bytes were never cleared
\* for broadcast, and under a budget only when nothing was signed at all.
MayRelease(r) == ~passed[r] /\ (BudgetControlled => ~prepared[r])

ReleaseQuote(r) ==
    LET q == QuoteOfRequest(r)
    IN  /\ At(r, "failed", "releasing")
        /\ MayRelease(r)
        /\ Holds(q, BytesOfRequest(r))
        /\ BeginWrite(r, q, Released(records[q]))
        /\ UNCHANGED <<ledgerVars, handlerVars, worldVars, nonceLock, reply>>

KeepQuote(r) ==
    /\ At(r, "failed", "done")
    /\ ~MayRelease(r) \/ ~Holds(QuoteOfRequest(r), BytesOfRequest(r))
    /\ UNCHANGED <<quoteVars, ledgerVars, handlerVars, worldVars, nonceLock, reply>>

PersistRelease(r) ==
    /\ At(r, "releasing", "done")
    /\ \E written \in WriteOutcomes : EndWrite(r, written)
    /\ UNCHANGED <<ledgerVars, handlerVars, worldVars, nonceLock, reply>>

\* complete() throws "Quote reservation was lost before completion." when the
\* handler no longer holds the quote.
CompleteQuote(r) ==
    LET q == QuoteOfRequest(r)
    IN  /\ quoteWriter = Nobody
        /\ pc[r] = "complete"
        /\ IF Holds(q, BytesOfRequest(r))
           THEN /\ At(r, "complete", "completing")
                /\ BeginWrite(r, q, Completed(records[q], TxOf(r)))
           ELSE /\ At(r, "complete", "done")
                /\ UNCHANGED quoteVars
        /\ UNCHANGED <<ledgerVars, handlerVars, worldVars, nonceLock, reply>>

\* After the write the registry is told; if either throws, the client gets
\* an error although the transaction was broadcast.
PersistCompletion(r) ==
    /\ At(r, "completing", "done")
    /\ \E written \in WriteOutcomes, recorded \in BOOLEAN :
          /\ EndWrite(r, written)
          /\ reply' = IF written /\ recorded THEN [reply EXCEPT ![r] = TxOf(r)] ELSE reply
    /\ UNCHANGED <<ledgerVars, handlerVars, worldVars, nonceLock>>

-----------------------------------------------------------------------------
HandlerStep(r) ==
    \/ CheckQuote(r) \/ ObserveTip(r) \/ RefuseEarly(r)
    \/ ReserveQuote(r) \/ RefuseReservation(r) \/ ReplayResult(r)
    \/ PersistReservation(r) \/ BudgetAdmits(r) \/ BudgetRefuses(r)
    \/ TakeNonceLock(r) \/ SignAtCurrentNonce(r) \/ RefuseToSign(r)
    \/ Simulate(r) \/ FailCheck(r) \/ ReserveNonce(r)
    \/ BroadcastAccepted(r) \/ BroadcastFails(r)
    \/ RecordBroadcast(r) \/ RecordAmbiguous(r)
    \/ ReleaseQuote(r) \/ KeepQuote(r) \/ PersistRelease(r)
    \/ CompleteQuote(r) \/ PersistCompletion(r)

Next ==
    \/ Tick
    \/ Crash
    \/ \E q \in Quotes : IssueQuote(q)
    \/ \E r \in Requests : Submit(r) \/ Close(r) \/ HandlerStep(r)

Spec == Init /\ [][Next]_vars

\* The event loop resumes every handler, both queues are first-in first-out,
\* and every remote call ends (the HTTP client's own timeouts, the simulation
\* timeout), so a handler that can step again and again does step.  One that
\* waits for a lock nobody gives back cannot.
Fairness == \A r \in Requests : SF_vars(HandlerStep(r))

FairSpec == Spec /\ Fairness

-----------------------------------------------------------------------------
(* Safety. *)

\* No quote and no origin-signed transaction is ever handed to the network
\* under two sponsor signatures: not by racing duplicates, not by a retry
\* after an ambiguous broadcast, not after a restart.
OneSponsorshipPerQuote ==
    \A t, u \in submitted : t.quote = u.quote \/ t.bytes = u.bytes => t = u

\* Two transactions the relay hands to the network never share a sponsor
\* nonce, whatever account nonce the API answers with and although a restart
\* forgets the cursor.
UniqueSponsorNonce ==
    \A t, u \in submitted : t.nonce = u.nonce => t = u

\* A process that died after a broadcast finds it again: the files hold the
\* nonce reservation and a quote that is bound to exactly those bytes and is
\* not open for another attempt.
RecoverableBroadcasts ==
    \A t \in submitted :
        /\ \E x \in ledgerDisk : x.tx = t
        /\ quoteDisk[t.quote].state \in {"PROCESSING", "BROADCAST"}
        /\ quoteDisk[t.quote].hash = t.bytes

\* complete() never throws "Quote reservation was lost before completion.":
\* nobody takes a quote away from the handler that broadcast for it.
ReservationHeldToCompletion ==
    \A r \in Requests :
        pc[r] = "complete" => Holds(QuoteOfRequest(r), BytesOfRequest(r))

\* Under a beta budget a quote is signed at most once, even when the check
\* before the broadcast fails.
OneSignaturePerQuote ==
    \A t, u \in signed : t.quote = u.quote => t = u

-----------------------------------------------------------------------------
(* Steps. *)

\* A result that reached the disk is never changed or forgotten, by a retry,
\* a release, a later write of the whole map, or a restart.
StoredResultIsFinal ==
    [][\A q \in Quotes :
          quoteDisk[q].state = "BROADCAST" => quoteDisk'[q] = quoteDisk[q]]_vars

\* The relay implements the abstract sponsorship service.
Abstract == INSTANCE Sponsorship WITH sponsored <- submitted

ImplementsSponsorship == Abstract!Spec

-----------------------------------------------------------------------------
(* Liveness. *)

\* Every submitted request is answered, with disks and broadcasts failing:
\* no path leaves the nonce lock or the store's queue held.
EveryRequestAnswered ==
    \A r \in Requests : pc[r] \notin {"idle", "done"} ~> pc[r] \in {"idle", "done"}

\* A reservation that reached the disk does not wedge its quote: the quote is
\* completed, can be tried again, or has a nonce reservation that the
\* nonce-reconcile command lists.  Restarts aside, and without a budget.
NoQuoteWedged ==
    \A r \in Requests, q \in Quotes :
        pc[r] = "queued" /\ QuoteOfRequest(r) = q
            ~> \/ records[q].state # "PROCESSING"
               \/ \E x \in reservations :
                     x.tx.quote = q /\ x.status \in {"SIMULATED", "AMBIGUOUS"}

=============================================================================

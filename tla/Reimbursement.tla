--------------------------- MODULE Reimbursement ---------------------------
(***************************************************************************)
(* SbtcReimbursementService over its JSON store.  The relay creates one    *)
(* record per broadcast sponsorship; a poll timer and GET handlers call    *)
(* reconcile(), which runs one at a time (serialized) and moves the record *)
(* from BROADCAST to CONFIRMED, pays the operator, and watches the         *)
(* payment.  The store is read from its file every time, and put() holds a *)
(* queue of its own over read-modify-write, so a put is one step that      *)
(* succeeds or throws.                                                     *)
(***************************************************************************)
EXTENDS TransactionState, ReimbursementPricing, Sequences

CONSTANTS
    Sponsorships,
    Callers,        \* polls, which may overlap, and GET handlers
    Nobody,         \* no caller is inside serialized()
    NoJob,          \* the caller is not reconciling a record
    Faults,         \* which of "crash", "disk", "api", "payment" can happen
    Fees,           \* bound: the network fees that are paid
    OperatorPayment,\* operatorPaymentSats, a fixed amount, or 0
    MaxPayments     \* bound: reimbursement transactions per sponsorship

ASSUME ReimbursementAssumption ==
    /\ Nobody \notin Callers
    /\ NoJob \notin Sponsorships
    /\ Faults \subseteq {"crash", "disk", "api", "payment"}
    /\ Fees \subseteq Nat /\ OperatorPayment \in Nat
    /\ MaxPayments \in Nat \ {0}

VARIABLES
    store,      \* the JSON file, by sponsorship
    chain,      \* what the chain says of each sponsored transaction
    payments,   \* payments[s]: the chain's view of every payment made for s
    late,       \* sponsorships whose confirmation deadline has passed
    unnamed,    \* those once left with a payment their record does not name
    inside,     \* the caller inside serialized(), or Nobody
    pc,         \* the await each caller is suspended at
    todo,       \* the records of its listing a caller has yet to reconcile
    job,        \* the sponsorship it is reconciling
    target      \* the status its next put will write

callerVars == <<inside, pc, todo, job, target>>
worldVars == <<chain, late, unnamed>>
vars == <<store, chain, payments, late, unnamed, inside, pc, todo, job, target>>

ChainStates == {"pending", "success", "failed"}

\* "NONE" stands for an absent record; a payment is named by its index, and 0
\* for a record that names none.
Record == [status : TransactionStates \cup {"NONE"}, payment : 0 .. MaxPayments,
           fee : Fees \cup {0}, amount : Nat]

NoRecord == [status |-> "NONE", payment |-> 0, fee |-> 0, amount |-> 0]

\* What create() promises the operator for the fee it paid.
Amount(fee) == IF OperatorPayment > 0 THEN OperatorPayment ELSE Priced(fee)

PCs == {"idle", "next", "waiting", "sponsored", "pay", "save", "put", "payment"}

TypeOK ==
    /\ store \in [Sponsorships -> Record]
    /\ \A s \in Sponsorships :
          store[s] = NoRecord \/ (/\ store[s].status # "NONE" /\ Payable(store[s].fee)
                                 /\ store[s].amount = Amount(store[s].fee))
    /\ chain \in [Sponsorships -> ChainStates]
    /\ payments \in [Sponsorships -> Seq(ChainStates)]
    /\ \A s \in Sponsorships : Len(payments[s]) <= MaxPayments
    /\ {late, unnamed} \subseteq SUBSET Sponsorships
    /\ inside \in Callers \cup {Nobody}
    /\ pc \in [Callers -> PCs]
    /\ todo \in [Callers -> SUBSET Sponsorships]
    /\ job \in [Callers -> Sponsorships \cup {NoJob}]
    /\ \A c \in Callers : job[c] = NoJob <=> pc[c] \in {"idle", "next"}
    /\ target \in [Callers -> TransactionStates]

Init ==
    /\ store = [s \in Sponsorships |-> NoRecord]
    /\ chain = [s \in Sponsorships |-> "pending"]
    /\ payments = [s \in Sponsorships |-> <<>>]
    /\ late = {} /\ unnamed = {}
    /\ inside = Nobody
    /\ pc = [c \in Callers |-> "idle"]
    /\ todo = [c \in Callers |-> {}]
    /\ job = [c \in Callers |-> NoJob]
    /\ target = [c \in Callers |-> "BROADCAST"]

WriteOutcomes == {TRUE} \cup (IF "disk" \in Faults THEN {FALSE} ELSE {})

Active(s) == store[s].status \notin TerminalStates \cup {"NONE"}

-----------------------------------------------------------------------------
(* The world. *)

\* The sponsored transaction, or a payment, is mined or dropped.
SettleSponsored(s) ==
    /\ chain[s] = "pending"
    /\ chain' \in {[chain EXCEPT ![s] = x] : x \in {"success", "failed"}}
    /\ UNCHANGED <<store, payments, late, unnamed, callerVars>>

SettlePayment(s, i) ==
    /\ i \in DOMAIN payments[s] /\ payments[s][i] = "pending"
    /\ payments' \in {[payments EXCEPT ![s][i] = x] : x \in {"success", "failed"}}
    /\ UNCHANGED <<store, worldVars, callerVars>>

\* confirmationTimeoutMs after created_at.
PassDeadline(s) ==
    /\ store[s].status = "BROADCAST" /\ s \notin late
    /\ late' = late \cup {s}
    /\ UNCHANGED <<store, chain, payments, unnamed, callerVars>>

\* create(), called once, by the handler that completed the quote.  It may
\* never happen: the handler can die, its put can throw, and so does a fee the
\* policy cannot pay, however much the operator is paid instead.
Create(s) ==
    /\ store[s].status = "NONE"
    /\ \E fee \in Fees :
          /\ Payable(fee)
          /\ store' = [store EXCEPT ![s] = [status |-> "BROADCAST", payment |-> 0,
                                           fee |-> fee, amount |-> Amount(fee)]]
    /\ UNCHANGED <<payments, worldVars, callerVars>>

\* What a restart or a failed put leaves behind.
LeaveUnnamed(S) ==
    unnamed' = unnamed \cup {s \in S : payments[s] # <<>> /\ store[s].payment = 0}

\* A restart loses every caller; the store has no memory of its own.
Crash ==
    /\ "crash" \in Faults
    /\ inside' = Nobody
    /\ pc' = [c \in Callers |-> "idle"]
    /\ todo' = [c \in Callers |-> {}]
    /\ job' = [c \in Callers |-> NoJob]
    /\ target' = [c \in Callers |-> "BROADCAST"]
    /\ LeaveUnnamed(Sponsorships)
    /\ UNCHANGED <<store, payments, chain, late>>

-----------------------------------------------------------------------------
(* Who calls reconcile(). *)

\* reconcilePending() lists the records that are not terminal; setInterval
\* does not wait for the previous poll.
Poll(c) ==
    LET active == {s \in Sponsorships : Active(s)}
    IN  /\ pc[c] = "idle" /\ active # {}
        /\ pc' = [pc EXCEPT ![c] = "next"]
        /\ todo' = [todo EXCEPT ![c] = active]
        /\ UNCHANGED <<store, payments, worldVars, inside, job, target>>

\* GET /v1/reimbursements/:id
Ask(c, s) ==
    /\ pc[c] = "idle"
    /\ pc' = [pc EXCEPT ![c] = "next"]
    /\ todo' = [todo EXCEPT ![c] = {s}]
    /\ UNCHANGED <<store, payments, worldVars, inside, job, target>>

\* The next record of the listing, or the end of it.
TakeNext(c) ==
    /\ pc[c] = "next"
    /\ \/ \E s \in todo[c] :
             /\ pc' = [pc EXCEPT ![c] = "waiting"]
             /\ todo' = [todo EXCEPT ![c] = @ \ {s}]
             /\ job' = [job EXCEPT ![c] = s]
       \/ /\ todo[c] = {}
          /\ pc' = [pc EXCEPT ![c] = "idle"]
          /\ UNCHANGED <<todo, job>>
    /\ UNCHANGED <<store, payments, worldVars, inside, target>>

-----------------------------------------------------------------------------
(* reconcile(). *)

GoTo(c, to) ==
    /\ pc' = [pc EXCEPT ![c] = to]
    /\ UNCHANGED <<todo, job>>

\* serialized() lets the next caller in when the operation returns or throws.
Return(c) ==
    /\ pc' = [pc EXCEPT ![c] = "next"]
    /\ job' = [job EXCEPT ![c] = NoJob]
    /\ inside' = Nobody
    /\ UNCHANGED <<todo, target>>

\* An operation that throws ends the whole poll.
Throw(c) ==
    /\ pc' = [pc EXCEPT ![c] = "idle"]
    /\ todo' = [todo EXCEPT ![c] = {}]
    /\ job' = [job EXCEPT ![c] = NoJob]
    /\ inside' = Nobody
    /\ UNCHANGED target

WriteNext(c, status) ==
    /\ GoTo(c, "put")
    /\ target' = [target EXCEPT ![c] = status]
    /\ UNCHANGED inside

\* reconcile() without serialized().
ReadUnserialized(c) ==
    LET status == store[job[c]].status
        Enter(to) == GoTo(c, to) /\ inside' = c /\ UNCHANGED target
    IN  /\ pc[c] = "waiting"
        /\ \/ status = "BROADCAST" /\ Enter("sponsored")
           \/ status = "CONFIRMED" /\ Enter("pay")
           \/ status = "PAYMENTS_BROADCAST" /\ Enter("payment")
           \/ ~Active(job[c]) /\ Return(c)
        /\ UNCHANGED <<store, payments, worldVars>>

\* What to do with a record depends on the status found inside the queue, and
\* never on the listing the caller started from.
Read(c) ==
    LET status == store[job[c]].status
        Enter(to) == GoTo(c, to) /\ inside' = c /\ UNCHANGED target
    IN  /\ pc[c] = "waiting" /\ inside = Nobody
        /\ \/ status = "BROADCAST" /\ Enter("sponsored")
           \/ status = "CONFIRMED" /\ Enter("pay")
           \/ status = "PAYMENTS_BROADCAST" /\ Enter("payment")
           \/ ~Active(job[c]) /\ Return(c)
        /\ UNCHANGED <<store, payments, worldVars>>

\* transactionStatus() throws, and so does the operation.
StatusUnavailable(c) ==
    /\ "api" \in Faults
    /\ pc[c] \in {"sponsored", "payment"}
    /\ Throw(c)
    /\ UNCHANGED <<store, payments, worldVars>>

\* Any mined transaction counts as a confirmation, or the deadline is lost.
SponsoredStatusAnyOutcome(c) ==
    LET s == job[c]
    IN  /\ pc[c] = "sponsored"
        /\ \/ chain[s] # "pending" /\ WriteNext(c, "CONFIRMED")
           \/ chain[s] = "pending" /\ s \in late /\ WriteNext(c, "CONFIRMATION_TIMEOUT")
           \/ chain[s] = "pending" /\ s \notin late /\ Return(c)
        /\ UNCHANGED <<store, payments, worldVars>>

SponsoredStatusUntimed(c) ==
    LET s == job[c]
    IN  /\ pc[c] = "sponsored"
        /\ \/ chain[s] = "success" /\ WriteNext(c, "CONFIRMED")
           \/ chain[s] = "failed" /\ WriteNext(c, "REJECTED")
           \/ chain[s] = "pending" /\ Return(c)
        /\ UNCHANGED <<store, payments, worldVars>>

\* The deadline is looked at only while the transaction is unsettled.
SponsoredStatus(c) ==
    LET s == job[c]
    IN  /\ pc[c] = "sponsored"
        /\ \/ chain[s] = "success" /\ WriteNext(c, "CONFIRMED")
           \/ chain[s] = "failed" /\ WriteNext(c, "REJECTED")
           \/ chain[s] = "pending" /\ s \in late /\ WriteNext(c, "CONFIRMATION_TIMEOUT")
           \/ chain[s] = "pending" /\ s \notin late /\ Return(c)
        /\ UNCHANGED <<store, payments, worldVars>>

\* transition(): the change is asserted to be legal, then put.  A failed put
\* throws out of ensurePayments too, whose catch does not cover a promise it
\* returns without awaiting it.
PutStatus(c) ==
    LET s == job[c]
    IN  /\ pc[c] = "put"
        /\ \E written \in WriteOutcomes :
              IF written /\ CanTransition(store[s].status, target[c])
              THEN /\ store' = [store EXCEPT ![s].status = target[c]]
                   /\ IF target[c] = "CONFIRMED"
                      THEN GoTo(c, "pay") /\ UNCHANGED <<inside, target>>
                      ELSE Return(c)
                   /\ UNCHANGED unnamed
              ELSE Throw(c) /\ UNCHANGED store /\ LeaveUnnamed({s})
        /\ UNCHANGED <<payments, chain, late>>

\* ensurePayments: a payment already named in the record is not made again.
SkipPayment(c) ==
    /\ pc[c] = "pay" /\ store[job[c]].payment # 0
    /\ WriteNext(c, "PAYMENTS_BROADCAST")
    /\ UNCHANGED <<store, payments, worldVars>>

\* The transfer is sent again when its answer is slow.
TransferResending(s) ==
    /\ Len(payments[s]) < MaxPayments
    /\ \E n \in {1, 2} :
          payments' = [payments EXCEPT ![s] = @ \o [i \in 1 .. n |-> "pending"]]

Transfer(s) ==
    /\ Len(payments[s]) < MaxPayments
    /\ payments' = [payments EXCEPT ![s] = Append(@, "pending")]

Pay(c) ==
    /\ pc[c] = "pay" /\ store[job[c]].payment = 0
    /\ Transfer(job[c])
    /\ GoTo(c, "save")
    /\ UNCHANGED <<store, worldVars, inside, target>>

\* A payment that throws is left for the next poll to try again.
PayThrowsRetrying(c) ==
    /\ "payment" \in Faults
    /\ pc[c] = "pay" /\ store[job[c]].payment = 0
    /\ UNCHANGED payments \/ Transfer(job[c])
    /\ Throw(c)
    /\ UNCHANGED <<store, worldVars>>

\* The payment is refused, or was accepted and the answer is lost.
PayThrows(c) ==
    /\ "payment" \in Faults
    /\ pc[c] = "pay" /\ store[job[c]].payment = 0
    /\ UNCHANGED payments \/ Transfer(job[c])
    /\ WriteNext(c, "REIMBURSEMENT_FAILED")
    /\ UNCHANGED <<store, worldVars>>

\* The payment just made is named in the record before the status moves on.
SavePayment(c) ==
    LET s == job[c]
    IN  /\ pc[c] = "save"
        /\ \E written \in WriteOutcomes :
              /\ store' = IF written THEN [store EXCEPT ![s].payment = Len(payments[s])]
                          ELSE store
              /\ WriteNext(c, IF written THEN "PAYMENTS_BROADCAST" ELSE "REIMBURSEMENT_FAILED")
        /\ UNCHANGED <<payments, worldVars>>

PaymentStatus(c) ==
    LET s == job[c]
        named == store[s].payment
        Is(x) == named # 0 /\ payments[s][named] = x
    IN  /\ pc[c] = "payment"
        /\ \/ (named = 0 \/ Is("failed")) /\ WriteNext(c, "REIMBURSEMENT_FAILED")
           \/ Is("success") /\ WriteNext(c, "REIMBURSED")
           \/ Is("pending") /\ Return(c)
        /\ UNCHANGED <<store, payments, worldVars>>

-----------------------------------------------------------------------------
CallerStep(c) ==
    \/ TakeNext(c) \/ Read(c) \/ StatusUnavailable(c) \/ SponsoredStatus(c)
    \/ PutStatus(c) \/ SkipPayment(c) \/ Pay(c) \/ PayThrows(c) \/ SavePayment(c)
    \/ PaymentStatus(c)

Next ==
    \/ \E s \in Sponsorships : SettleSponsored(s) \/ PassDeadline(s) \/ Create(s)
    \/ \E s \in Sponsorships, i \in 1 .. MaxPayments : SettlePayment(s, i)
    \/ Crash
    \/ \E c \in Callers : Poll(c) \/ CallerStep(c)
    \/ \E c \in Callers, s \in Sponsorships : Ask(c, s)

Spec == Init /\ [][Next]_vars

\* The poll timer keeps firing (it does not wait for GET handlers to end, so it
\* is strongly fair although both take a caller), the queue is first-in
\* first-out, remote calls end, time passes, and neither the status API nor the
\* disk fails for ever.
Fairness ==
    /\ \A c \in Callers :
          /\ SF_vars(Poll(c)) /\ SF_vars(CallerStep(c))
          /\ SF_vars(SponsoredStatus(c)) /\ SF_vars(PutStatus(c) /\ store' # store)
    /\ \A s \in Sponsorships : WF_vars(PassDeadline(s))

FairSpec == Spec /\ Fairness

-----------------------------------------------------------------------------
(* Safety. *)

\* The worker pays for nothing but a sponsorship the chain executed, a record
\* that moved on to PAYMENTS_BROADCAST names its payment ("Operator payment
\* transaction ID is missing." is unreachable), and REIMBURSED is only said of
\* a payment the chain executed.
PaymentsMatchRecords ==
    \A s \in Sponsorships :
        LET record == store[s]
        IN  /\ payments[s] # <<>> => chain[s] = "success"
            /\ record.status \in {"PAYMENTS_BROADCAST", "REIMBURSED"} => record.payment # 0
            /\ record.status = "REIMBURSED" => payments[s][record.payment] = "success"

\* Overlapping polls and GET handlers, refused payments, payments whose answer
\* is lost and a payment that could not be named never pay the operator twice
\* for one sponsorship; only a restart, or a second failed put, may.
PaidAtMostOnce == \A s \in Sponsorships \ unnamed : Len(payments[s]) <= 1

-----------------------------------------------------------------------------
(* Refinement. *)

Status(s) == IF store[s].status = "NONE" THEN "SPONSORED" ELSE store[s].status

Lifecycle ==
    INSTANCE SponsorshipLifecycle WITH
        status <- [s \in Sponsorships |-> Status(s)],
        payment <- [s \in Sponsorships |-> store[s].payment]

\* Each record obeys the public lifecycle: legal changes of status only, and a
\* payment that is named once and never renamed, whatever callers overlap,
\* writes fail or restarts happen.
ImplementsLifecycle == Lifecycle!Spec

-----------------------------------------------------------------------------
(* Liveness. *)

\* Once restarts end, a record does not wait for ever on its sponsored
\* transaction: it is confirmed and paid, rejected, or timed out, although polls
\* overlap, share the queue with GET handlers, and end where one throws.
RecordsMoveOn ==
    <>[][~Crash]_vars =>
        \A s \in Sponsorships :
            store[s].status \in {"BROADCAST", "CONFIRMED"}
                ~> store[s].status \in TerminalStates \cup {"PAYMENTS_BROADCAST"}

=============================================================================

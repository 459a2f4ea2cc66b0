----------------------------- MODULE BetaBudget -----------------------------
(***************************************************************************)
(* The beta budget ledger under the sponsorship handlers that spend from   *)
(* it, and the GET handlers that reconcile it with receipts of the node.   *)
(* Each ledger operation runs alone (exclusive), restores the entries when *)
(* it or its write throws, and is read by nobody in between: one step that *)
(* happens and is durable, or does not happen.  The network fee is         *)
(* estimated anew at each attempt, and a receipt charges the fee that was  *)
(* signed.  A quote is open to an attempt (ISSUED) or not (PROCESSING,     *)
(* BROADCAST), as SponsorRelay shows.                                      *)
(***************************************************************************)
EXTENDS Naturals, FiniteSetsExt

CONSTANTS
    Quotes,
    Origins, OriginOf,  \* OriginOf[q]: the wallet quote q was issued to
    Outflow,            \* Outflow[q]: amount and sponsor fee, in sats
    Fees,               \* network fees the estimate can come to, in microSTX
    WalletDailyLimit, DailyLimit, DailyFeeLimit, LossCap,
    Handlers,           \* POST handlers
    Readers,            \* GET handlers
    None,
    MaxDay,             \* bound: last day explored
    Faults              \* which of "crash", "disk", "broadcast", "receipt" can happen

ASSUME BudgetAssumption ==
    /\ OriginOf \in [Quotes -> Origins]
    /\ Outflow \in [Quotes -> Nat \ {0}] /\ Fees \subseteq Nat \ {0}
    /\ {WalletDailyLimit, DailyLimit, DailyFeeLimit, LossCap} \subseteq Nat \ {0}
    /\ None \notin Quotes /\ MaxDay \in Nat \ {0}
    /\ Faults \subseteq {"crash", "disk", "broadcast", "receipt"}

VARIABLES
    entries,        \* the ledger
    day,            \* the current day
    open,           \* quotes that are ISSUED
    signed,         \* signed[q]: the fees the sponsor key signed away for quote q
    sent,           \* quotes whose transaction reached the network
    pc, job, now,   \* await, quote and timestamp of each POST handler
    fee,            \* fee[h]: the fee handler h has estimated
    seen            \* seen[g]: the receipt GET handler g has read, or None

handlerVars == <<pc, job, now, fee>>
worldVars == <<day, open, signed, sent>>
vars == <<entries, day, open, signed, sent, handlerVars, seen>>

Outcomes == {"success", "abort"}
\* "none" stands for a transaction that is not found or has no outcome yet, and
\* "rejected" for a receipt that reconcile() has thrown on.
Receipts == {"none", "invalid", "rejected"} \cup Outcomes

\* Day 0 stands for an absent entry; fee is reservedMicroStx and actual is
\* actualMicroStx, which is there when the outcome is.
Entry == [day : 0 .. MaxDay, fee : Fees \cup {0}, txid : BOOLEAN,
          failure : {"none", "other", "accounting"},
          outcome : {"none"} \cup Outcomes, actual : Nat]

Absent == [day |-> 0, fee |-> 0, txid |-> FALSE, failure |-> "none", outcome |-> "none",
           actual |-> 0]

PCs == {"idle", "reserve", "sign", "attach", "check", "sending", "release", "fail"}

TypeOK ==
    /\ entries \in [Quotes -> Entry]
    /\ \A q \in Quotes : entries[q].day = 0 => entries[q] = Absent
    /\ day \in 1 .. MaxDay
    /\ open \subseteq Quotes
    /\ signed \in [Quotes -> Nat]
    /\ sent \subseteq Quotes
    /\ pc \in [Handlers -> PCs]
    /\ job \in [Handlers -> Quotes \cup {None}]
    /\ \A h \in Handlers : job[h] = None <=> pc[h] = "idle"
    /\ now \in [Handlers -> 0 .. MaxDay]
    /\ fee \in [Handlers -> Fees \cup {0}]
    /\ seen \in [Readers -> [quote : Quotes, receipt : Receipts] \cup {None}]

Init ==
    /\ entries = [q \in Quotes |-> Absent]
    /\ day = 1
    /\ open = Quotes
    /\ signed = [q \in Quotes |-> 0] /\ sent = {}
    /\ pc = [h \in Handlers |-> "idle"]
    /\ job = [h \in Handlers |-> None]
    /\ now = [h \in Handlers |-> 0]
    /\ fee = [h \in Handlers |-> 0]
    /\ seen = [g \in Readers |-> None]

-----------------------------------------------------------------------------
(* The ledger. *)

WriteOutcomes == {TRUE} \cup (IF "disk" \in Faults THEN {FALSE} ELSE {})

Held == {q \in Quotes : entries[q].day # 0}

On(d) == {q \in Held : entries[q].day = d}

Sum(of, S) == MapThenSumSet(LAMBDA q : of[q], S)

\* Only a reimbursed success whose receipt was not contradicted stops counting.
Covered(entry) == entry.outcome = "success" /\ entry.failure # "accounting"

Uncovered == {q \in Held : ~Covered(entries[q])}

Larger(a, b) == IF a >= b THEN a ELSE b

\* What each entry counts for: what it was charged, or what is reserved for it.
Cost == [q \in Quotes |->
            CASE entries[q].failure = "accounting" -> Larger(entries[q].actual, entries[q].fee)
              [] entries[q].failure # "accounting" /\ entries[q].outcome # "none" ->
                    entries[q].actual
              [] OTHER -> entries[q].fee]

\* Yesterday's entries are counted, today's are not.
AdmitsOnAnotherDay(q, f, d) ==
    /\ Sum(Outflow, {u \in On(d - 1) : OriginOf[u] = OriginOf[q]}) + Outflow[q] <= WalletDailyLimit
    /\ Sum(Outflow, On(d - 1)) + Outflow[q] <= DailyLimit
    /\ Sum(Cost, On(d - 1)) + f <= DailyFeeLimit
    /\ Sum(Cost, Uncovered) + f <= LossCap

\* The quotas a new reservation of a fee f must fit in.
Admits(q, f, d) ==
    /\ Sum(Outflow, {u \in On(d) : OriginOf[u] = OriginOf[q]}) + Outflow[q] <= WalletDailyLimit
    /\ Sum(Outflow, On(d)) + Outflow[q] <= DailyLimit
    /\ Sum(Cost, On(d)) + f <= DailyFeeLimit
    /\ Sum(Cost, Uncovered) + f <= LossCap

\* exclusive(): the change is durable, or it is undone.
Save(q, entry, written) ==
    entries' = IF written THEN [entries EXCEPT ![q] = entry] ELSE entries

-----------------------------------------------------------------------------
(* POST handlers. *)

\* The timestamp and the fee are dropped where the handler reads them no more.
At(h, from, to) ==
    /\ pc[h] = from /\ pc' = [pc EXCEPT ![h] = to]
    /\ now' = [now EXCEPT ![h] = 0]
    /\ fee' = [fee EXCEPT ![h] = IF to = "sign" THEN @ ELSE 0]
    /\ UNCHANGED job

Finish(h) ==
    /\ pc' = [pc EXCEPT ![h] = "idle"]
    /\ job' = [job EXCEPT ![h] = None]
    /\ now' = [now EXCEPT ![h] = 0]
    /\ fee' = [fee EXCEPT ![h] = 0]

\* The fee is estimated, the quote is reserved, and betaBudget.reserve() is
\* called: its timestamp is taken before it waits for the queue.
Begin(h, q) ==
    /\ pc[h] = "idle" /\ q \in open
    /\ open' = open \ {q}
    /\ pc' = [pc EXCEPT ![h] = "reserve"]
    /\ job' = [job EXCEPT ![h] = q]
    /\ now' = [now EXCEPT ![h] = day]
    /\ \E estimate \in Fees : fee' = [fee EXCEPT ![h] = estimate]
    /\ UNCHANGED <<entries, day, signed, sent, seen>>

\* The fee of the reservation is not compared.
ServesAnyFee(entry, f) == ~(entry.txid /\ entry.outcome = "none")

\* An existing reservation serves another attempt at the same fee, unless its
\* transaction may be on its way.
Serves(entry, f) == entry.fee = f /\ ~(entry.txid /\ entry.outcome = "none")

Reserve(h) ==
    LET q == job[h]
        Fits == IF q \in Held THEN Serves(entries[q], fee[h]) ELSE Admits(q, fee[h], now[h])
    IN  /\ \E written \in WriteOutcomes :
              /\ At(h, "reserve", IF Fits /\ (q \in Held \/ written) THEN "sign" ELSE "release")
              /\ IF Fits /\ q \notin Held
                 THEN Save(q, [Absent EXCEPT !.day = now[h], !.fee = fee[h]], written)
                 ELSE UNCHANGED entries
        /\ UNCHANGED <<worldVars, seen>>

\* Balance or nonce request fail before the signature.
RefuseToSign(h) ==
    /\ At(h, "sign", "release")
    /\ UNCHANGED <<entries, worldVars, seen>>

Sign(h) ==
    /\ At(h, "sign", "attach")
    /\ signed' = [signed EXCEPT ![job[h]] = @ + fee[h]]
    /\ UNCHANGED <<entries, day, open, sent, seen>>

\* attachTransaction() on the signed bytes, before anything leaves the relay.
Attach(h) ==
    LET q == job[h]
    IN  /\ \E written \in WriteOutcomes :
              /\ At(h, "attach", IF written THEN "check" ELSE "fail")
              /\ Save(q, [entries[q] EXCEPT !.txid = TRUE], written)
        /\ UNCHANGED <<worldVars, seen>>

\* Simulation, settlement or the nonce reservation fail: the quote is kept,
\* because a signature was prepared.
FailCheck(h) ==
    /\ At(h, "check", "fail")
    /\ UNCHANGED <<entries, worldVars, seen>>

\* The transaction reaches the node, which has yet to answer.
Send(h) ==
    /\ At(h, "check", "sending")
    /\ sent' = sent \cup {job[h]}
    /\ UNCHANGED <<entries, day, open, signed, seen>>

\* The answer is lost, or the outcome cannot be recorded.
AnswerLost(h) ==
    /\ "broadcast" \in Faults
    /\ At(h, "sending", "fail")
    /\ UNCHANGED <<entries, worldVars, seen>>

\* complete() stores the result, or throws outside of the try block: the ledger
\* hears nothing, and the quote is not open in either case.
Complete(h) ==
    /\ pc[h] = "sending" /\ Finish(h)
    /\ UNCHANGED <<entries, worldVars, seen>>

\* The catch block: the quote can be used again before the failure is noted,
\* and a write that throws leaves the block.
Release(h) ==
    /\ pc[h] = "release"
    /\ open' = open \cup {job[h]}
    /\ At(h, "release", "fail") \/ ("disk" \in Faults /\ Finish(h))
    /\ UNCHANGED <<entries, day, signed, sent, seen>>

\* The entry is not looked up first.
NotedBlindly(q, code, written) == Save(q, [entries[q] EXCEPT !.failure = code], written)

\* recordFailure() overwrites whatever code the entry has.
Noted(q, code, written) ==
    IF q \in Held THEN Save(q, [entries[q] EXCEPT !.failure = code], written)
    ELSE UNCHANGED entries

RecordFailure(h) ==
    /\ pc[h] = "fail" /\ Finish(h)
    /\ \E written \in WriteOutcomes : Noted(job[h], "other", written)
    /\ UNCHANGED <<worldVars, seen>>

-----------------------------------------------------------------------------
(* The world. *)

NextDay ==
    /\ day < MaxDay /\ day' = day + 1
    /\ UNCHANGED <<entries, open, signed, sent, handlerVars, seen>>

Crash ==
    /\ "crash" \in Faults
    /\ pc' = [h \in Handlers |-> "idle"]
    /\ job' = [h \in Handlers |-> None]
    /\ now' = [h \in Handlers |-> 0]
    /\ fee' = [h \in Handlers |-> 0]
    /\ seen' = [g \in Readers |-> None]
    /\ UNCHANGED <<entries, worldVars>>

-----------------------------------------------------------------------------
(* GET handlers. *)

\* What the node can say of a transaction.  With a reorganisation it can go
\* back on it.  An answer can be truncated.
Answers(q) ==
    {"none"}
    \cup (IF q \in sent THEN Outcomes ELSE {})
    \cup (IF "receipt" \in Faults THEN {"invalid"} ELSE {})

\* transactionStatus(): the answer can be old when it is used.
ReadReceipt(g, q) ==
    /\ seen[g] = None /\ entries[q].txid
    /\ \E receipt \in Answers(q) : seen' = [seen EXCEPT ![g] = [quote |-> q, receipt |-> receipt]]
    /\ UNCHANGED <<entries, worldVars, handlerVars>>

\* A settled entry is overwritten by a later receipt.
ContradictsNothing(q, receipt) ==
    receipt = "invalid" \/ (receipt = "none" /\ entries[q].outcome # "none")

\* The receipt does not match the reservation, or not what was settled before.
Contradicts(q, receipt) ==
    receipt = "invalid" \/ (entries[q].outcome # "none" /\ receipt # entries[q].outcome)

\* reconcile() throws, which frees the queue.
Contradict(g) ==
    /\ seen[g] # None /\ seen[g].receipt # "rejected"
    /\ Contradicts(seen[g].quote, seen[g].receipt)
    /\ seen' = [seen EXCEPT ![g].receipt = "rejected"]
    /\ UNCHANGED <<entries, worldVars, handlerVars>>

\* Its catch block queues again, to record the code of the error.
RecordContradiction(g) ==
    LET q == seen[g].quote
    IN  /\ seen[g] # None /\ seen[g].receipt = "rejected"
        /\ seen' = [seen EXCEPT ![g] = None]
        /\ \E written \in WriteOutcomes :
              /\ Noted(q, "accounting", written)
        /\ UNCHANGED <<worldVars, handlerVars>>

\* A receipt that matches settles the entry at the fee that was signed, and
\* clears an accounting error.
Settle(g) ==
    LET q == seen[g].quote
        entry == entries[q]
    IN  /\ seen[g] # None /\ seen[g].receipt \in Outcomes /\ ~Contradicts(q, seen[g].receipt)
        /\ seen' = [seen EXCEPT ![g] = None]
        /\ \E written \in WriteOutcomes :
              /\ Save(q, [entry EXCEPT !.outcome = seen[g].receipt, !.actual = signed[q],
                             !.failure = IF @ = "accounting" THEN "none" ELSE @], written)
        /\ UNCHANGED <<worldVars, handlerVars>>

\* Nothing to settle yet.
Ignore(g) ==
    /\ seen[g] # None /\ seen[g].receipt = "none"
    /\ ~Contradicts(seen[g].quote, seen[g].receipt)
    /\ seen' = [seen EXCEPT ![g] = None]
    /\ UNCHANGED <<entries, worldVars, handlerVars>>

-----------------------------------------------------------------------------
HandlerStep(h) ==
    \/ Reserve(h) \/ RefuseToSign(h) \/ Sign(h) \/ Attach(h) \/ FailCheck(h)
    \/ Send(h) \/ AnswerLost(h) \/ Complete(h)
    \/ Release(h) \/ RecordFailure(h)
    \/ \E q \in Quotes : Begin(h, q)

ReaderStep(g) ==
    \/ Contradict(g) \/ RecordContradiction(g) \/ Settle(g) \/ Ignore(g)
    \/ \E q \in Quotes : ReadReceipt(g, q)

Next ==
    \/ NextDay \/ Crash
    \/ \E h \in Handlers : HandlerStep(h)
    \/ \E g \in Readers : ReaderStep(g)

Spec == Init /\ [][Next]_vars

-----------------------------------------------------------------------------
\* Whatever reservations race, fail or are retried, whatever the fee estimate
\* moves to between two attempts and whenever midnight falls, the sponsorships
\* signed on behalf of one day stay within its quotas.
DailyQuotasHold ==
    \A d \in 1 .. MaxDay :
        LET spent == {q \in Quotes : signed[q] # 0 /\ entries[q].day = d}
        IN  /\ \A o \in Origins :
                  Sum(Outflow, {q \in spent : OriginOf[q] = o}) <= WalletDailyLimit
            /\ Sum(Outflow, spent) <= DailyLimit
            /\ Sum(signed, spent) <= DailyFeeLimit

\* The STX the sponsor has signed away for transactions that no receipt shows
\* to be reimbursed never exceeds the loss cap: every signature has a durable
\* reservation of its fee, and no restart, failed write, retry at another fee
\* or late answer frees one.
LossWithinCap ==
    Sum(signed, {q \in Quotes : signed[q] # 0 /\ entries[q].outcome # "success"}) <= LossCap

\* A settled entry keeps its outcome: receipts that are read out of order, that
\* are truncated, or that a reorganisation withdraws do not rewrite it.
SettledIsFinal ==
    [][\A q \in Quotes :
          entries[q].outcome # "none" => entries'[q].outcome = entries[q].outcome]_vars

=============================================================================

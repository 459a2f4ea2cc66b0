--------------------------- MODULE WalletTransfer ---------------------------
(***************************************************************************)
(* The transfer page of the web application: it asks the relay for a quote *)
(* of the transfer in its form, verifies the quote, has the wallet sign,   *)
(* submits, keeps a receipt and polls for the outcome, while the form, the *)
(* relay's prices and the chain move on.  The page is the dashboard, or it *)
(* is embedded in a dialog of the home page, where a submitted transfer    *)
(* hides the form; a flow outlives the page that started it when the dialog*)
(* is closed or the user goes to another page of the application.          *)
(*                                                                         *)
(* A flow is one run of createQuote(); every await of it is a step, and it *)
(* may throw there.  What React does after a change of state, mounting and *)
(* cleaning up effects, is a step of its own (Commit), except after a      *)
(* click, when it is part of the click.  Relay and chain are here what the *)
(* page sees of them; a quote and its transaction are one entry of quotes. *)
(***************************************************************************)
EXTENDS Sequences, FiniteSets, Functions, Pricing, SponsoredCall

CONSTANTS
    Embedded,       \* whether this is the page embedded in the home page
    Flows,          \* the runs of createQuote() at once
    Origin, Recipient, Sponsor,
    Balance,        \* what the origin owns in the beginning
    Amounts,        \* bound: the amounts that are typed in
    Percents,       \* the buttons that fill in a part of the balance
    Floors,         \* the costs the relay's fee may have to cover
    Lifetime,       \* quoteLifetimeBlocks
    MaxHeight,      \* bound: the last block
    MaxQuotes,      \* bound: the quotes issued
    None

ASSUME WalletAssumption ==
    /\ Embedded \in BOOLEAN
    /\ Amounts \subseteq Nat /\ Percents \subseteq 0 .. 100
    /\ Floors \subseteq Nat /\ Floors # {} /\ Flows \subseteq Nat
    /\ {Balance, Lifetime, MaxHeight, MaxQuotes} \subseteq Nat
    /\ Origin \notin {Recipient, Sponsor}
    /\ None \notin (0 .. Balance) \cup (1 .. MaxQuotes)
    /\ None \notin {"pending", "dropped", "success", "POST_CONDITION"} \cup Errors

VARIABLES
    form,           \* the amount in the form
    breakEven,      \* the relay's cost floor as the page knows it
    open,           \* whether the page believes that the relay takes requests
    busy,           \* whether the buttons are disabled
    flows,          \* by flow: its stage, the page it runs on, its intent, quote and
                    \* signed transaction
    sponsorship,    \* the quote whose transaction the page follows
    status,         \* what the page last learnt about it
    receipt, saved, \* the quote of the receipt on the page, and of the one stored
    mounted,        \* what the effects were last run for
    poll,           \* the answer to a status request on its way to the page
    costFloor,      \* the relay's cost floor
    quotes,         \* the quotes issued, each with the state of its transaction and
                    \* what the origin owned when it was mined
    height, ledger  \* the chain

pageVars == <<form, breakEven, open, busy, flows, sponsorship, status, receipt, saved, mounted, poll>>
vars == <<form, breakEven, open, busy, flows, sponsorship, status, receipt,
          saved, mounted, poll, costFloor, quotes, height, ledger>>

-----------------------------------------------------------------------------
Stages == {"idle", "quoting", "verify", "approve", "prompt", "final",
           "submit", "answer"}

\* A flow runs on the page shown, or on one that was left.
Idle == [stage |-> "idle", page |-> "shown", intent |-> None, quote |-> None, signed |-> None]

\* The maximum fee is not typed in: an effect sets it to the estimate.
Intent == [amount |-> form, max |-> EstimatedFee(form, breakEven)]

Ids == 1 .. MaxQuotes

\* How a mined transaction can end: an abort has the adapter's error with it.
Mined == {"success", "POST_CONDITION"} \cup Errors

\* A transaction that the API reports as dropped is given up.
TerminalDropped(s) == s \in Mined \cup {"dropped"}

\* isTerminalChainStatus(): a drop from the mempool may be superseded.
Terminal(s) == s \in Mined

\* likelyFailureCause(): what the page says the origin needed, if it blames its
\* balance for the failure of the transaction shown.
Needed ==
    IF status \in {"FEE_TRANSFER_FAILED", "RECIPIENT_TRANSFER_FAILED"} /\ receipt # None
    THEN quotes[receipt].amount + quotes[receipt].fee ELSE None

\* What the effects depend on: txid, receipt and terminal.
Current == [tx |-> sponsorship, receipt |-> receipt, terminal |-> Terminal(status)]

Nothing == [tx |-> None, receipt |-> None, terminal |-> FALSE]

\* Every variable of the page, the relay and the chain keeps its form; a flow
\* refers to an issued quote from the moment it has one, and what is signed, and
\* what is sent, is what was prepared for that quote.
TypeOK ==
    /\ {open, busy} \subseteq BOOLEAN
    /\ form \in Nat /\ {breakEven, costFloor} \subseteq Floors
    /\ \A f \in Flows :
          LET flow == flows[f] IN
          \/ flow = Idle
          \/ /\ flow.stage \in Stages \ {"idle"} /\ flow.page \in {"shown", "left"}
             /\ flow.intent.amount > 0 /\ flow.intent.max > 0
             /\ IF flow.stage = "quoting" THEN flow.quote = None
                ELSE /\ flow.quote \in DOMAIN quotes
                     /\ quotes[flow.quote].amount = flow.intent.amount
                     /\ quotes[flow.quote].fee <= flow.intent.max
             /\ flow.signed = IF flow.stage \in {"final", "submit", "answer"}
                              THEN Prepare(flow.quote, quotes[flow.quote]) ELSE None
    /\ {sponsorship, receipt, saved, mounted.tx, mounted.receipt} \subseteq DOMAIN quotes \cup {None}
    /\ mounted.terminal \in BOOLEAN
    /\ {status, poll} \subseteq {None, "pending", "dropped"} \cup Mined
    /\ Len(quotes) <= MaxQuotes
    /\ \A q \in DOMAIN quotes :
          /\ quotes[q].tx \in {"none", "pending"} \cup Mined
          /\ quotes[q].expires = quotes[q].issued + Lifetime
          /\ quotes[q].owned = None <=> quotes[q].tx \notin Mined
          /\ quotes[q].sent = IF quotes[q].tx = "none" THEN None ELSE Prepare(q, quotes[q])
    /\ height \in 0 .. MaxHeight
    /\ ledger \in [{Origin, Recipient, Sponsor} -> 0 .. Balance]

Init ==
    /\ form = 0 /\ busy = FALSE /\ flows = [f \in Flows |-> Idle]
    /\ sponsorship = None /\ status = None /\ receipt = None /\ saved = None
    /\ mounted = Nothing /\ poll = None
    /\ costFloor \in Floors /\ breakEven = costFloor /\ open \in BOOLEAN
    /\ quotes = <<>> /\ height = 0
    /\ ledger = [p \in {Origin, Recipient, Sponsor} |-> IF p = Origin THEN Balance ELSE 0]

-----------------------------------------------------------------------------
(* The form *)

\* A mistake that shows the form next to a submitted transfer.
FormShownAlways == TRUE

FormShown == ~(Embedded /\ sponsorship # None)

Edit ==
    /\ FormShown
    /\ form' \in Amounts \cup {AmountByPercent(ledger[Origin], p, breakEven) : p \in Percents}
    /\ UNCHANGED <<breakEven, open, busy, flows, sponsorship, status, receipt, saved,
                   mounted, poll, costFloor, quotes, height, ledger>>

\* isPaused(): the file comes and goes; one that cannot be looked at is an error.
Paused == BOOLEAN

\* GET /v1/info: the cost floor, and whether quotes and sponsorships are enabled.
Info == {[breakEven |-> costFloor, open |-> ~paused] : paused \in Paused}

\* The relay's limits are read again every few seconds; when that fails the page
\* keeps the last pricing and disables approval.
RefreshPricing ==
    /\ \/ \E info \in Info : breakEven' = info.breakEven /\ open' = info.open
       \/ UNCHANGED breakEven /\ open' = FALSE
    /\ UNCHANGED <<form, busy, flows, sponsorship, status, receipt, saved,
                   mounted, poll, costFloor, quotes, height, ledger>>

-----------------------------------------------------------------------------
(* createQuote() and signAndSubmit() *)

At(f, stage) == flows[f].stage = stage

Goto(f, stage) == flows' = [flows EXCEPT ![f].stage = stage]

\* What the page verified is what the relay signed: both encode all the fields of
\* a quote in one message.
Quote(f) == quotes[flows[f].quote]

\* The page that a flow runs on is there to be changed.
OnPage(f) == flows[f].page = "shown"

\* intentRef: the form of the flow's own page says what was asked for; the form of
\* a page that was left stays what it was.
IntentHolds(f) == OnPage(f) => Intent = flows[f].intent

\* The end of run(), also of a run that threw.
Finish(f) == flows' = [flows EXCEPT ![f] = Idle] /\ busy' = (busy /\ ~OnPage(f))

\* A request fails, the relay refuses or is paused, the wallet refuses, or it is connected to
\* another account.
Throw(f) ==
    /\ ~At(f, "idle")
    /\ Finish(f)
    /\ UNCHANGED <<form, breakEven, open, sponsorship, status, receipt, saved,
                   mounted, poll, costFloor, quotes, height, ledger>>

\* The balance on display may be old, so it decides nothing here.
CreateQuote(f) ==
    /\ At(f, "idle") /\ \A g \in Flows : g < f => ~At(g, "idle")
    /\ FormShown /\ open /\ ~busy /\ form > 0
    /\ flows' = [flows EXCEPT ![f] = [Idle EXCEPT !.stage = "quoting", !.intent = Intent]]
    /\ busy' = TRUE
    /\ UNCHANGED <<form, breakEven, open, sponsorship, status, receipt, saved,
                   mounted, poll, costFloor, quotes, height, ledger>>

\* The relay's record of a quote, not submitted yet.
Issued(amount, fee) ==
    [amount |-> amount, fee |-> fee, recipient |-> Recipient,
     issued |-> height, expires |-> height + Lifetime,
     sent |-> None, tx |-> "none", owned |-> None]

\* parseQuoteRequest(): a positive transfer to somebody else.
Asked(intent) == Origin # Recipient /\ intent.amount > 0 /\ intent.max > 0

\* A relay that does not look at the reviewed maximum.
IssueQuoteUnchecked(f) ==
    LET amount == flows[f].intent.amount IN
    /\ At(f, "quoting") /\ Len(quotes) < MaxQuotes
    /\ Asked(flows[f].intent)
    /\ quotes' = Append(quotes, Issued(amount, SponsorFee(amount, costFloor)))
    /\ flows' = [flows EXCEPT ![f].stage = "verify", ![f].quote = Len(quotes) + 1]
    /\ UNCHANGED <<form, breakEven, open, busy, sponsorship, status, receipt, saved,
                   mounted, poll, costFloor, height, ledger>>

\* POST /v1/quotes: a fee above the reviewed maximum is refused.
IssueQuote(f) ==
    LET intent == flows[f].intent
        fee    == SponsorFee(intent.amount, costFloor)
    IN
    /\ At(f, "quoting") /\ Len(quotes) < MaxQuotes
    /\ Asked(intent)
    /\ fee <= intent.max
    /\ quotes' = Append(quotes, Issued(intent.amount, fee))
    /\ flows' = [flows EXCEPT ![f].stage = "verify", ![f].quote = Len(quotes) + 1]
    /\ UNCHANGED <<form, breakEven, open, busy, sponsorship, status, receipt, saved,
                   mounted, poll, costFloor, height, ledger>>

\* verifyQuote() with the height and the balance just read.
Verifies(f) ==
    LET quote == Quote(f) IN
    /\ quote.issued <= height /\ height < quote.expires
    /\ quote.fee <= flows[f].intent.max
    /\ quote.amount + quote.fee <= ledger[Origin]

\* What the page followed before is given up.
Verify(f) ==
    /\ At(f, "verify") /\ Verifies(f) /\ IntentHolds(f)
    /\ IF OnPage(f) THEN sponsorship' = None /\ status' = None
       ELSE UNCHANGED <<sponsorship, status>>
    /\ Goto(f, "approve")
    /\ UNCHANGED <<form, breakEven, open, busy, receipt, saved, mounted, poll,
                   costFloor, quotes, height, ledger>>

\* signAndSubmit() verifies the quote again before the wallet is asked and
\* before the submission.
Check(f) ==
    /\ \/ At(f, "approve") /\ Goto(f, "prompt")
       \/ At(f, "final") /\ Goto(f, "submit")
    /\ Verifies(f) /\ IntentHolds(f)
    /\ UNCHANGED <<form, breakEven, open, busy, sponsorship, status, receipt, saved,
                   mounted, poll, costFloor, quotes, height, ledger>>

\* The wallet signs, and returns raw bytes that the page compares with what it
\* prepared.
Sign(f) ==
    LET prepared == Prepare(flows[f].quote, Quote(f)) IN
    /\ At(f, "prompt") /\ IntentHolds(f)
    /\ \E tx \in Returned(prepared) :
          /\ ValidSigned(tx, prepared)
          /\ flows' = [flows EXCEPT ![f].stage = "final", ![f].signed = tx]
    /\ UNCHANGED <<form, breakEven, open, busy, sponsorship, status, receipt, saved,
                   mounted, poll, costFloor, quotes, height, ledger>>

\* POST /v1/sponsorships: the quote is usable up to its expiry height, and the
\* transaction must match it and succeed in the next block.
Accepts(q, tx) ==
    /\ height <= quotes[q].expires
    /\ MatchesQuote(tx, q, quotes[q])
    /\ Outcome(ledger, tx, Origin, Sponsor, height + 1).status = "success"

Sent(q, tx) == [quotes[q] EXCEPT !.sent = tx, !.tx = "pending"]

Submit(f) ==
    /\ At(f, "submit") /\ Accepts(flows[f].quote, flows[f].signed)
    /\ quotes' = [quotes EXCEPT ![flows[f].quote] = Sent(flows[f].quote, flows[f].signed)]
    /\ Goto(f, "answer")
    /\ UNCHANGED <<form, breakEven, open, busy, sponsorship, status, receipt, saved,
                   mounted, poll, costFloor, height, ledger>>

\* Without browser storage the receipt is only on the page; a page that was left
\* still stores it.
Answered(f) ==
    /\ At(f, "answer")
    /\ IF OnPage(f) THEN receipt' = flows[f].quote /\ sponsorship' = flows[f].quote
       ELSE UNCHANGED <<receipt, sponsorship>>
    /\ saved' \in {flows[f].quote, saved}
    /\ Finish(f)
    /\ UNCHANGED <<form, breakEven, open, status, mounted, poll, costFloor, quotes,
                   height, ledger>>

-----------------------------------------------------------------------------
(* Effects, and the poll for the outcome *)

\* The poll of other dependencies is cancelled; a terminal status ends busy.
Commit ==
    /\ mounted # Current
    /\ mounted' = Current /\ poll' = None
    /\ busy' = (busy /\ ~(Current.terminal /\ ~mounted.terminal))
    /\ UNCHANGED <<form, breakEven, open, flows, sponsorship, status, receipt, saved,
                   costFloor, quotes, height, ledger>>

\* GET /v1/sponsorships: the API may not know the transaction (any more).
Poll ==
    /\ mounted.tx # None /\ ~mounted.terminal /\ poll = None
    /\ LET tx == quotes[mounted.tx].tx IN
       poll' \in IF tx \in Mined THEN {tx} ELSE {"pending", "dropped"}
    /\ UNCHANGED <<form, breakEven, open, busy, flows, sponsorship, status, receipt,
                   saved, mounted, costFloor, quotes, height, ledger>>

\* The first answer is kept.
PollAnsweredOnce ==
    /\ poll # None /\ poll' = None
    /\ status' = IF status = None THEN poll ELSE status
    /\ UNCHANGED <<form, breakEven, open, busy, flows, sponsorship, receipt, saved,
                   mounted, costFloor, quotes, height, ledger>>

PollAnswered ==
    /\ poll # None /\ poll' = None
    /\ status' = poll
    /\ UNCHANGED <<form, breakEven, open, busy, flows, sponsorship, receipt, saved,
                   mounted, costFloor, quotes, height, ledger>>

PollLost ==
    /\ poll # None /\ poll' = None
    /\ UNCHANGED <<form, breakEven, open, busy, flows, sponsorship, status, receipt,
                   saved, mounted, costFloor, quotes, height, ledger>>

\* New transfer, or Done when the transfer was successful.
Reset ==
    /\ sponsorship # None \/ (~Embedded /\ receipt # None)
    /\ status = "success" \/ ~busy
    /\ receipt' = None /\ saved' = None /\ sponsorship' = None /\ status' = None
    /\ mounted' = Nothing /\ poll' = None
    /\ UNCHANGED <<form, breakEven, open, busy, flows, costFloor, quotes, height, ledger>>

\* A page that mounts has nothing but the stored receipt.
Opens ==
    /\ form' = 0 /\ breakEven' = costFloor /\ open' \in BOOLEAN /\ busy' = FALSE
    /\ receipt' = saved /\ sponsorship' = saved /\ status' = None
    /\ mounted' = Nothing /\ poll' = None

\* The dialog is closed, or the user goes to another page and comes back: nothing
\* ends the flows of the page that unmounts.  One whose intent is still to be
\* compared with a form that says another can only fail now, where nothing shows
\* it; it may leave a quote behind that nobody uses.
Outlives(f) == At(f, "submit") \/ At(f, "answer") \/ IntentHolds(f)

Leave ==
    /\ Opens
    /\ flows' = [f \in Flows |->
                    IF At(f, "idle") \/ ~Outlives(f) THEN Idle
                    ELSE [flows[f] EXCEPT !.page = "left"]]
    /\ UNCHANGED <<saved, costFloor, quotes, height, ledger>>

\* The browser loads the page again; the relay still gets what was being submitted.
Reload ==
    /\ Opens
    /\ flows' = [f \in Flows |-> Idle]
    /\ \E reached \in SUBSET {f \in Flows : /\ At(f, "submit")
                                            /\ Accepts(flows[f].quote, flows[f].signed)} :
          quotes' = [q \in DOMAIN quotes |->
                        IF \E f \in reached : flows[f].quote = q
                        THEN LET f == CHOOSE f \in reached : flows[f].quote = q
                             IN  Sent(q, flows[f].signed)
                        ELSE quotes[q]]
    /\ UNCHANGED <<saved, costFloor, height, ledger>>

-----------------------------------------------------------------------------
(* Relay and chain *)

Reprice ==
    /\ costFloor' \in Floors \ {costFloor}
    /\ UNCHANGED <<pageVars, quotes, height, ledger>>

Mine(q) ==
    LET result == Outcome(ledger, quotes[q].sent, Origin, Sponsor, height + 1) IN
    /\ quotes[q].tx = "pending"
    /\ quotes' = [quotes EXCEPT ![q].tx = result.status, ![q].owned = ledger[Origin]]
    /\ ledger' = result.ledger
    /\ UNCHANGED <<pageVars, costFloor, height>>

Tick ==
    /\ height < MaxHeight
    /\ height' = height + 1
    /\ UNCHANGED <<pageVars, costFloor, quotes, ledger>>

Step(f) ==
    \/ CreateQuote(f) \/ IssueQuote(f) \/ Verify(f) \/ Check(f) \/ Sign(f)
    \/ Submit(f) \/ Answered(f) \/ Throw(f)

Next ==
    \/ \E f \in Flows : Step(f)
    \/ Edit \/ RefreshPricing \/ Reset \/ Leave \/ Reload
    \/ Commit \/ Poll \/ PollAnswered \/ PollLost
    \/ \E q \in DOMAIN quotes : Mine(q)
    \/ Reprice \/ Tick

\* Effects run, the page keeps polling, and not every answer is lost.
Spec ==
    /\ Init /\ [][Next]_vars
    /\ WF_vars(Commit) /\ WF_vars(Poll) /\ SF_vars(PollAnswered)

-----------------------------------------------------------------------------
\* The transfers in hand on the page shown.
Active == {f \in Flows : ~At(f, "idle") /\ OnPage(f)}

\* One page of the home page has one transfer in hand at a time: it starts no second
\* one while a quote is requested, the wallet is asked or a submission is answered,
\* although the end of a poll, the end of a run, and a run that a page left behind
\* could each enable the buttons.
OneTransferPerPage ==
    Embedded => Cardinality(Active) <= 1 /\ (Active # {} => busy /\ sponsorship = None)

\* On the home page the outcome shown belongs to the receipt shown and is what
\* the chain did, although polls answer late, receipts are restored and the API
\* reports drops that are superseded; and where the page says that the origin
\* needed more than it had, it did.
ShownOutcomeIsTrue ==
    Embedded /\ sponsorship # None =>
        /\ receipt = sponsorship
        /\ Terminal(status) => quotes[sponsorship].tx = status
        /\ Needed # None => quotes[sponsorship].owned < Needed

Succeeded == {q \in DOMAIN quotes : quotes[q].tx = "success"}

Sum(field) == FoldFunction(LAMBDA m, n : m + n, 0, [q \in Succeeded |-> quotes[q][field]])

\* What a party that is not the origin gets of an amount and a fee.
Due(p, amount, fee) ==
    (IF p = Recipient THEN amount ELSE 0) + (IF p = Sponsor THEN fee ELSE 0)

\* The origin pays the amount and the fee of each successful transfer and nothing
\* for one that aborted, not even when it could pay the sponsor but no longer the
\* recipient; nobody else gains or loses, and a sponsor that is the recipient too
\* gets both.
ExactOutflow ==
    /\ \A p \in {Recipient, Sponsor} : ledger[p] = Due(p, Sum("amount"), Sum("fee"))
    /\ ledger[Origin] = Balance - Sum("amount") - Sum("fee")

\* On the home page, a page that follows a transaction learns what became of that
\* transaction, however many answers are lost and however late answers about an
\* earlier one are, unless it is left or loaded again for ever.
OutcomeReported ==
    LET Learnt == Embedded /\ sponsorship # None /\ quotes[sponsorship].tx \in Mined
                      => status = quotes[sponsorship].tx
    IN  <>[][~Leave /\ ~Reload]_vars => []<>Learnt

=============================================================================

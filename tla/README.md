# Formal verification of OSSR

TLA+ models of the Open Stacks Sponsorship Relay (OSSR), model-checked with TLC; every
safety property that the passing runs check is also proved with TLAPS. The reference is
the source code; where a document says something else, the code decides and the
difference is listed under [Findings](#findings).

## The system

OSSR lets a wallet move sBTC without holding STX. A client asks the relay for a *quote*,
signs the quoted transfer as the origin, and posts the bytes. The relay checks them
against the quote, co-signs as the sponsor, simulates, broadcasts, and remembers the
result. A worker later confirms the transaction and pays the operator back in sBTC.

| Component | Source | State it keeps | Operations | Here |
|---|---|---|---|---|
| Quote store | `apps/operator/src/quote-store.ts` | map of quotes in memory, a JSON file, one promise queue | putIssued, reserve, release, complete, get, list | modelled |
| Nonce ledger | `nonce-store.ts` | reservations in memory and in a JSON file | nextNonce, reserve, update, listActive | partly |
| Operator | `operator.ts` | nonce lock, next-nonce cursor | sponsorAndBroadcast, health, reconcileNonceReservations | partly |
| Relay API | `api.ts` | rate-limit table, fee cache, request counters, a pause file | quote, sponsor, status, info, metrics | sponsorship modelled, the rest partly |
| Transaction lifecycle | `transaction-state.ts` | none | assertTransactionStateTransition | modelled |
| Reimbursement worker | `reimbursement.ts` | JSON file of records, one promise queue | create, reconcile, reconcilePending | modelled |
| Reimbursement pricing | `packages/sbtc/src/reimbursement.ts` | none | integer fee arithmetic | modelled |
| Client failover | `failover.ts` | loop variables | sponsorWithFailover | modelled |
| Beta budget | `beta-budget.ts` | budget entries, JSON file, one promise queue | reserve, attachTransaction, recordFailure, reconcile | modelled |
| x402 payments | `x402.ts` | bindings and receipts, JSON file, one promise queue | authorize, settle | modelled |
| Operator registry | `registry.ts` | one JSON file per registry | register, heartbeat, recordOutcome, list | partly |
| Testnet faucet | `ossr-ui/app/api/testnet-sbtc`, `ossr-ui/lib/faucet-store.ts` | claims and a lock, in Redis or in files | claim | modelled |
| Wallet flow of the web application | `ossr-ui/app/dashboard`, `ossr-ui/lib/ossr.ts` | component state, a receipt in the browser's storage | quote, verify, sign, submit, poll, leave, reload | partly |
| Operator desktop | `apps/operator-desktop` | state of the page, two systemd units | refresh, install, enable, start, stop | partly |
| Transfer adapters | `contracts/*-sponsored-transfer-*.clar` | the token's ledger | sponsored-transfer | modelled |
| Beta access | `beta-access.ts` | per-wallet minute buckets | admit | not modelled |
| Command line, relay client, network table, other contracts, scripts | `cli.ts`, `client.ts`, `contracts/`, `scripts/` | see [Not modelled](#not-modelled) | | not modelled |

**How they interact.** The HTTP handlers of one process are asynchronous functions on one
event loop: they interleave at every `await` and share the quote store, the operator and
the nonce ledger. The stores serialise *mutations* through a promise queue but not reads.
The operator serialises signing through a promise lock. Both stores write their whole map
to a temporary file that is renamed. The worker is started by a timer that does not wait
for its previous run, and GET handlers call into it as well. Remote parties are the Stacks
node, a simulation API, a payment facilitator, and other operators.

**What is hard.** Two connections racing one quote with different bytes; a quote read and
checked several awaits before it is reserved; a broadcast whose answer is lost; a file
that cannot be written after memory has changed; a process that dies between the nonce
reservation, the broadcast and their records; an account nonce that is stale or ahead; a
poll that overlaps another; a deadline that passes during confirmation; two puts through
one temporary file; a lock whose holder outlives its lease; an answer that arrives after
the page has turned to another transaction; a page that unmounts while what it started
runs on; the second of two changes that fails after the first was made. `PROJECT.json`
lists each hazard at its line with the properties that watch it.

**What makes each component correct.**

- Quote store: one holder per quote; a stored result never changes; the queue survives a
  throwing write.
- Nonce ledger and operator: nothing is submitted under a nonce that is not on disk first;
  no two submitted transactions share one.
- Relay: at most one submission per quote; what is reported is what was submitted; every
  request is answered; a quote is completed, open again, or listed for reconciliation.
- Worker: pays only for what the chain executed, once; records obey the public lifecycle;
  records do not get stuck.
- Failover: a signed request whose answer arrived is not offered to somebody else.
- Rate limiter: sweeping and a full table never let anybody in more often than two windows
  allow, and a client that waits as long as it was told gets in.
- x402: nothing is sponsored that was not paid for, a settled payment serves one request
  only, a client is not charged twice and told so, and the store is not overrun by more
  than the connections of the moment.
- Beta budget: what is signed stays within the quotas of its day and within the loss cap;
  a settled entry keeps its outcome.
- Registry: the file can be parsed at every moment, and an operator listed as online is
  alive although updates overwrite each other.
- Faucet: nobody is paid twice within a day, and the lock is given up.
- Wallet flow and adapter: one transfer in hand at a time on a page, a true outcome, the
  exact outflow or none, and an outcome in the end.
- Desktop: the checkbox tells what the units will do, and the page catches up.

## The modules

| Module | What it is | Code |
|---|---|---|
| `Transactions` | quotes, origin-signed bytes, request bodies, sponsored transactions | data shared by the relay |
| `QuoteStore` | `records` (memory), `quoteDisk` (file), `quoteWriter` (queue) | `quote-store.ts` |
| `NonceLedger` | `reservations`, `ledgerDisk`, `cursor` | `nonce-store.ts`, cursor of `operator.ts` |
| `SponsorRelay` | the handlers: one action per stretch of code between two awaits | `OssrRelayApi.sponsor`, `quote`, `OssrOperator.sponsorAndBroadcast` |
| `Sponsorship` | abstract service: a quote is sponsored once, answers tell the truth | what `SponsorRelay` implements |
| `SponsorRelayInv` | the inductive invariants `Consistent` and, under a budget, `Signatures` | |
| `SponsorRelay_proofs` | proofs about `SponsorRelay` and `Sponsorship` | |
| `TransactionState` | the state table, as the code has it | `transaction-state.ts` |
| `SponsorshipLifecycle` | abstract record: legal changes, a payment named once | what `Reimbursement` implements |
| `Reimbursement` | the worker, its queue, its callers, the chain | `reimbursement.ts`, the timer and GET handler of `api.ts` |
| `ReimbursementPricing` | what a sponsorship is worth, used by `Reimbursement` | `calculateReimbursement` |
| `RateLimiter` | windows per key, their table and its sweep | `limitPublicRequest` in `api.ts` |
| `Failover` | the client loop over a listing that may be out of date, one operator behind its `RateLimiter` | `failover.ts` |
| `X402Payments` | payments around a reduced sponsorship path: bindings, receipts, the facilitator | `x402.ts`, its calls in `api.ts` |
| `BetaBudget` | the budget ledger, the handlers that spend from it, the receipts that settle it | `beta-budget.ts`, its calls in `api.ts` |
| `OperatorRegistry` | the registry file, its puts step by step, the assessment of records | `registry.ts`, its callers in `api.ts` |
| `Faucet` | lock, claim, broadcast and release over either store | `route.ts`, `faucet-store.ts` |
| `Pricing` | the relay's fee and the page's estimate of it | `sponsorFeeSats`, `estimatedSponsorFee` |
| `TransferAdapter` | the contract over a token ledger | `sbtc-sponsored-transfer-v1.clar` |
| `SponsoredCall` | preparing, signing, comparing and executing one transaction | `ossr-ui/lib/ossr.ts`, `api.ts` |
| `WalletTransfer` | the transfer page, between relay and chain; composes the three above | `dashboard-client.tsx`, `lib/ossr.ts` |
| `Desktop` | probes, verdict, commands, the page's handlers | `operator-desktop/src-tauri`, `operator-desktop/ui` |
| `Reimbursement_proofs` | proofs about `Reimbursement`, `ReimbursementPricing`, `SponsorshipLifecycle` | |
| `X402Payments_proofs`, `BetaBudget_proofs` | proofs about the modules they are named for | |
| `Applications_proofs` | proofs about `Faucet` and `Desktop` | |
| `Operators_proofs` | proofs about `Failover`, `RateLimiter` and `OperatorRegistry` | |
| `WalletTransfer_proofs` | proofs about `WalletTransfer`, `SponsoredCall`, `TransferAdapter`, `Pricing` | |
| `SumTheorems` | lemmas about sums over finite sets, for the three modules that count | |
| `MC*` | model values, symmetry sets | |

`SponsorRelay` extends `QuoteStore` and `NonceLedger`, and composes them: their operators
are the halves of a store mutation, and a handler's action conjoins one of them with its
own program counter. `Desktop` and `OperatorRegistry` compose with nothing; their
specifications are called `DesktopSpec` and `RegistrySpec` so that one module of proofs
can extend them beside another component.

### SponsorRelay

A connection `r` is suspended at `pc[r]`:

| `pc[r]` | suspended at | actions that leave it |
|---|---|---|
| `check` | reading the quote | `CheckQuote` |
| `price` | health, fee and tip requests | `ObserveTip`, `RefuseEarly` |
| `reserve` | the store's queue | `ReserveQuote`, `RefuseReservation`, `ReplayResult` |
| `reserving` | writing the reservation | `PersistReservation` |
| `budget` | the budget ledger, where there is one | `BudgetAdmits`, `BudgetRefuses` |
| `queued` | the nonce lock | `TakeNonceLock` |
| `sign` | balance and account nonce, inside the lock | `SignAtCurrentNonce`, `RefuseToSign` |
| `simulate` | the check callback: simulation, budget attachment, settlement | `Simulate`, `FailCheck` |
| `nonce` | writing the nonce reservation | `ReserveNonce` |
| `broadcast` | the node's answer | `BroadcastAccepted`, `BroadcastFails` |
| `record`, `ambiguous` | writing the outcome in the ledger | `RecordBroadcast`, `RecordAmbiguous` |
| `failed` | the catch block | `ReleaseQuote`, `KeepQuote` |
| `releasing` | writing the release | `PersistRelease` |
| `complete`, `completing` | completing the quote, then the registry | `CompleteQuote`, `PersistCompletion` |

A mutation of the store is two steps (`BeginWrite`, `EndWrite`) because memory changes
before the file does and a failed write does not roll memory back. `signed` and
`submitted` are the history of what the sponsor key signed and what the network received;
nothing in the code reads them. `QuoteOf` says which quote's arguments a transaction
carries: the post-condition and argument comparisons of `validateTransactionAgainstQuote`
are that one test.

`Faults` chooses what can go wrong: `crash` (at any step; memory is lost, files stay),
`disk` (a write throws), `broadcast` (refused, or accepted with the answer lost).
`RefuseEarly`, `RefuseToSign` and `FailCheck` are always possible, and `BudgetRefuses`
where there is a budget. A handler leaves `queued` through the lock only, and whoever
holds the lock gives it back on every way out: a refusal that kept it would leave all
later requests without an answer (`EveryRequestAnswered`).

The nonce is reserved after the bytes are signed, and only when the check passes: two
signed transactions may share a nonce when the first was never submitted. Uniqueness is
therefore stated of submitted transactions.

### Reimbursement

The chain's view of sponsored transactions and payments moves on its own; callers are
polls and GET handlers. `inside` is the caller inside `serialized()`. What to do with a
record is decided from the status read *inside* the queue (`Read`). `SavePayment` and
`PutStatus` are single steps because the file is read and rewritten under a queue of its
own. `ensurePayments` returns its last promise without awaiting it, so a failing put there
throws past the catch block: `PutStatus` then ends the operation instead of writing
`REIMBURSEMENT_FAILED`.

### X402Payments

A request carries a payment; `lookup` to `bind` are the awaits of `authorize()`, `reserve`
to `release` those of `sponsor()`. The store's operations are exclusive and become single
steps; the capacity test (`Admit`) is a step of its own because it reads the map outside
the queue. A write that throws leaves memory changed (`Save`). The facilitator settles a
payment once and refuses it afterwards; its answer may be lost after it settled. The quote
is the three-state automaton `SponsorRelay` shows it to be, one per request body.

### BetaBudget

`exclusive()` restores the entries when the operation or its write throws, so each
operation is one step that happens durably or not at all. `reserve()` takes its timestamp
before it waits, so a reservation made over midnight counts for the day before. A GET
handler reads a receipt in one step and applies it in a later one; when `reconcile()`
throws, the error code is recorded in a third, behind whatever has queued meanwhile. A
receipt is one of none (not found, or pending), success, abort and invalid (truncated, or
not matching the reservation): once a transaction was sent, the node may answer with any
of them, which includes a reorganisation. The fee of a receipt is the fee that was signed.

The network fee is estimated anew at each attempt (`fee`), while a reservation stays at
the fee of the first (`entry.fee`). `Serves` refuses an attempt at another fee
(`BETA_RESERVATION_MISMATCH`); `signed` adds up the fees that were signed, so that what
was reserved and what was signed are compared.

### Failover and RateLimiter

A client offers one signed transaction to the operators of a listing, one after another.
The operator `Door` is watched through its limiter: requests of the client and of others
`Knock`, windows age with `Tick`, and a full table is swept (`Swept`) before a new window
is refused a place (`NoRoom`). `admitted` and `told` are the history the two properties
are about: what was let in by age, and the wait that a refused client was told. A tick is
a millisecond and a `Second` a number of them: the rest of a window is told in whole
seconds, rounded up (`Seconds`). Rounded down it would send the client back into the same
window.

### OperatorRegistry

`list()` and `get()` (`ListOperators`), `register()`, `heartbeat()` and `recordOutcome()`
read the file and start puts; a put reads the file again (`PutRead`), truncates the
temporary file of its process (`PutOpen`), writes it (`PutWrite`) and renames it over the
registry (`PutRename`). Two puts of one process use the same temporary file: what the
longer one leaves behind the text of the shorter is `Garbage`, and the second rename finds
nothing. `shared` remembers that this has happened, and the properties of the file are
stated as long as it has not. Time is the age of a heartbeat (`HeartbeatsAge`); the
timer's uncaught rejection ends the process.

### Faucet

| stage | awaiting | actions that leave it |
|---|---|---|
| `idle` | the lock | `Acquire` |
| `read` | the claim, the balance, the built transaction | `Read` |
| `save` | the new claim | `Save`, `FailSave` |
| `broadcast` | the node | `Broadcast` |
| `remove` | taking the claim back | `RemoveClaim` |
| `release` | the end of the `finally` block | `Release` |

`Die` ends a request anywhere; its lock belongs to `Orphan` from then on, and runs out in
Redis or waits for `RemoveLock` in files. A request takes at most `Longest` < `Day` units:
the removal of a claim does not look at who owns it, so a request that hangs for a day
between a refused broadcast and `store.remove` could take away somebody's later claim.

### WalletTransfer, Pricing, SponsoredCall, TransferAdapter

A flow is one run of `createQuote()`: `quoting`, `verify`, `approve`, `prompt` (the
wallet), `final`, `submit`, `answer`. What React runs after a change of state is `Commit`;
what the effects were last run for is `mounted`. The page goes away in two ways. `Reload`
ends every flow. `Leave` does not: closing the dialog in which the home page shows the
transfer, or going to another page of the application, unmounts the component, but its
`createQuote()` runs on with the form it was started from, can still have its transaction
submitted, and stores a receipt; the page that is mounted next knows the stored receipt
and nothing else. `page` says whether a flow runs on the page shown. `Embedded` says which
of the two pages it is, the one in the home page or `/dashboard`. `Throw` ends a flow at
every await, also for a session or an account that is not the one expected. The fee is
computed by the page (`EstimatedFee`) and by the relay (`SponsorFee`) from a cost floor
that may have moved in between. The relay issues a quote for a request it can parse
(`Asked`), accepts what matches its quote (`MatchesQuote`) and would succeed in the next
block; the block that takes the transaction evaluates the adapter again, at its own height
and over its own ledger (`Mine`). The adapter has its assertions on the arguments in their
order; a transaction without a sponsor, or with the token of another network, is not built
by anybody here, and those two assertions are left out. The balance on display is not a
guard, because it may be old. Two flows can overlap because several places enable the
buttons again, and because a page was left. A transaction that is in a block stays there:
the chain of this model does not reorganise.

### Desktop

`refresh()` collects three responses (`Probe`, `LoseProbe`), renders them, and asks for
the status of the units. An endpoint that fails and a probe that is lost are steps; a
`get_snapshot` that throws as a whole is not one of its own. Commands are calls in
`queue`, executed by the main thread one at a time; a command is the sequence of changes
it makes, and fails before any of them. Answers are handled in the order of the calls.
`checked` is the checkbox, `serviceState` what the page knows, `unseen` that an install
failed and nothing was asked since.

## The runs

Bounds are small because every interference needs two actors: two connections (a third
adds no new pair), two candidate transactions for a quote or two quotes with one each, two
callers, two flows, two puts, and a lock that one of three requests loses to the second
while the third waits. Three nonces let two be used and one be refused. Four payments with
two places fill the store and overrun it. Three quotes of two wallets exceed each of the
four quotas in some combination, two fees let an estimate rise or fall between two
attempts, and two days put a midnight between a timestamp and its reservation; one GET
handler is enough because the receipt it holds can be any that another would hold. A
window of two seconds of two milliseconds each is the smallest whose rest can be more than
a second without being a whole number of them.

| Run | Shows | Bounds | States |
|---|---|---|---|
| `relay_core` | One submission per quote, recoverable from the files; the reservation is held to completion; stored results are final; `TypeOK`, `Consistent`; the abstract service is implemented | two connections, one quote, two candidate transactions, three nonces, all faults | 238 245 |
| `relay_budget` | Submitted nonces are unique; a quote is signed at most once | two connections and two quotes contending for the nonce lock with a stale or advanced account nonce, a budget, all faults | 137 611 |
| `relay_live` | Every request is answered; a durable reservation ends in a completed quote, an open one, or a nonce the reconciliation command lists | two connections, one quote, failing writes and broadcasts | 4 725 |
| `reimbursement` | Payments match records; paid at most once; the lifecycle is implemented; the record moves on | one record, overlapping poll and GET handler, two payments, two fees (one the policy cannot pay), every fault | 24 367 |
| `failover` | An operator whose signature was answered is the last one asked; fewer than twice the maximum get in during a window's length; waiting as told is enough | two operators, three keys over a table of two windows of two seconds, of two ticks each | 4 889 952 |
| `x402` | Every broadcast was paid for by that request; a settled payment stays bound to it on disk; no two receipts for one request unless the write of one threw; the store is overrun by fewer payments than there are connections | two connections, four payments, two requests, two places, all faults | 346 314 |
| `budget` | What is signed for a day stays within the wallet, transfer and fee quotas, what is not reimbursed within the loss cap; a settled entry keeps its outcome | two POST handlers, a GET handler, three quotes of two wallets, two fees estimated anew at each attempt, two days, all faults | 4 003 320 |
| `registry` | The file can be parsed unless two puts shared the temporary file; what is listed as online is alive | the timer and two requests, two operators of which one registers on the way, two puts, a window of one outcome, crashes and failing writes | 7 357 517 |
| `faucet` | No address is paid twice within a day; the lock is given up | three requests, two addresses, both stores, a lease of two units and a day of three, all faults | 43 315 |
| `wallet` | One transfer in hand on a page, and a true outcome; the exact outflow or none; the outcome is learnt in the end | two flows, two quotes, two cost floors, one block of expiry, the page embedded in the home page, left and loaded again at any time | 724 544 |
| `desktop` | The checkbox tells the truth when no click is under way; left alone the page catches up | one click beside the refresh, a follower that comes and goes | 1 081 680 |
| `desktop_ready` | Counterexample to a documented claim, see [Findings](#findings) | the same, synchronized follower | 338 |

Connections, callers, payments and requests are interchangeable, so the runs that check
safety declare them symmetric; `relay_core` has action and refinement properties under
symmetry but no liveness property, and the runs with liveness declare no symmetry.

**Deadlock** is checked except in `relay_live`, where the only quote id may be used up by
a quote that could not be written.

**Fairness.** `SponsorRelay` has strong fairness per handler: the event loop resumes every
handler, the queue and the lock serve in order, and every remote call ends in an answer or
in a timeout. Strong, because a handler waiting for the queue is disabled whenever another
is inside. Nothing is assumed of clients, of blocks, or of faults: crashes may recur.
`Reimbursement` has strong fairness of the poll timer (a GET handler may occupy the
modelled caller, which does not stop the real timer) and of each caller, weak fairness of
the deadline, because time passes, and strong fairness of a status that is read and of a
put that succeeds, because neither the API nor the disk fails for ever. `Faucet` has weak
fairness of each request (calls are answered or time out) and of time; a request may still
die. `WalletTransfer` has fairness of effects and polls, and strong fairness of
`PollAnswered`: not every answer is lost. `Desktop` has weak fairness of the interval, of
probes, of the main thread and of the handlers.

**Limits chosen on purpose.**

- `PaidAtMostOnce` leaves out a record whose payment a restart, or a second failed put,
  kept from being named (`unnamed`): the next poll pays it again. What holds with every
  fault is `PaymentsMatchRecords` and `ImplementsLifecycle`.
- `reimbursement` has one record. With two, a record whose status can never be read ends
  each poll before the records after it, and `RecordsMoveOn` fails for those.
- `NoQuoteWedged` excludes restarts, a reservation that never reached the disk, and a
  budget: each of them leaves a quote `PROCESSING` until an operator looks at it.
- `WaitIsEnough` is for a client that is alone behind its address; another one behind the
  same address may use up the window.
- `OneTransferPerPage`, `ShownOutcomeIsTrue` and `OutcomeReported` are claimed of the page
  embedded in the home page. On `/dashboard` they fail, see [Findings](#findings); the other
  properties are stated of both. `OneTransferPerPage` counts the flows that began
  on the page shown: across a page that was left there can be two. `OutcomeReported` is
  about a page that is not left or loaded again for ever.
- `FileReadable` claims nothing after two puts shared the temporary file.
- In `Reimbursement` and `WalletTransfer` the chain does not reorganise. In `Reimbursement`
  the payer's own nonce is not modelled.
- `AnsweredSignatureIsFinal` says nothing of an operator whose answer was lost, which the
  loop passes over, see [Findings](#findings).

## The proofs

The theorems hold for any sets of quotes, requests, payments, operators and keys, any
amounts and bounds, and any combination of faults. What they assume is what the modules
state of their constants and nothing else: "no value" lies outside the set it completes,
a file that is empty, garbled or absent is no registry, the refresh of the desktop is not
one of its clicks, limits and heights are naturals, the reimbursement policy is one its
parser accepts, and a process of `X402Payments` has finitely many connections. Two
assumptions say more. In `Faucet` a request does not outlive the day its claim protects
(`Longest` < `Day`). In `WalletTransfer` the origin is neither the recipient nor the
sponsor: the relay refuses a transfer to oneself, and the sponsor pays with a key of its
own. The recipient may well be the sponsor, which then is owed amount and fee (`Due`).

| Module | Invariant behind it | Theorems | Properties |
|---|---|---|---|
| `SponsorRelay_proofs` | `Consistent`; with a budget also `Signatures` | `TypeCorrect`, `AlwaysConsistent`, `SponsoredOnce`, `NoncesUnique`, `BroadcastsRecoverable`, `ReservationHeld`, `ResultsFinal`, `SignedOnce`, `Implementation` | all safety properties of `relay_core` and `relay_budget`, and that the abstract `Sponsorship` is implemented |
| `X402Payments_proofs` | `Accounted`; `Crowded` | `TypeCorrect`, `AlwaysAccounted`, `PaidFirst`, `SettledIsBound`, `OneReceipt`, `OverrunLimited` | all of `x402` |
| `BetaBudget_proofs` | `Ledger` | `TypeCorrect`, `AlwaysReserved`, `QuotasHold`, `LossIsCapped`, `OutcomesAreFinal` | all of `budget` |
| `Reimbursement_proofs` | `Reconciled` | `TypeCorrect`, `AlwaysReconciled`, `PaymentsMatch`, `PaidOnce`, `PricedCoversFee`, `Implements` | all of `reimbursement` but liveness, and that `SponsorshipLifecycle` is implemented |
| `Applications_proofs` | `ClaimsCover`; `PageFollows` | `TypeCorrect`, `AlwaysCovered`, `PaidOnce`; `AlwaysFollows`, `BoxTells` | all of `faucet` and `desktop` but liveness |
| `Operators_proofs` | `Asking`; `DoorTypes`, `Waits` and `Bursts`; `RegistryInv` | `AnswersAreFinal`, `DoorKept`, `BurstsBounded`, `WaitsEnough`; `RegistryKept`, `RegistryTyped`, `RegistryParses`, `ListingsHonest` | all of `failover` and `registry` |
| `WalletTransfer_proofs` | `InHand` | `TypeCorrect`, `AlwaysInHand`, `OneTransfer`, `OutcomeTrue`, `OutflowExact`, `MatchedPaysExactly`, `FeeWithinEstimate` | all of `wallet` but liveness |

The properties are not inductive as they stand. What each invariant adds, and why:

**SponsorRelay.** Nothing in `OneSponsorshipPerQuote` stops a handler
at `broadcast` from submitting for a quote somebody else already submitted. `Consistent`
has four parts. *Scheduling* ties each lock to the program counter of its holder.
*Ownership* says that a handler between its reservation and its completion holds its quote
in memory and on disk, and that two such handlers never have the same quote. *Submissions*
says that whatever was submitted has its quote bound to exactly those bytes in both copies
of the store, and that an owner that has not broadcast yet finds nothing submitted for its
quote. *Ledger* says that a nonce belongs to one transaction and is reserved in memory and
on file before the bytes can leave. Reservation needs a quote that is not bound, and a
restart replaces memory by the file, so the copies on disk carry the invariant across it;
a release is allowed only when the check never passed, which is when nothing was
submitted. Without a budget a quote may be signed twice. With one, a failed check keeps
the quote: `Signatures` says that what was signed has its quote in use or finished in both
copies, so that nobody who has not signed yet can find it signed.

**X402Payments.** A binding may be lost by a restart as long as it is only in memory, so
`Binds` is about bindings on disk: they stand in memory too, and a settlement has one.
`Progress` ties each handler to the payment it carries. That two written receipts belong
to two requests (`Final`) needs that the request of a written receipt is no longer open,
and that no handler that could still give it back holds it. Receipts whose write threw are
excluded, because a restart forgets them. The overrun of the store is bounded by
`Crowded`: the places that are taken and the handlers between the capacity test and the
binding are together fewer than the capacity and the connections. A handler is let in only
while a place is free, and leaves the way as it takes one; the copy on disk is bounded
too, since a restart brings it back.

**BetaBudget.** The quotas are about signed transactions, but a handler signs long after
the sums were compared, and for a fee that it estimated itself. `Reserved`: a handler
from reservation to signature has the fee of the entry it works under, which is what
`Serves` is for. `Owned` and `Charged` make of it that what is signed for a quote is held,
and is no more than the fee reserved. `Quotas` and `Losses` are therefore stated of
everything booked (`Booked`), which covers what is signed. `Losses` sums what no receipt
shows to be reimbursed (`Owed`): the amount the code compares (`Uncovered`) also counts
entries whose receipt was contradicted later, and can outgrow the cap without any
reservation.

**Reimbursement.** `Exclusive` and `ReadHolds`: one caller is inside `serialized()`, and
what it read holds until it leaves. `Executed`: a record beyond `CONFIRMED` is one of a
transaction the chain executed. `Followed`: a payment that no record names is about to be
named or given up, was given up, or is one of `unnamed`; without it nothing keeps a second
caller from paying. `Implements` maps a record to its status and payment, each step of the
worker to a step of `SponsorshipLifecycle` or a stutter. The case that matters is a put
over a record: the status read inside the queue is still there.
`PricedCoversFee` is about the arithmetic alone: rounding up twice never
prices a fee below what it is worth.

**Faucet.** An open payment stands on its own claim, no older than the claim that it
wrote, and no other open payment has that address (`Covered`, `OnePayer`); an address that
was paid within the day has a claim that is no older (`PaidIsClaimed`). Files and Redis
differ in `FileLocked` only: a lock in files never runs out, one in Redis does, and then
`MayClaim` is what keeps a request from saving over somebody's claim.

**Failover and RateLimiter.** `Asking` says that before the next operator is asked every
signature is one whose answer was lost. `BurstBounded` is about any stretch as long as a
window, which may touch two windows and any number of sweeps. `Bursts` splits it: a live
window accounts for all requests since it opened, and whatever was let in before, as far
as it is still within the stretch, is fewer than the maximum, because the window before it
has let its first request go by. `Waits` says that a client is told at least what is left
of its window, for any length of a second: the whole seconds told are no less than the
milliseconds they stand for.

**WalletTransfer.** The runs check two flows and a few amounts on one of the two pages;
the theorems are about any number of flows and quotes, any balance, and both pages.
`Owned`: a flow has a quote of its own that nobody else sends. `OneAtATime` and
`Following`: on the embedded page no flow begins while one that began there is in hand or
a transaction is followed, so an answer in flight is about the receipt on display; a flow
of a page that was left neither enables the buttons of the page shown nor changes what it
shows. `Accounts`: the ledger is the initial balance moved by the transfers that
succeeded, as sums over all quotes. The lemma `Executed` takes the adapter apart: it moves
amount and fee from the origin to the others, who may be one, or nothing, and a transfer
that fails for lack of funds had less than both. `SignedAsAsked` follows a quote through
pricing, verification and signature: what was signed is what the user asked for. Two
theorems are about the calculation alone, for any amounts, ledger and height.
`MatchedPaysExactly`: what the relay accepts for a quote cannot fail its post-condition,
and moves the quoted amount and fee or nothing. `FeeWithinEstimate`: the relay's fee
covers its cost floor, and is more than the page agreed to pay only if that floor alone
is.

**OperatorRegistry.** Every caller may overwrite what another has just put, so neither the
file nor any put is up to date; the two parts of `RegistryInv` say what is true all the
same. *Truthful*: whatever record is in the file, in the temporary file, or in the hands
of a put shows a heartbeat at least as old as the latest one of its operator, with the
rate of the outcomes beside it. A lost update can therefore only make an operator look
older than it is, and since `assess()` stores the rate of the history it keeps, the rate
that `list()` compares is the one of the outcomes in the file. *OneWriter*: as long as no
two puts shared the temporary file, the one put that has opened it finds it empty when it
writes, and whole when it renames; a crash, a failed write and a rejection of the timer
leave the registry as it was. The type invariant needs `Truthful` as well: a put that
writes has seen the records of the others. The theorems are for any number of tasks and
puts, any window and timeout; the run has two puts and a window of one outcome.

**Desktop.** The page handles answers in the order of the calls, but a click may change
the units while the status that a refresh asked for is on its way. `StillTrue`: a status
that was not handled yet shows the units as they are, or the answer of a command that may
have changed them comes behind it. That answer belongs to a click that is still under way
(`Waiting`: each refresh and each click waits for one call or one answer, and for nothing
else), so while one is, `BoxIsTrue` claims nothing; the click ends with a status of its
own, except after a failed install (`unseen`). The run has one click beside the refresh;
the theorem is for any number.

**Sums.** The library's induction theorems take an operator as a parameter, which the
installed provers cannot instantiate. `SumTheorems` proves what the sums need without
them: the function that a fold over a finite set defines exists and is unique, because
among the subsets for which that failed there would be a smallest one (`SmallestSubset`,
from the well-foundedness of the subset ordering), and that one can be reduced by an
element. From it follow the sum with an element added or removed, over a part, over a
disjoint union, and after a shift of the index, which is what a tick of the limiter does.
`CeilLog2` in `Pricing` includes its argument among the candidates for the same kind of
reason: the provers do not know powers, and the minimum must be one of a nonempty set; it
changes no value, since 2^v >= v.

**Only model-checked.**

- Liveness: `EveryRequestAnswered` and `NoQuoteWedged` (`relay_live`), `RecordsMoveOn`
  (`reimbursement`), `LockGivenUp` (`faucet`), `OutcomeReported` (`wallet`) and
  `PageCatchesUp` (`desktop`). `ENABLED`, on which fairness rests, is out of the prover's
  reach.
- What the logarithm in `Pricing` computes, which the run `wallet` evaluates: the provers
  do not know powers, and the proofs use only that it is a natural.
- That the inductive invariants are not vacuous: TLC checks `Consistent` and every
  property that the others imply on states the program reaches.

No module with a proof, or used by one, declares a recursive operator.

## Findings

One run expects a violation:

- `desktop_ready`: the desktop's monitor takes an answer of `/health/ready` for valid only
  if it says that the operator is healthy, and `api.ts` answers with a status and nothing
  else. A relay that is ready is shown as not ready, and its balance never; the project's
  README says the desktop monitors both.

Differences between code and documents that modelling brought up, without a run of their
own:

- `docs/specs/quote-format.md` says that once sponsor-signed bytes exist the quote must
  remain consumed. `api.ts` releases it when the check after signing fails and no budget
  is configured (`MayRelease`).
- `failover.ts` says a request that may already have been signed is never duplicated. A
  fetch that throws, which includes a lost answer, continues the loop (`lostBy`).
- `docs/specs/x402-payments.md` says the store fails closed when full. The test reads the
  size before the facilitator is asked, so payments in flight together all pass (`Admit`);
  `OverrunIsBounded` says by how many at most.
- `beta-budget.ts` says a settled receipt that becomes unavailable preserves the sponsor's
  exposure until reconciliation, and `reconcile()` records it by the failure code.
  `recordFailure()` overwrites any code: a handler whose broadcast answer is late, after
  the receipt was settled and withdrawn, ends the exposure without a receipt (`Noted`).
- `registry.ts` says the store uses replacement writes to avoid partial JSON files. Two
  puts of one process share `<path>.<pid>.tmp`: they leave a file that cannot be parsed,
  or the second rename throws, and a rejection in the health poll is not caught and ends
  the process. Lost updates include a lost registration: a stale put drops an operator
  that registered after it had read the file.
- `create()` of the worker computes the policy's quote first and throws when it exceeds
  the maximum, also when the configured payment replaces it: a broadcast sponsorship is
  then never reimbursed (`Create`).
- Closing the dialog of the home page, or going to another page of the application, while a
  transfer is being quoted, signed or submitted forgets that it is under way: `busy` and the
  form are those of a new page, and `createQuote()` is not aborted. A second transfer can
  then be started beside the first, and the receipt that is stored last wins, which may be
  that of the earlier one (`Leave`).
- A retry of a quote under a budget has to meet the fee estimate of the first attempt
  exactly; while the estimate is another, higher or lower, the quote is refused
  (`Serves`).
- On `/dashboard` the effect for a terminal status enables the form while a second flow
  is running. Two flows can then be in hand; the one that ends last shows the other's
  outcome as its own and stops polling. A late poll answer may leave the status of the
  transfer before.
- A lost answer to a submission leaves no receipt on the page, so the user may pay again;
  a reload between submission and storage loses the receipt in the same way. A refresh of
  the prices while a flow runs changes the intent and aborts it. For USDCx the page
  estimates with the limits of sBTC. `client.ts` takes a dropped transaction for final,
  the page does not.
- `fetchOperatorRegistryRecord` of the registration page passes an operator id in text;
  the contract's `get-operator` takes the principal of the owner, and the other functions
  that the page lists do not exist. The lookup cannot succeed.
- A half-failed switch of the two units leaves the first one switched: the relay starts by
  itself, or the dashboard alone does, although the box is not checked. A failed
  install is the only command after which the page does not look at the units.

## Not modelled

- `nonce-reconcile` (`cli.ts`): a second process with its own copy of the ledger, run by
  hand; its write replaces reservations the relay added meanwhile, and a hazard says so.
- Metrics and chain status: counters and read-only requests that decide nothing.
- Beta access: a comparison of credentials, and windows like those of `RateLimiter`.
- `OperatorRegistry.update()`: no caller; a put without an assessment.
- USDCx quotes: a fixed fee; the adapter and the page are those of sBTC otherwise.
- USDCx token, registry contract, reimbursement wrapper: a copy of an external token, a
  single atomic call, and a prototype that is not deployed.
- The wallet's connection and the cache of balances, the registration page, the desktop's
  list of activity: sessions and presentation.
- Relay client, command line, network table, devnet and deployment scripts: wiring,
  read-only polling and one-shot scripts that keep no state.

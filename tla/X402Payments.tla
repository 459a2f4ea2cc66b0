---------------------------- MODULE X402Payments ----------------------------
(***************************************************************************)
(* X402Payments around POST /v1/sponsorships: a request carries a payment, *)
(* which is verified with a facilitator, bound to the request on disk, and *)
(* settled between the simulation and the broadcast of the sponsorship.    *)
(*                                                                         *)
(* The store's operations run one at a time (exclusive), so each is one    *)
(* step; a write that throws leaves the memory changed.  The capacity test *)
(* alone reads the map outside of the queue.  The quote is reduced to the  *)
(* states SponsorRelay shows it goes through, one quote per request body.  *)
(***************************************************************************)
EXTENDS Naturals, FiniteSets

CONSTANTS
    Requests,       \* connections
    Payments,       \* payment payloads, as `key` tells them apart
    Inputs,         \* request bodies, as `binding` tells them apart
    None,
    Capacity,       \* 10000 in the code
    Faults          \* which of "crash", "disk", "facilitator", "broadcast" can happen

ASSUME X402Assumption ==
    /\ None \notin Payments \cup Inputs
    /\ IsFiniteSet(Requests)
    /\ Capacity \in Nat \ {0}
    /\ Faults \subseteq {"crash", "disk", "facilitator", "broadcast"}

VARIABLES
    bindings,   \* bindings[p]: the request p is bound to, in memory
    receipts,   \* the payments whose receipt is held, in memory
    file,       \* both of them, on disk
    quote,      \* quote[i]: the state of the quote of request i
    charged,    \* charged[p]: the request the facilitator settled p for
    unfiled,    \* payments with a receipt whose write threw
    served,     \* <<payment, request>> of every broadcast
    pc, payment, input,
    cached      \* authorize() found a receipt

storeVars == <<bindings, receipts, file>>
requestVars == <<payment, input>>
vars == <<storeVars, quote, charged, unfiled, served, pc, requestVars, cached>>

PCs == {"idle", "lookup", "admit", "verify", "bind", "reserve", "check",
        "settle", "receipt", "broadcast", "release"}

Binding == [Payments -> Inputs \cup {None}]

TypeOK ==
    /\ bindings \in Binding
    /\ receipts \subseteq {p \in Payments : bindings[p] # None}
    /\ file \in [bindings : Binding, receipts : SUBSET Payments]
    /\ quote \in [Inputs -> {"ISSUED", "PROCESSING", "BROADCAST"}]
    /\ charged \in Binding
    /\ unfiled \subseteq Payments
    /\ served \subseteq Payments \X Inputs
    /\ pc \in [Requests -> PCs]
    /\ payment \in [Requests -> Payments \cup {None}]
    /\ input \in [Requests -> Inputs \cup {None}]
    /\ \A r \in Requests : pc[r] # "idle" => payment[r] # None /\ input[r] # None
    /\ cached \in [Requests -> BOOLEAN]

NoBindings == [p \in Payments |-> None]

Init ==
    /\ bindings = NoBindings /\ receipts = {}
    /\ file = [bindings |-> NoBindings, receipts |-> {}]
    /\ quote = [i \in Inputs |-> "ISSUED"]
    /\ charged = NoBindings
    /\ unfiled = {}
    /\ served = {}
    /\ pc = [r \in Requests |-> "idle"]
    /\ payment = [r \in Requests |-> None]
    /\ input = [r \in Requests |-> None]
    /\ cached = [r \in Requests |-> FALSE]

-----------------------------------------------------------------------------
At(r, from, to) == pc[r] = from /\ pc' = [pc EXCEPT ![r] = to]

GoTo(r, from, to) == At(r, from, to) /\ UNCHANGED <<requestVars, cached>>

\* The response is sent.
Answer(r) ==
    /\ pc' = [pc EXCEPT ![r] = "idle"]
    /\ payment' = [payment EXCEPT ![r] = None]
    /\ input' = [input EXCEPT ![r] = None]
    /\ cached' = [cached EXCEPT ![r] = FALSE]

Bound == {p \in Payments : bindings[p] # None}

BoundElsewhere(r) == bindings[payment[r]] \notin {None, input[r]}

WriteOutcomes == {TRUE} \cup (IF "disk" \in Faults THEN {FALSE} ELSE {})

Save(newBindings, newReceipts, written) ==
    /\ bindings' = newBindings /\ receipts' = newReceipts
    /\ file' = IF written THEN [bindings |-> newBindings, receipts |-> newReceipts] ELSE file

\* A client sends a request with a payment.
Request(r) ==
    /\ At(r, "idle", "lookup")
    /\ \E p \in Payments, i \in Inputs :
          payment' = [payment EXCEPT ![r] = p] /\ input' = [input EXCEPT ![r] = i]
    /\ UNCHANGED <<storeVars, quote, charged, unfiled, served, cached>>

\* A bound payment is taken for a settled one.
LookupBinding(r) ==
    /\ pc[r] = "lookup"
    /\ LET found == bindings[payment[r]] = input[r]
       IN  IF BoundElsewhere(r) THEN Answer(r)
           ELSE /\ At(r, "lookup", IF found THEN "reserve" ELSE "admit")
                /\ cached' = [cached EXCEPT ![r] = found]
                /\ UNCHANGED requestVars
    /\ UNCHANGED <<storeVars, quote, charged, unfiled, served>>

\* 402 PAYMENT_REPLAY, the receipt of an earlier attempt, or a new payment.
Lookup(r) ==
    /\ pc[r] = "lookup"
    /\ LET found == payment[r] \in receipts
       IN  IF BoundElsewhere(r) THEN Answer(r)
           ELSE /\ At(r, "lookup", IF found THEN "reserve" ELSE "admit")
                /\ cached' = [cached EXCEPT ![r] = found]
                /\ UNCHANGED requestVars
    /\ UNCHANGED <<storeVars, quote, charged, unfiled, served>>

\* The last place is given away twice.
FullBeyond == Cardinality(Bound) > Capacity

Full == Cardinality(Bound) >= Capacity

\* The map's size is read outside of the queue, before two more awaits.
Admit(r) ==
    /\ pc[r] = "admit"
    /\ IF Full THEN Answer(r) ELSE GoTo(r, "admit", "verify")
    /\ UNCHANGED <<storeVars, quote, charged, unfiled, served>>

\* The facilitator refuses a payment it has settled before.
Verify(r) ==
    /\ pc[r] = "verify"
    /\ \/ charged[payment[r]] = None /\ GoTo(r, "verify", "bind")
       \/ charged[payment[r]] # None /\ Answer(r)
       \/ "facilitator" \in Faults /\ Answer(r)
    /\ UNCHANGED <<storeVars, quote, charged, unfiled, served>>

\* The binding is not looked up again after the facilitator answered.
BindBlindly(r) ==
    /\ pc[r] = "bind"
    /\ \E written \in WriteOutcomes :
          /\ Save([bindings EXCEPT ![payment[r]] = input[r]], receipts, written)
          /\ IF written THEN GoTo(r, "bind", "reserve") ELSE Answer(r)
    /\ UNCHANGED <<quote, charged, unfiled, served>>

Bind(r) ==
    /\ pc[r] = "bind"
    /\ \/ BoundElsewhere(r) /\ Answer(r) /\ UNCHANGED storeVars
       \/ /\ ~BoundElsewhere(r)
          /\ \E written \in WriteOutcomes :
                /\ Save([bindings EXCEPT ![payment[r]] = input[r]], receipts, written)
                /\ IF written THEN GoTo(r, "bind", "reserve") ELSE Answer(r)
    /\ UNCHANGED <<quote, charged, unfiled, served>>

-----------------------------------------------------------------------------
(* sponsor(), with the settlement as its beforeBroadcast callback. *)

\* Two handlers take the same quote.
MayReserveTwice(i) == quote[i] # "BROADCAST"

MayReserve(i) == quote[i] = "ISSUED"

\* A completed quote is replayed without settling, a quote in PROCESSING is
\* refused, and a request may be refused before it reserves.
ReserveQuote(r) ==
    /\ pc[r] = "reserve"
    /\ \/ /\ MayReserve(input[r]) /\ GoTo(r, "reserve", "check")
          /\ quote' = [quote EXCEPT ![input[r]] = "PROCESSING"]
       \/ Answer(r) /\ UNCHANGED quote
    /\ UNCHANGED <<storeVars, charged, unfiled, served>>

\* Balance, nonce and simulation; a failure releases the quote.
Check(r) ==
    /\ GoTo(r, "check", "settle") \/ GoTo(r, "check", "release")
    /\ UNCHANGED <<storeVars, quote, charged, unfiled, served>>

\* The receipt of an earlier attempt stands in for the settlement.
SkipSettlement(r) ==
    /\ cached[r] /\ GoTo(r, "settle", "broadcast")
    /\ UNCHANGED <<storeVars, quote, charged, unfiled, served>>

\* The facilitator settles a payment once.  Its answer may be lost.
Settle(r) ==
    LET p == payment[r]
        Charge == charged[p] = None /\ charged' = [charged EXCEPT ![p] = input[r]]
    IN  /\ pc[r] = "settle" /\ ~cached[r]
        /\ \/ Charge /\ GoTo(r, "settle", "receipt")
           \/ charged[p] # None /\ UNCHANGED charged /\ GoTo(r, "settle", "release")
           \/ /\ "facilitator" \in Faults /\ GoTo(r, "settle", "release")
              /\ UNCHANGED charged \/ Charge
        /\ UNCHANGED <<storeVars, quote, unfiled, served>>

\* A receipt that cannot be written fails the settlement, and stays in memory.
SaveReceipt(r) ==
    LET p == payment[r]
    IN  /\ \E written \in WriteOutcomes :
              /\ Save(bindings, receipts \cup {p}, written)
              /\ GoTo(r, "receipt", IF written THEN "broadcast" ELSE "release")
              /\ unfiled' = IF written THEN unfiled ELSE unfiled \cup {p}
        /\ UNCHANGED <<quote, charged, served>>

\* The quote stays PROCESSING when the broadcast fails or its answer is lost.
Broadcast(r) ==
    LET sent == served \cup {<<payment[r], input[r]>>}
    IN  /\ pc[r] = "broadcast" /\ Answer(r)
        /\ \/ served' = sent /\ quote' = [quote EXCEPT ![input[r]] = "BROADCAST"]
           \/ "broadcast" \in Faults /\ served' \in {served, sent} /\ UNCHANGED quote
        /\ UNCHANGED <<storeVars, charged, unfiled>>

ReleaseQuote(r) ==
    /\ pc[r] = "release" /\ Answer(r)
    /\ quote' = [quote EXCEPT ![input[r]] = "ISSUED"]
    /\ UNCHANGED <<storeVars, charged, unfiled, served>>

Load == bindings' = file.bindings /\ receipts' = file.receipts

\* A restarted process loads the file; quotes have a durable store.
Crash ==
    /\ "crash" \in Faults
    /\ Load
    /\ pc' = [r \in Requests |-> "idle"]
    /\ payment' = [r \in Requests |-> None]
    /\ input' = [r \in Requests |-> None]
    /\ cached' = [r \in Requests |-> FALSE]
    /\ UNCHANGED <<file, quote, charged, unfiled, served>>

Step(r) ==
    \/ Request(r) \/ Lookup(r) \/ Admit(r) \/ Verify(r) \/ Bind(r)
    \/ ReserveQuote(r) \/ Check(r) \/ SkipSettlement(r) \/ Settle(r)
    \/ SaveReceipt(r) \/ Broadcast(r) \/ ReleaseQuote(r)

Next == Crash \/ \E r \in Requests : Step(r)

Spec == Init /\ [][Next]_vars

-----------------------------------------------------------------------------
\* Nothing is sponsored for free: each broadcast was preceded by the settlement
\* of its payment, for that very request, although receipts are cached, writes
\* fail and the process restarts.
PaidBeforeBroadcast == \A x \in served : charged[x[1]] = x[2]

\* A settled payment is bound on disk to the request it was settled for, so no
\* race and no restart can turn it to another request.
SettledStaysBound ==
    \A p \in Payments : charged[p] # None => file.bindings[p] = charged[p]

\* Two payments are not both taken for one request, unless the write of a
\* receipt threw: racing payments, retries after a failed simulation and
\* restarts do not charge a client twice and tell it so.
OneReceiptPerRequest ==
    \A p, u \in receipts \ unfiled : bindings[p] = bindings[u] => p = u

\* The capacity is tested before the facilitator is asked and not again, so it can
\* be exceeded, but only by connections that were let in before the last place
\* was taken; bindings that only memory has, and restarts, add nothing to that.
OverrunIsBounded == Cardinality(Bound) < Capacity + Cardinality(Requests)

=============================================================================

-------------------------- MODULE SponsorRelayInv --------------------------
(***************************************************************************)
(* The inductive invariant behind the safety of SponsorRelay.  It says who *)
(* owns a quote, a write and the nonce lock at every await, and ties the   *)
(* two stores, in memory and on disk, to what the network has seen.        *)
(***************************************************************************)
EXTENDS SponsorRelay

\* Handlers that hold their quote PROCESSING, and those that are writing.
Owning == {"reserving", "budget", "queued", "sign", "simulate", "nonce",
           "broadcast", "record", "ambiguous", "failed", "complete"}
Writing == {"reserving", "releasing", "completing"}
Locked == {"sign", "simulate", "nonce", "broadcast", "record", "ambiguous"}

Bound(record, b) == record.state = "PROCESSING" /\ record.hash = b

\* Locks and connections.
Scheduling ==
    /\ \A r \in Requests : quoteWriter = r <=> pc[r] \in Writing
    /\ \A r \in Requests : nonceLock = r <=> pc[r] \in Locked
    /\ \A r \in Requests : pc[r] = "idle" => body[r] = NoBody
    /\ \A r \in Requests : pc[r] \notin {"idle", "check", "done"} =>
          QuoteOf[BytesOfRequest(r)] = QuoteOfRequest(r)
    /\ \A r \in Requests : pc[r] \in {"nonce", "broadcast", "record", "ambiguous"} => passed[r]

\* A quote has one owner, in memory and (once the write is over) on disk.
Ownership ==
    /\ \A r \in Requests : pc[r] \in Owning =>
          Holds(QuoteOfRequest(r), BytesOfRequest(r))
    /\ \A r \in Requests : pc[r] \in (Owning \cup Writing) \ {"reserving"} =>
          Bound(quoteDisk[QuoteOfRequest(r)], BytesOfRequest(r))
    /\ \A r, s \in Requests :
          r # s /\ pc[r] \in Owning \cup Writing /\ pc[s] \in Owning \cup Writing =>
             QuoteOfRequest(r) # QuoteOfRequest(s)

\* What the network has seen is out of the reach of a second attempt.
Consumed(store) ==
    \A t \in submitted :
        /\ store[t.quote].state \in {"PROCESSING", "BROADCAST"}
        /\ store[t.quote].hash = t.bytes

Backed(store) ==
    \A q \in Quotes : store[q].state = "BROADCAST" =>
        /\ store[q].result \in submitted
        /\ store[q].result.quote = q
        /\ store[q].result.bytes = store[q].hash

\* Nothing was broadcast for the quote the handler owns.
Unsent(r) ==
    \/ pc[r] \in {"reserving", "budget", "queued", "sign", "simulate", "nonce",
                 "broadcast", "releasing"}
    \/ pc[r] = "failed" /\ ~passed[r]

Submissions ==
    /\ Consumed(records) /\ Consumed(quoteDisk)
    /\ Backed(records) /\ Backed(quoteDisk)
    /\ \A q \in Quotes : quoteDisk[q].state = "BROADCAST" => records[q] = quoteDisk[q]
    /\ \A t \in submitted : QuoteOf[t.bytes] = t.quote
    /\ \A t, u \in submitted : t.quote = u.quote => t = u
    /\ \A r \in Requests : Unsent(r) =>
          \A t \in submitted : t.quote # QuoteOfRequest(r)
    /\ \A r \in Requests : pc[r] \in {"record", "complete", "completing"} =>
          TxOf(r) \in submitted

\* A nonce belongs to one transaction, and the ledger knew it first.
Reserves(ledger, t) == \E x \in ledger : x.tx = t

NonceOnce(ledger) == \A x, y \in ledger : x.tx.nonce = y.tx.nonce => x.tx = y.tx

Ledger ==
    /\ NonceOnce(reservations) /\ NonceOnce(ledgerDisk)
    /\ \A t \in submitted : Reserves(reservations, t) /\ Reserves(ledgerDisk, t)
    /\ \A r \in Requests : pc[r] \in {"broadcast", "record", "ambiguous"} =>
          Reserves(reservations, TxOf(r)) /\ Reserves(ledgerDisk, TxOf(r))

\* The stores, the two locks and the handlers agree on who owns each quote and
\* each nonce, so that no path, failed write or restart opens a second attempt
\* at a quote that reached the network.
Consistent == Scheduling /\ Ownership /\ Submissions /\ Ledger

-----------------------------------------------------------------------------
\* Under a budget.  What the sponsor key has signed is out of reach as well: a
\* store that knows of it has the quote in use or finished.
InUse(store) ==
    \A t \in signed : store[t.quote].state \in {"PROCESSING", "BROADCAST"}

\* Nothing was signed for the quote the handler owns.
Unsigned(r) ==
    \/ pc[r] \in {"reserving", "budget", "queued", "sign", "releasing"}
    \/ pc[r] = "failed" /\ ~prepared[r]

Signatures ==
    /\ \A r \in Requests :
          pc[r] \in (Locked \ {"sign"}) \cup {"complete", "completing"} => prepared[r]
    /\ InUse(records) /\ InUse(quoteDisk)
    /\ \A r \in Requests : Unsigned(r) => \A t \in signed : t.quote # QuoteOfRequest(r)
    /\ OneSignaturePerQuote

=============================================================================

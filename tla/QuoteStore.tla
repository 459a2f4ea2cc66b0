----------------------------- MODULE QuoteStore -----------------------------
(***************************************************************************)
(* The durable quote store (JsonQuoteStore).  Every mutation runs inside   *)
(* one promise queue: it changes the in-memory map first and then writes   *)
(* the whole map to a temporary file that is renamed over the store.  The  *)
(* two halves are separate steps here, because other handlers read the map *)
(* between them, the write may fail (the memory is not rolled back), and   *)
(* the process may die between them.  Reads do not enter the queue.        *)
(***************************************************************************)
EXTENDS Transactions

CONSTANTS
    Requests,       \* the handlers that may be inside the queue
    Nobody          \* the queue is empty

VARIABLES
    records,        \* the in-memory map
    quoteDisk,      \* the JSON file
    quoteWriter     \* the handler whose mutation is being persisted

quoteVars == <<records, quoteDisk, quoteWriter>>

QuoteStates == {"NONE", "ISSUED", "PROCESSING", "BROADCAST"}

\* "NONE" stands for a quote id the map does not hold.
QuoteRecord == [state  : QuoteStates,
                hash   : Bytes \cup {NoBytes},
                result : Tx \cup {NoTx},
                expiry : Nat]

Absent == [state |-> "NONE", hash |-> NoBytes, result |-> NoTx, expiry |-> 0]

Issued(expiry) == [Absent EXCEPT !.state = "ISSUED", !.expiry = expiry]

ASSUME QuoteStoreAssumption == Nobody \notin Requests

QuoteTypeOK ==
    /\ records \in [Quotes -> QuoteRecord]
    /\ quoteDisk \in [Quotes -> QuoteRecord]
    /\ quoteWriter \in Requests \cup {Nobody}

QuoteInit ==
    /\ records = [q \in Quotes |-> Absent]
    /\ quoteDisk = [q \in Quotes |-> Absent]
    /\ quoteWriter = Nobody

-----------------------------------------------------------------------------
\* Slips a maintainer could make in reserve(): the PROCESSING test is lost, the
\* replay of a stored result is lost, or the stored result is returned before
\* the bytes are compared.
ReserveKindWithoutProcessing(q, h) ==
    LET record == records[q]
    IN  CASE record.state = "NONE" -> "missing"
          [] record.state # "NONE" /\ record.hash \notin {NoBytes, h} -> "mismatch"
          [] record.state = "BROADCAST" /\ record.hash \in {NoBytes, h} -> "completed"
          [] OTHER -> "reserved"

ReserveKindWithoutReplay(q, h) ==
    LET record == records[q]
    IN  CASE record.state = "NONE" -> "missing"
          [] record.state # "NONE" /\ record.hash \notin {NoBytes, h} -> "mismatch"
          [] record.state = "PROCESSING" /\ record.hash \in {NoBytes, h} -> "processing"
          [] OTHER -> "reserved"

ReserveKindReplayFirst(q, h) ==
    LET record == records[q]
    IN  CASE record.state = "NONE" -> "missing"
          [] record.state = "BROADCAST" -> "completed"
          [] record.state \notin {"NONE", "BROADCAST"} /\ record.hash \notin {NoBytes, h} ->
                "mismatch"
          [] record.state = "PROCESSING" /\ record.hash \in {NoBytes, h} -> "processing"
          [] OTHER -> "reserved"

\* What reserve() answers, in the order of its early returns.
ReserveKind(q, h) ==
    LET record == records[q]
    IN  CASE record.state = "NONE" -> "missing"
          [] record.state # "NONE" /\ record.hash \notin {NoBytes, h} -> "mismatch"
          [] record.state = "BROADCAST" /\ record.hash \in {NoBytes, h}
                /\ record.result # NoTx -> "completed"
          [] record.state = "PROCESSING" /\ record.hash \in {NoBytes, h} -> "processing"
          [] OTHER -> "reserved"

\* The holder of (q, h): what release() and complete() insist on.
Holds(q, h) == records[q].state = "PROCESSING" /\ records[q].hash = h

Reserved(record, h) == [record EXCEPT !.state = "PROCESSING", !.hash = h]

Released(record) == [record EXCEPT !.state = "ISSUED", !.hash = NoBytes]

Completed(record, t) == [record EXCEPT !.state = "BROADCAST", !.result = t]

\* First half of a mutation: handler w enters the queue and changes memory.
BeginWrite(w, q, record) ==
    /\ quoteWriter = Nobody
    /\ quoteWriter' = w
    /\ records' = [records EXCEPT ![q] = record]
    /\ UNCHANGED quoteDisk

\* Second half: the whole map reaches the disk, or the write throws.
EndWrite(w, written) ==
    /\ quoteWriter = w
    /\ quoteWriter' = Nobody
    /\ quoteDisk' = IF written THEN records ELSE quoteDisk
    /\ UNCHANGED records

\* putIssued() of a fresh random id.  Nobody can ask for the id before the
\* quote is returned, so the two halves are one step.
PutIssued(q, expiry, written) ==
    /\ quoteWriter = Nobody
    /\ records[q].state = "NONE"
    /\ records' = [records EXCEPT ![q] = Issued(expiry)]
    /\ quoteDisk' = IF written THEN records' ELSE quoteDisk
    /\ UNCHANGED quoteWriter

\* A restarted process loads the file.
ReloadQuotes ==
    /\ records' = quoteDisk
    /\ quoteWriter' = Nobody
    /\ UNCHANGED quoteDisk

=============================================================================

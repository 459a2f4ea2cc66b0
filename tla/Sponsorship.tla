---------------------------- MODULE Sponsorship ----------------------------
(***************************************************************************)
(* What the relay promises its clients and its operator, with no mention   *)
(* of stores, locks, handlers or restarts:                                 *)
(*                                                                         *)
(*   - a quote is sponsored at most once, the same origin-signed bytes are *)
(*     sponsored at most once, and no two sponsorships share a sponsor     *)
(*     nonce;                                                              *)
(*   - a request that is told "BROADCAST" is told the one sponsorship of   *)
(*     exactly the quote and the bytes it submitted.                       *)
(***************************************************************************)
EXTENDS Transactions

CONSTANT Requests       \* connections a client may send a request on

VARIABLES
    sponsored,  \* transactions handed to the Stacks network
    body,       \* body[r]: the request in flight on connection r
    reply       \* reply[r]: the transaction r was told about, or NoTx

vars == <<sponsored, body, reply>>

Init ==
    /\ sponsored = {}
    /\ body = [r \in Requests |-> NoBody]
    /\ reply = [r \in Requests |-> NoTx]

Ask(r, b) ==
    /\ body[r] = NoBody
    /\ body' = [body EXCEPT ![r] = b]
    /\ UNCHANGED <<sponsored, reply>>

Sponsor(t) ==
    /\ QuoteOf[t.bytes] = t.quote
    /\ \A u \in sponsored :
          u.quote # t.quote /\ u.bytes # t.bytes /\ u.nonce # t.nonce
    /\ sponsored' = sponsored \cup {t}
    /\ UNCHANGED <<body, reply>>

Answer(r, t) ==
    /\ body[r] = [quote |-> t.quote, bytes |-> t.bytes]
    /\ reply' = [reply EXCEPT ![r] = t]
    /\ UNCHANGED <<sponsored, body>>

\* Connections end: one that was answered or refused, or all at a restart.
Hangup(R) ==
    /\ body' = [r \in Requests |-> IF r \in R THEN NoBody ELSE body[r]]
    /\ reply' = [r \in Requests |-> IF r \in R THEN NoTx ELSE reply[r]]
    /\ UNCHANGED sponsored

Next ==
    \/ \E r \in Requests, b \in Body : Ask(r, b)
    \/ \E t \in Tx : Sponsor(t)
    \/ \E r \in Requests, t \in sponsored : Answer(r, t)
    \/ \E R \in SUBSET Requests : Hangup(R)

Spec == Init /\ [][Next]_vars

=============================================================================

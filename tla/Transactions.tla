---------------------------- MODULE Transactions ----------------------------
(***************************************************************************)
(* The data the relay's components share.                                  *)
(*                                                                         *)
(* A client signs a transaction that names the quote it was built for (the *)
(* quote id is one of the adapter call's arguments), so the origin-signed  *)
(* bytes determine their quote: QuoteOf.  A request body names a quote and *)
(* carries bytes; the two need not agree.  What the sponsor signs is the   *)
(* bytes together with a sponsor nonce, and that pair is the transaction   *)
(* the network sees; the quote it was sponsored under is kept with it.     *)
(***************************************************************************)
EXTENDS Naturals

CONSTANTS
    Quotes,     \* quote ids
    Bytes,      \* origin-signed transactions (equivalently, their hashes)
    QuoteOf,    \* the quote id a transaction's arguments carry
    Nonces,     \* account nonces; a finite set of them is a bound of the model
    NoBytes,    \* requestHash: undefined
    NoTx,       \* result: undefined; also the reply of a refused request
    NoBody      \* a connection that carries no request

Body == [quote : Quotes, bytes : Bytes]

Tx == [quote : Quotes, bytes : Bytes, nonce : Nonces]

ASSUME TransactionsAssumption ==
    /\ QuoteOf \in [Bytes -> Quotes]
    /\ Nonces \subseteq Nat /\ 0 \in Nonces
    /\ NoBytes \notin Bytes
    /\ NoTx \notin Tx
    /\ NoBody \notin Body

=============================================================================

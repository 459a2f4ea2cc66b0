--------------------------- MODULE SponsoredCall ---------------------------
(* The origin-signed transaction of one quote: the page prepares it, a wallet *)
(* returns a signed one, the page and then the relay compare it with what was *)
(* quoted, and the chain executes it under its post-condition.                *)
EXTENDS Integers, TransferAdapter

\* prepareWalletContractCall(): the arguments of the adapter, and the exact
\* outflow of the origin in deny mode.
Prepare(id, quote) ==
    [args    |-> [quote |-> id, amount |-> quote.amount, fee |-> quote.fee,
                  recipient |-> quote.recipient, expires |-> quote.expires],
     outflow |-> quote.amount + quote.fee,
     mode    |-> "deny"]

\* What a wallet may hand back: the transaction it was asked to sign, or one in
\* which an amount, the post-condition or its mode is another.
Returned(asked) ==
    {asked, [asked EXCEPT !.mode = "allow"], [asked EXCEPT !.outflow = @ + 1],
     [asked EXCEPT !.args.amount = @ + 1], [asked EXCEPT !.args.fee = @ + 1]}

\* validateSignedWalletTransaction()
ValidSigned(tx, asked) ==
    tx.mode = "deny" /\ tx.args = asked.args /\ tx.outflow = asked.outflow

\* validateTransactionAgainstQuote() and validatePostConditions().
MatchesQuote(tx, id, quote) ==
    /\ tx.args = Prepare(id, quote).args
    /\ tx.mode = "deny"
    /\ tx.outflow = quote.amount + quote.fee

\* The adapter's result stands if the origin sent exactly what it agreed to.
Outcome(ledger, tx, origin, sponsor, blockHeight) ==
    LET result == SponsoredTransfer(ledger, tx.args, origin, sponsor, blockHeight)
    IN  IF result.status = "success" /\ ledger[origin] - result.ledger[origin] # tx.outflow
        THEN [status |-> "POST_CONDITION", ledger |-> ledger]
        ELSE result

=============================================================================

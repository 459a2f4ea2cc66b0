-------------------------- MODULE TransferAdapter ---------------------------
(* The sponsored-transfer adapter contract over the ledger of its token: it  *)
(* pays the sponsor and the recipient out of the origin's balance, or leaves *)
(* the ledger as it was.                                                     *)
EXTENDS Naturals

CONSTANTS MaxTransfer, MaxSponsorFee

ASSUME AdapterAssumption == MaxTransfer \in Nat /\ MaxSponsorFee \in Nat

\* ft-transfer? of the token.
CanTransfer(ledger, amount, from, to) ==
    amount > 0 /\ from # to /\ ledger[from] >= amount

Transferred(ledger, amount, from, to) ==
    [ledger EXCEPT ![from] = @ - amount, ![to] = @ + amount]

\* The error that the assertions on the arguments give, the first one first.
ArgumentError(call, origin, sponsor, blockHeight) ==
    IF blockHeight > call.expires       THEN "QUOTE_EXPIRED"
    ELSE IF call.amount = 0             THEN "AMOUNT_ZERO"
    ELSE IF call.amount > MaxTransfer   THEN "AMOUNT_TOO_HIGH"
    ELSE IF call.fee = 0                THEN "SPONSOR_FEE_ZERO"
    ELSE IF call.fee > MaxSponsorFee    THEN "SPONSOR_FEE_TOO_HIGH"
    ELSE IF call.recipient = origin     THEN "RECIPIENT_IS_ORIGIN"
    ELSE IF sponsor = origin            THEN "SPONSOR_IS_ORIGIN"
    ELSE "none"

\* The fee is kept when the recipient cannot be paid.
SponsoredTransferKeepingFee(ledger, call, origin, sponsor, blockHeight) ==
    LET invalid  == ArgumentError(call, origin, sponsor, blockHeight)
        afterFee == Transferred(ledger, call.fee, origin, sponsor)
    IN  IF invalid # "none" THEN [status |-> invalid, ledger |-> ledger]
        ELSE IF ~CanTransfer(ledger, call.fee, origin, sponsor)
        THEN [status |-> "FEE_TRANSFER_FAILED", ledger |-> ledger]
        ELSE IF ~CanTransfer(afterFee, call.amount, origin, call.recipient)
        THEN [status |-> "RECIPIENT_TRANSFER_FAILED", ledger |-> afterFee]
        ELSE [status |-> "success",
              ledger |-> Transferred(afterFee, call.amount, origin, call.recipient)]

\* sponsored-transfer: first the sponsor, then the recipient; an error response
\* undoes the whole call.
SponsoredTransfer(ledger, call, origin, sponsor, blockHeight) ==
    LET invalid  == ArgumentError(call, origin, sponsor, blockHeight)
        afterFee == Transferred(ledger, call.fee, origin, sponsor)
        Error(e) == [status |-> e, ledger |-> ledger]
    IN  IF invalid # "none" THEN Error(invalid)
        ELSE IF ~CanTransfer(ledger, call.fee, origin, sponsor)
        THEN Error("FEE_TRANSFER_FAILED")
        ELSE IF ~CanTransfer(afterFee, call.amount, origin, call.recipient)
        THEN Error("RECIPIENT_TRANSFER_FAILED")
        ELSE [status |-> "success",
              ledger |-> Transferred(afterFee, call.amount, origin, call.recipient)]

Errors == {"QUOTE_EXPIRED", "AMOUNT_ZERO", "AMOUNT_TOO_HIGH", "SPONSOR_FEE_ZERO",
           "SPONSOR_FEE_TOO_HIGH", "RECIPIENT_IS_ORIGIN", "SPONSOR_IS_ORIGIN",
           "FEE_TRANSFER_FAILED", "RECIPIENT_TRANSFER_FAILED"}

=============================================================================

------------------------------ MODULE Pricing -------------------------------
(* The sponsor fee of a transfer: what the relay charges, and what the wallet *)
(* page computes from the relay's limits before it asks for a quote.          *)
EXTENDS Naturals, FiniteSetsExt

CONSTANTS Scale, Growth     \* pricingScaleSats, pricingGrowthSats

ASSUME PricingAssumption == Scale \in Nat \ {0} /\ Growth \in Nat \ {0}

CeilDiv(n, d) == (n + d - 1) \div d

\* The least exponent whose power of two reaches v; v itself is large enough.
CeilLog2(v) == Min({v} \cup {e \in 0 .. v : 2 ^ e >= v})

Logarithmic(amount) == Growth * CeilLog2(1 + CeilDiv(amount, Scale))

\* sponsorFeeSats(): at least the cost the relay has to cover.
SponsorFee(amount, costFloor) == Max({1, Logarithmic(amount), costFloor})

\* estimatedSponsorFee(), from the limits the page has read.
EstimatedFee(amount, breakEven) == Max({Logarithmic(amount), 1, breakEven})

\* setAmountByPercent(): what a percentage of the balance leaves after the fee.
AmountByPercent(balance, percent, breakEven) ==
    LET fee  == EstimatedFee((balance * percent) \div 100, breakEven)
        safe == IF balance > fee THEN balance - fee ELSE 0
    IN  (safe * percent) \div 100

=============================================================================

------------------------ MODULE ReimbursementPricing ------------------------
(* What a sponsorship is worth: the network fee converted to sats, a markup,  *)
(* a reserve for aborted transactions, and the bounds of the policy.          *)
EXTENDS Naturals, FiniteSetsExt

CONSTANTS
    RateNumerator, RateDenominator,     \* sats per microSTX
    MarkupBps,
    FailureReserve,
    Minimum, Maximum                    \* the least and the most a quote may be

\* validateReimbursementPolicy()
ValidPolicy ==
    /\ {RateNumerator, RateDenominator, Minimum} \subseteq Nat \ {0}
    /\ {MarkupBps, FailureReserve, Maximum} \subseteq Nat
    /\ MarkupBps <= 10000
    /\ Minimum <= Maximum

ASSUME PolicyAssumption == ValidPolicy

ceilDivide(numerator, denominator) == (numerator + denominator - 1) \div denominator

Converted(fee) == ceilDivide(fee * RateNumerator, RateDenominator)

Markup(fee) == ceilDivide(Converted(fee) * MarkupBps, 10000)

\* calculateReimbursement(): the minimum is an all-in minimum.
Priced(fee) ==
    Max({Converted(fee) + Markup(fee) + FailureReserve, Minimum})

\* It throws when the policy's maximum is exceeded.
Payable(fee) == fee > 0 /\ Priced(fee) <= Maximum

=============================================================================

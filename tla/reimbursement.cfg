\* One sponsorship, a poll and a GET handler overlapping it, every fault: the
\* status API, both kinds of lost payment, failing writes, restarts.  Two
\* payments are allowed, so that one lost at a restart can be made again.  Of
\* two fees one is within the bounds (2 converted, 1 of markup, 1 of reserve)
\* and one beyond the maximum, for which no record is created.
CONSTANTS
    c1 = c1
    c2 = c2
    s1 = s1
    Sponsorships = {s1}
    Callers = {c1, c2}
    Nobody = Nobody
    NoJob = NoJob
    Faults = {"crash", "disk", "api", "payment"}
    RateNumerator = 1
    RateDenominator = 2
    MarkupBps = 1000
    FailureReserve = 1
    Minimum = 3
    Maximum = 5
    Fees = {3, 20}
    OperatorPayment = 0
    MaxPayments = 2
SPECIFICATION FairSpec
INVARIANTS TypeOK PaymentsMatchRecords PaidAtMostOnce
PROPERTIES ImplementsLifecycle RecordsMoveOn

\* Two connections, one quote; disks and broadcasts fail.
\* The instance ends when no quote id is left to issue.
CONSTANTS
    r1 = r1
    r2 = r2
    q1 = q1
    q2 = q2
    b1 = b1
    b2 = b2
    b3 = b3
    Requests = {r1, r2}
    Quotes = {q1}
    Bytes = {b1}
    QuoteOf <- OneQuote
    Nonces = {0, 1, 2}
    NoBytes = NoBytes
    NoTx = NoTx
    NoBody = NoBody
    Nobody = Nobody
    BudgetControlled = FALSE
    Faults = {"disk", "broadcast"}
    Lifetime = 1
    MaxHeight = 1
    MaxFetched = 0
SPECIFICATION FairSpec
CHECK_DEADLOCK FALSE
PROPERTIES
    EveryRequestAnswered
    NoQuoteWedged

\* Two connections, two quotes, contending for the nonce lock, all faults, and a
\* beta budget.
CONSTANTS
    r1 = r1
    r2 = r2
    q1 = q1
    q2 = q2
    b1 = b1
    b2 = b2
    b3 = b3
    Requests = {r1, r2}
    Quotes = {q1, q2}
    Bytes = {b1, b3}
    QuoteOf <- TwoQuotes
    Nonces = {0, 1, 2, 3}
    NoBytes = NoBytes
    NoTx = NoTx
    NoBody = NoBody
    Nobody = Nobody
    BudgetControlled = TRUE
    Faults = {"crash", "disk", "broadcast"}
    Lifetime = 1
    MaxHeight = 0
    MaxFetched = 1
SPECIFICATION Spec
SYMMETRY Connections
INVARIANTS
    OneSignaturePerQuote
    UniqueSponsorNonce

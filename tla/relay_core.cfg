\* Two connections, one quote with two candidate transactions, all faults.
CONSTANTS
    r1 = r1
    r2 = r2
    q1 = q1
    q2 = q2
    b1 = b1
    b2 = b2
    b3 = b3
    Requests = {r1, r2}
    Quotes = {q1}
    Bytes = {b1, b2}
    QuoteOf <- OneQuote
    Nonces = {0, 1, 2}
    NoBytes = NoBytes
    NoTx = NoTx
    NoBody = NoBody
    Nobody = Nobody
    BudgetControlled = FALSE
    Faults = {"crash", "disk", "broadcast"}
    Lifetime = 1
    MaxHeight = 1
    MaxFetched = 1
SPECIFICATION Spec
SYMMETRY Connections
INVARIANTS
    TypeOK
    Consistent
    OneSponsorshipPerQuote
    RecoverableBroadcasts
    ReservationHeldToCompletion
PROPERTIES
    StoredResultIsFinal
    ImplementsSponsorship

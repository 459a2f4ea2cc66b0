\* Three quotes of two wallets, two POST handlers, one GET handler, two days, all faults.
CONSTANTS
    q1 = q1
    q2 = q2
    q3 = q3
    a = a
    b = b
    h1 = h1
    h2 = h2
    g1 = g1
    g2 = g2
    Quotes = {q1, q2, q3}
    Origins = {a, b}
    OriginOf <- Wallets
    Outflow <- Sats
    Fees = {1, 2}
    WalletDailyLimit = 2
    DailyLimit = 3
    DailyFeeLimit = 2
    LossCap = 2
    Handlers = {h1, h2}
    Readers = {g1}
    None = None
    MaxDay = 2
    Faults = {"crash", "disk", "broadcast", "receipt"}
SPECIFICATION Spec
SYMMETRY Actors
INVARIANTS TypeOK DailyQuotasHold LossWithinCap
PROPERTIES SettledIsFinal

CONSTANTS
    r1 = r1
    r2 = r2
    r3 = r3
    a1 = a1
    a2 = a2
    k1 = k1
    k2 = k2
    None = None
    Free = Free
    Torn = Torn
    Orphan = Orphan
    Requests = {r1, r2, r3}
    Addresses = {a1, a2}
    Challenges = {k1, k2}
    Stores = {"redis", "file"}
    Lease = 2
    Day = 3
    Longest = 2
    Faults = {"die", "store", "network"}
SPECIFICATION Spec
INVARIANTS TypeOK PaidOncePerDay
PROPERTY LockGivenUp

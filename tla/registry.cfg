CONSTANTS
    a = a
    b = b
    Empty = Empty
    Garbage = Garbage
    Absent = Absent
    Timer = Timer
    r1 = r1
    r2 = r2
    Requests = {r1, r2}
    Operators = {a, b}
    Self = a
    Chosen = {"ONLINE"}
    Reports <- Funds
    Timeout = 1
    Window = 1
    MaxPuts = 2
    Faults = {"crash", "disk"}
SPECIFICATION RegistrySpec
SYMMETRY Permuted
INVARIANTS TypeOK FileReadable ListingHonest

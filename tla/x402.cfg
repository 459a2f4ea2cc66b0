\* Two connections, four payments, two requests, two places in the store, all faults.
CONSTANTS
    r1 = r1
    r2 = r2
    p1 = p1
    p2 = p2
    p3 = p3
    p4 = p4
    i1 = i1
    i2 = i2
    Requests = {r1, r2}
    Payments = {p1, p2, p3, p4}
    Inputs = {i1, i2}
    None = None
    Capacity = 2
    Faults = {"crash", "disk", "facilitator", "broadcast"}
SPECIFICATION Spec
SYMMETRY Symmetry
INVARIANTS PaidBeforeBroadcast SettledStaysBound OneReceiptPerRequest OverrunIsBounded

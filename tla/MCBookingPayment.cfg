SPECIFICATION Spec
CONSTANTS
    k1 = k1
    k2 = k2
    c1 = c1
    c2 = c2
    Keys = {k1}
    Callers = {c1, c2}
    Prices = {2, 3}
    Opening = 2
    Attempts = 2
    MaxDeliveries = 1
    Ops = {"create", "initialize", "verify", "cancel", "admin"}
    Troubles = {"price", "crash", "database", "late", "spend"}
    MaxTroubles = 2
SYMMETRY Symmetry
INVARIANTS
    PaidInFull
    RefundedOnce
CHECK_DEADLOCK FALSE

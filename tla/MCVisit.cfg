SPECIFICATION FairSpec
CONSTANTS
    b1 = b1
    w1 = w1
    c1 = c1
    c2 = c2
    Bookings = {b1}
    Beauticians = {w1}
    Worker <- MCWorker
    Amount <- MCAmount
    Callers = {c1, c2}
    Ops = {"customer_cancels", "admin", "scan"}
    Troubles = {"crash", "database", "queue", "lapse"}
    MaxTroubles = 2
    MaxPins = 2
    Attempts = 2
    Threshold = 1
INVARIANTS
    VisitKept
PROPERTIES
    EarningsPostedOnce
    ConfirmedInTheEnd
CHECK_DEADLOCK FALSE

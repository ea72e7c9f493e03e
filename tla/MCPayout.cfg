SPECIFICATION FairSpec
CONSTANTS
    p1 = p1
    c1 = c1
    c2 = c2
    Requests = {p1}
    Amount <- MCAmount
    Opening = 1
    Limit = 1
    Callers = {c1, c2}
    MaxTransfers = 2
    Attempts = 2
    Troubles = {"timeout", "crash", "spend"}
    MaxTroubles = 2
INVARIANTS
    DebitBacked
    CompletedIsDebited
PROPERTIES
    SuccessSettles
CHECK_DEADLOCK FALSE

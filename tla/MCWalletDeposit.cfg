SPECIFICATION FairSpec
CONSTANTS
    d1 = d1
    d2 = d2
    c1 = c1
    c2 = c2
    p1 = p1
    p2 = p2
    Deposits = {d1, d2}
    Callers = {c1, c2}
    Debits = {p1, p2}
    Amount <- MCAmount
    Price <- MCPrice
    MaxDeliveries = 2
    MaxCrashes = 1
INVARIANTS
    Solvent
    CreditOnlyWhatWasPaid
    CompletedIsCredited
PROPERTIES
    WebhookCredits
CHECK_DEADLOCK FALSE

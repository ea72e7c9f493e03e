SPECIFICATION FairSpec
CONSTANTS
    k1 = k1
    k2 = k2
    c1 = c1
    c2 = c2
    Keys = {k1}
    Callers = {c1}
    Prices = {2}
    Opening = 1
    Attempts = 3
    MaxDeliveries = 1
    Ops = {"initialize"}
    Troubles = {"late"}
    MaxTroubles = 1
PROPERTIES
    WebhookBooks
CHECK_DEADLOCK FALSE

SPECIFICATION FairSpec
CONSTANTS
    b1 = b1
    b2 = b2
    w1 = w1
    w2 = w2
    Bookings = {b1}
    Beauticians = {w1, w2}
    MaxOffers = 3
    Cap = 1
    MaxDelays = 0
    Moves = {}
    MaxMoves = 0
    MaxFlows = 2
INVARIANTS
    LiveOffersWithinCap
PROPERTIES
    OfferResolved
CHECK_DEADLOCK FALSE

SPECIFICATION Spec
CONSTANTS
    b1 = b1
    b2 = b2
    w1 = w1
    w2 = w2
    Bookings = {b1}
    Beauticians = {w1, w2}
    MaxOffers = 2
    Cap = 2
    MaxDelays = 1
    Moves = {"online", "offline", "force", "retry", "wake", "immediate", "cancel", "crash", "lapse"}
    MaxMoves = 1
    MaxFlows = 2
SYMMETRY Symmetry
INVARIANTS
    OneWinner
    ExhaustedHasNoLiveOffer
PROPERTIES
    NoTakeover
CHECK_DEADLOCK FALSE

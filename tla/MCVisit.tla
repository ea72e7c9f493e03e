-------------------------------- MODULE MCVisit --------------------------------
\* One visit; VisitProofs has any number of them.
EXTENDS Visit, TLC

CONSTANTS b1, w1, c1, c2

MCWorker == [b \in Bookings |-> w1]
MCAmount == [b \in Bookings |-> 1]
================================================================================

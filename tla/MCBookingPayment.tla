------------------------- MODULE MCBookingPayment -------------------------
(* Instances of BookingPayment for TLC. *)
EXTENDS BookingPayment, TLC

CONSTANTS k1, k2, c1, c2

Symmetry == Permutations(Keys) \cup Permutations(Callers)
=============================================================================

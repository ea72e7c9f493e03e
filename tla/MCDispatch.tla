---------------------------- MODULE MCDispatch ----------------------------
(* Instances of Dispatch for TLC. *)
EXTENDS Dispatch, TLC

CONSTANTS b1, b2, w1, w2

Symmetry == Permutations(Bookings) \cup Permutations(Beauticians)
=============================================================================

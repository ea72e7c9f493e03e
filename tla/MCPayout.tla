------------------------------ MODULE MCPayout ------------------------------
(* Instances of Payout for TLC: requests that the wallet just covers.      *)
EXTENDS Payout

CONSTANTS p1, c1, c2

MCAmount == [p \in Requests |-> 1]
=============================================================================

-------------------------- MODULE MCWalletDeposit --------------------------
(* Instances of WalletDeposit for TLC: small amounts, so that a payment can *)
(* be too dear for one deposit and affordable after two.                    *)
EXTENDS WalletDeposit

CONSTANTS d1, d2, c1, c2, p1, p2

MCAmount == [d \in Deposits |-> IF d = d1 THEN 1 ELSE 2]
MCPrice  == [p \in Debits |-> IF p = p1 THEN 1 ELSE 2]
=============================================================================

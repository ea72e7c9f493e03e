-------------------------------- MODULE Sums ---------------------------------
(***************************************************************************)
(* Sums over sets, as numbers of elements: to add up w[x] for every x of a *)
(* set is to count the pairs of an x with one of its w[x] units.  What is  *)
(* stated this way can be proved with the facts about finite sets.         *)
(***************************************************************************)
EXTENDS Integers, FiniteSets

\* w[x] units of every x of S, told apart.  What is not positive has none.
Units(S, w) == UNION {{x} \X (1..w[x]) : x \in S}

SumOver(S, w) == Cardinality(Units(S, w))
===============================================================================

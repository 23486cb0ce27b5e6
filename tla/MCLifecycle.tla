---------------------------- MODULE MCLifecycle ----------------------------
(* A small instance of Lifecycle for TLC: two packages, the larger with the  *)
(* longer cycle; the smaller may be withdrawn, its row at a lower price and  *)
(* for a shorter time, for those who renew it.                               *)
EXTENDS Lifecycle, TLC

CONSTANTS small, large,         \* packages
          regular, short, big   \* versions of them

MCPackageOf == [v \in Versions |-> IF v = big THEN large ELSE small]
MCPrice == [v \in Versions |-> CASE v = regular -> 3 [] v = short -> 2 [] v = big -> 4]
MCDays == [v \in Versions |-> CASE v = regular -> 2 [] v = short -> 1 [] v = big -> 3]
MCHas == [v \in Versions |-> [x \in Resources |-> IF v = big THEN 2 ELSE 1]]
MCSymmetry == Permutations(Requests) \union Permutations(Users)
=============================================================================

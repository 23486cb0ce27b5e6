----------------------------- MODULE MCPurchase -----------------------------
(* Small instances of Purchase for TLC: the orders w1 and q1 ask for one     *)
(* hostname, and q2 for another one.                                         *)
EXTENDS Purchase, TLC

CONSTANTS w1, q1, q2, a, b

MCHostOf == [o \in Orders |-> IF o = q2 THEN b ELSE a]
MCSymmetry == Permutations(Requests)
=============================================================================

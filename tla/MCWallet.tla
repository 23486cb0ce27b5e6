------------------------------ MODULE MCWallet ------------------------------
(* Small instances of Wallet for TLC.  The opening balance covers a renewal  *)
(* and not an order, a top-up makes room for both, so that charges compete.  *)
EXTENDS Wallet

CONSTANTS u1, u2, t2, s2

MCUserOf == [x \in Objects |-> IF x \in {t2, s2} THEN u2 ELSE u1]
MCAmountOf == [x \in Objects |-> IF x \in Services THEN 1 ELSE 2]
MCRefundOf == [s \in Services |-> IF s = s2 THEN 0 ELSE 1]
MCOpening == [u \in Users |-> 1]
=============================================================================

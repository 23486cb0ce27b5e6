----------------------------- MODULE MCSupport -----------------------------
(* Small instances of Support for TLC.                                     *)
EXTENDS Support, TLC

MCSymmetry == Permutations(Requests)
=============================================================================

--------------------------- MODULE MCAlertMonitor ---------------------------
(* Small instances of AlertMonitor for TLC.                                 *)
EXTENDS AlertMonitor, TLC

MCSymmetry == Permutations(Services)
=============================================================================

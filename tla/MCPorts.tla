------------------------------ MODULE MCPorts ------------------------------
(* Small instances of Ports for TLC.                                       *)
EXTENDS Ports, TLC

MCSymmetry == Permutations(Requests) \union Permutations(Services)
=============================================================================

----------------------------- MODULE MCDomains -----------------------------
(* Small instances of Domains for TLC.                                     *)
EXTENDS Domains, TLC

MCSymmetry == Permutations(Requests) \union Permutations(Domains)
=============================================================================

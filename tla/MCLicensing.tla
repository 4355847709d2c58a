----------------------------- MODULE MCLicensing -----------------------------
(* Model-checking instance of Licensing.                                   *)
EXTENDS Licensing, TLC

Symmetry == Permutations(Servers) \cup Permutations(Requests)
==============================================================================

---------------------------- MODULE MCMembership ----------------------------
(* Model-checking instance of Membership.                                  *)
EXTENDS Membership, TLC

Symmetry == Permutations(Users) \cup Permutations(Codes) \cup Permutations(Requests)
==============================================================================

----------------------------- MODULE MCSanctions -----------------------------
(* Model-checking instance of Sanctions.                                   *)
EXTENDS Sanctions, TLC

Symmetry ==
  Permutations(Detected) \cup Permutations(Bans \ Detected)
    \cup Permutations(Appeals) \cup Permutations(Requests)
==============================================================================

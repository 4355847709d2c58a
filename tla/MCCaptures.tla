------------------------------ MODULE MCCaptures ------------------------------
(* Model-checking instance of Captures.                                    *)
EXTENDS Captures, TLC

Symmetry ==
  Permutations(Ids) \cup Permutations(Members) \cup Permutations(Images)
    \cup Permutations(Requests)
==============================================================================

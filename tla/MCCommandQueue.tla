---------------------------- MODULE MCCommandQueue ----------------------------
(* Model checking of CommandQueue.                                         *)
EXTENDS CommandQueue, TLC

Symmetry == Permutations(Commands) \cup Permutations(Polls) \cup Permutations(Reports)
==============================================================================

----------------------------- MODULE MCAgentAuth -----------------------------
(* Model-checking instance of AgentAuth.                                   *)
EXTENDS AgentAuth, TLC

Symmetry == Permutations(Deliveries) \cup Permutations(Messages)
==============================================================================

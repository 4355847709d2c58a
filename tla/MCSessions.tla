----------------------------- MODULE MCSessions -----------------------------
(* Model-checking instance of Sessions.                                    *)
EXTENDS Sessions, TLC

Symmetry == Permutations(Identities) \cup Permutations(Tokens)
              \cup Permutations(SessionIds) \cup Permutations(Requests)
==============================================================================

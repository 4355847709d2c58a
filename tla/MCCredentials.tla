---------------------------- MODULE MCCredentials ----------------------------
(* Model-checking instance of Credentials.                                 *)
EXTENDS Credentials, TLC

Symmetry == Permutations(Keys) \cup Permutations(Calls) \cup Permutations(Admins)

(* What an idle request remembers is never read again: two states that     *)
(* differ only in it are the same state.                                   *)
View ==
  <<status, supersedes, deleted, state, agentRow, held, cpc, apc,
    [c \in Calls |-> IF cpc[c] = "idle" THEN <<>>
                     ELSE <<cop[c], ckey[c], cseen[c], cnew[c]>>],
    [a \in Admins |-> IF apc[a] = "reply" THEN anew[a] ELSE NoKey]>>
==============================================================================

------------------------------- MODULE MCTriage -------------------------------
(* Model-checking instance of Triage.                                      *)
EXTENDS Triage, TLC

CONSTANTS a1, a2

(* Two detections that corroborate each other, the grave one first.        *)
MCAlerts   == {a1, a2}
MCCategory == a1 :> "movement" @@ a2 :> "event"
MCSeverity == a1 :> "CRITICAL" @@ a2 :> "HIGH"
MCOccurred == a1 :> 1 @@ a2 :> 2

Symmetry == Permutations(Rows) \cup Permutations(Incidents) \cup Permutations(Requests)
==============================================================================

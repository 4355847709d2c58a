-------------------------- MODULE CommandLifecycle --------------------------
(***************************************************************************)
(* What the command queue promises of every command sent to an agent,      *)
(* whatever transactions, locks and retries carry it: it is handed out     *)
(* until one verdict settles it, the verdict is final, an expiry is never  *)
(* early, and the dashboard hears of a settled command at most once, with  *)
(* the outcome that was stored.                                            *)
(***************************************************************************)
EXTENDS Naturals

CONSTANTS
  Commands,
  Outcomes,    \* results an agent may report
  Statuses,    \* the status each outcome is stored under: [Outcomes -> STRING]
  MaxClock     \* bound of time

VARIABLES
  row,        \* per command: status, and outcome once there is one
  expires,    \* per command: time of expiry
  clock,
  announced   \* pairs <<command, outcome>> the dashboard was told of

vars == <<row, expires, clock, announced>>

Live == {"PENDING", "SENT"}
Version(st, res) == [st |-> st, res |-> res]

Init ==
  /\ row = [c \in Commands |-> Version("none", "none")]
  /\ expires = [c \in Commands |-> 0]
  /\ clock = 0
  /\ announced = {}

Issue(c) ==
  /\ row[c].st = "none"
  /\ row' = [row EXCEPT ![c] = Version("PENDING", "none")]
  /\ \E e \in 1..MaxClock : expires' = [expires EXCEPT ![c] = e]
  /\ UNCHANGED <<clock, announced>>

(* One poll: commands past their expiry are withdrawn, others handed out.  *)
Poll ==
  /\ \A c \in Commands :
       \/ row'[c] = row[c]
       \/ /\ row[c].st \in Live
          /\ \/ row'[c] = Version("SENT", "none")
             \/ expires[c] <= clock /\ row'[c] = Version("EXPIRED", "none")
  /\ row' = [c \in Commands |-> row'[c]]
  /\ UNCHANGED <<expires, clock, announced>>

(* One report: commands still open receive their verdict.                  *)
Settle ==
  /\ \A c \in Commands :
       \/ row'[c] = row[c]
       \/ /\ row[c].st \in Live
          /\ \E o \in Outcomes : row'[c] = Version(Statuses[o], o)
  /\ row' = [c \in Commands |-> row'[c]]
  /\ UNCHANGED <<expires, clock, announced>>

Announce(c) ==
  /\ row[c].res \in Outcomes
  /\ \A o \in Outcomes : <<c, o>> \notin announced
  /\ announced' = announced \cup {<<c, row[c].res>>}
  /\ UNCHANGED <<row, expires, clock>>

Tick ==
  /\ clock' = clock + 1
  /\ UNCHANGED <<row, expires, announced>>

Next ==
  \/ \E c \in Commands : Issue(c) \/ Announce(c)
  \/ Poll
  \/ Settle
  \/ Tick

Spec == Init /\ [][Next]_vars
==============================================================================

------------------------------- MODULE Presence -------------------------------
(***************************************************************************)
(* One server as the pages of the dashboard show it: the reports of its    *)
(* agent, the events they publish and the requests by which a page reloads *)
(* itself (agent-gateway/service.ts; realtime/websocket.ts;                *)
(* useRealtime.ts, useResource.ts).                                        *)
(*                                                                         *)
(* An event only makes a page reload, so several on their way count as     *)
(* one.  Redis, the hub and the socket are one channel that may lose any   *)
(* of them: Redis refuses it, the hub has not subscribed yet, the socket   *)
(* is closed, or not registered yet.  A page whose user is no longer       *)
(* entitled to the server does not become so again.                        *)
(***************************************************************************)
EXTENDS Integers

CONSTANTS
  Pages,
  Payloads,  \* <<state, health>> the agent may report
  Reports,   \* agent requests in flight
  Loads,     \* bound: requests of one page in flight
  Free,      \* a row no transaction has written
  MaxTries   \* attempts of useResource

ASSUME PresenceAssumption == Free \notin Reports /\ MaxTries \in Nat \ {0}

VARIABLES
  row,       \* servers: state and logical deletion
  rowLock,   \* the transaction that has written the row, or Free
  report,    \* the agent's requests
  stopped,   \* the game server is down for good
  inbox,     \* an event is on its way to the page
  entitled,  \* the session lives and its user is a member
  load,      \* the page's requests
  page       \* what the page shows, and whether it is still there

agentVars    == <<row, rowLock, report, stopped>>
pageVars     == <<inbox, entitled, load, page>>
presenceVars == <<agentVars, pageVars>>

States == {"ONLINE", "DEGRADED", "OFFLINE", "UNKNOWN"}

(* What a page shows: the server's state, or nothing: deleted, or not yet  *)
(* loaded.                                                                 *)
Views == States \cup {"nothing"}

(* Types, and: however its reports and the deletion overlap, a deleted     *)
(* server stays OFFLINE (service.ts:202-234, routes.ts:921-925).           *)
PresenceTypeOK ==
  /\ row \in [state : States, deleted : BOOLEAN]
  /\ row.deleted => row.state = "OFFLINE"
  /\ rowLock \in Reports \cup {Free}
  /\ report \in [Reports -> [pc : {"idle", "update", "publish", "commit"},
                             state : States, hello : BOOLEAN]]
  /\ stopped \in BOOLEAN
  /\ inbox \in [Pages -> BOOLEAN]
  /\ entitled \in [Pages -> BOOLEAN]
  /\ load \in [Pages -> [Loads -> [pc : {"idle", "ask", "answer"},
                                   tries : 0..(MaxTries - 1), got : Views]]]
  /\ page \in [Pages -> [shown : Views, there : BOOLEAN]]

Resting == [pc |-> "idle", state |-> "UNKNOWN", hello |-> FALSE]
Unused  == [pc |-> "idle", tries |-> 0, got |-> "nothing"]

PresenceInit ==
  /\ row = [state |-> "UNKNOWN", deleted |-> FALSE] /\ rowLock = Free
  /\ report = [r \in Reports |-> Resting] /\ stopped = FALSE
  /\ inbox = [p \in Pages |-> FALSE] /\ entitled = [p \in Pages |-> TRUE]
  /\ load = [p \in Pages |-> [i \in Loads |-> Unused]]
  /\ page = [p \in Pages |-> [shown |-> "nothing", there |-> TRUE]]

------------------------------------------------------------------------------
(* The agent's reports.                                                    *)

(* The state shown is derived from the health reported.                    *)
StateOf(state, health) ==
  IF health = "FAILED" \/ (state = "ONLINE" /\ health = "DEGRADED") THEN "DEGRADED"
  ELSE CASE state \in {"ONLINE", "DEGRADED"}  -> state
         [] state \in {"STOPPING", "OFFLINE"} -> "OFFLINE"
         [] OTHER                             -> "UNKNOWN"

Receive(r, s, hello) ==
  /\ ~stopped /\ report[r].pc = "idle"
  /\ report' = [report EXCEPT ![r] = [pc |-> "update", state |-> s, hello |-> hello]]
  /\ UNCHANGED <<row, rowLock, stopped, pageVars>>

(* A handshake, which always means ONLINE, or a heartbeat.  A request the  *)
(* agent gave up on may still run beside the next one.                     *)
Handshake(r)                == Receive(r, "ONLINE", TRUE)
Heartbeat(r, state, health) == Receive(r, StateOf(state, health), FALSE)

(* Faulty variant: the UPDATE does not test deleted_at.                    *)
UpdateAny(r) ==
  /\ report[r].pc = "update" /\ rowLock = Free
  /\ rowLock' = r
  /\ report' = [report EXCEPT ![r].pc = IF report[r].hello THEN "commit" ELSE "publish"]
  /\ UNCHANGED <<row, stopped, pageVars>>

(* UPDATE servers ... WHERE deleted_at IS NULL.                            *)
Update(r) ==
  /\ report[r].pc = "update" /\ rowLock = Free
  /\ IF row.deleted
     THEN report' = [report EXCEPT ![r] = Resting] /\ UNCHANGED rowLock
     ELSE /\ rowLock' = r
          /\ report' = [report EXCEPT ![r].pc = IF report[r].hello THEN "commit" ELSE "publish"]
  /\ UNCHANGED <<row, stopped, pageVars>>

(* A heartbeat's event leaves before COMMIT, a handshake's after.          *)
Publish(r) ==
  /\ report[r].pc = "publish"
  /\ \E heard \in SUBSET Pages :
       inbox' = [p \in Pages |-> inbox[p] \/ (p \in heard /\ page[p].there)]
  /\ report' = [report EXCEPT ![r] = IF @.hello THEN Resting ELSE [@ EXCEPT !.pc = "commit"]]
  /\ UNCHANGED <<row, rowLock, stopped, entitled, load, page>>

Commit(r) ==
  /\ report[r].pc = "commit"
  /\ row' = [row EXCEPT !.state = report[r].state] /\ rowLock' = Free
  /\ report' = [report EXCEPT ![r] = IF @.hello THEN [@ EXCEPT !.pc = "publish"] ELSE Resting]
  /\ UNCHANGED <<stopped, pageVars>>

(* A statement fails, or the API restarts.                                 *)
Abort(r) ==
  /\ report[r].pc # "idle"
  /\ rowLock' = IF rowLock = r THEN Free ELSE rowLock
  /\ report' = [report EXCEPT ![r] = Resting]
  /\ UNCHANGED <<row, stopped, pageVars>>

(* The game server crashes or is switched off.                             *)
Stop ==
  /\ ~stopped /\ stopped' = TRUE
  /\ UNCHANGED <<row, rowLock, report, pageVars>>

(* DELETE /api/servers/:id.                                                *)
DeleteServer ==
  /\ ~row.deleted /\ rowLock = Free
  /\ row' = [state |-> "OFFLINE", deleted |-> TRUE]
  /\ UNCHANGED <<rowLock, report, stopped, pageVars>>

------------------------------------------------------------------------------
(* The pages.                                                              *)

Reload(p, i) ==
  /\ page[p].there /\ load[p][i].pc = "idle"
  /\ load' = [load EXCEPT ![p][i] = [Unused EXCEPT !.pc = "ask"]]

(* An event of the socket.                                                 *)
Hear(p, i) ==
  /\ inbox[p] /\ Reload(p, i)
  /\ inbox' = [inbox EXCEPT ![p] = FALSE]
  /\ UNCHANGED <<agentVars, entitled, page>>

(* Faulty variant: no poll once something is shown.                        *)
TickWhenQuiet(p, i) ==
  /\ page[p].shown = "nothing" /\ Reload(p, i)
  /\ UNCHANGED <<agentVars, inbox, entitled, page>>

(* The first load, the user's, or the fallback poll, socket open or not.   *)
Tick(p, i) ==
  /\ Reload(p, i)
  /\ UNCHANGED <<agentVars, inbox, entitled, page>>

View == IF row.deleted THEN "nothing" ELSE row.state

(* GET /api/servers: the session and the role are valid, and the row read. *)
Answer(p, i) ==
  /\ load[p][i].pc = "ask" /\ entitled[p]
  /\ load' = [load EXCEPT ![p][i] = [@ EXCEPT !.pc = "answer", !.got = View]]
  /\ UNCHANGED <<agentVars, inbox, entitled, page>>

(* Faulty variant: 401 is an error like another.                           *)
StayOnPage(p, i) ==
  /\ load[p][i].pc = "ask" /\ ~entitled[p]
  /\ load' = [load EXCEPT ![p][i] = Unused]
  /\ UNCHANGED <<agentVars, inbox, entitled, page>>

(* 401: the browser goes to /login.                                        *)
GoToLogin(p, i) ==
  /\ load[p][i].pc = "ask" /\ ~entitled[p]
  /\ page' = [page EXCEPT ![p].there = FALSE]
  /\ load' = [load EXCEPT ![p] = [j \in Loads |-> Unused]]
  /\ inbox' = [inbox EXCEPT ![p] = FALSE]
  /\ UNCHANGED <<agentVars, entitled>>

(* setData, in whatever order the answers come.                            *)
Arrive(p, i) ==
  /\ load[p][i].pc = "answer"
  /\ page' = [page EXCEPT ![p].shown = load[p][i].got]
  /\ load' = [load EXCEPT ![p][i] = Unused]
  /\ UNCHANGED <<agentVars, inbox, entitled>>

(* The network or the server fails: another attempt after a pause, an      *)
(* error beside the data already shown after the last one.                 *)
Retry(p, i) ==
  /\ load[p][i].pc # "idle"
  /\ load' = [load EXCEPT ![p][i] = IF @.tries + 1 = MaxTries THEN Unused
                                    ELSE [pc |-> "ask", tries |-> @.tries + 1, got |-> "nothing"]]
  /\ UNCHANGED <<agentVars, inbox, entitled, page>>

(* The session is revoked or the membership ends.                          *)
Exclude(p) ==
  /\ entitled[p] /\ entitled' = [entitled EXCEPT ![p] = FALSE]
  /\ UNCHANGED <<agentVars, inbox, load, page>>

------------------------------------------------------------------------------
PresenceNext ==
  \/ \E r \in Reports :
       \/ Handshake(r) \/ \E x \in Payloads : Heartbeat(r, x[1], x[2])
       \/ Update(r) \/ Publish(r) \/ Commit(r) \/ Abort(r)
  \/ Stop \/ DeleteServer
  \/ \E p \in Pages :
       \/ Exclude(p)
       \/ \E i \in Loads :
            \/ Hear(p, i) \/ Tick(p, i) \/ Answer(p, i) \/ GoToLogin(p, i)
            \/ Arrive(p, i) \/ Retry(p, i)

PresenceSpec == PresenceInit /\ [][PresenceNext]_presenceVars

(* A report ends, the poll of an open page comes round, and its requests   *)
(* are answered now and then.                                              *)
PresenceFairness ==
  /\ \A r \in Reports :
       SF_presenceVars(Update(r)) /\ WF_presenceVars(Publish(r)) /\ WF_presenceVars(Commit(r))
  /\ \A p \in Pages :
       /\ SF_presenceVars(\E i \in Loads : Tick(p, i))
       /\ SF_presenceVars(\E i \in Loads : Answer(p, i) \/ GoToLogin(p, i))
       /\ SF_presenceVars(\E i \in Loads : Arrive(p, i))

PresenceFairSpec == PresenceSpec /\ PresenceFairness

------------------------------------------------------------------------------
(* Properties.                                                             *)

(* Once the agent is silent, a page whose user stays entitled comes to     *)
(* show what is stored and goes on showing it: events lost, published      *)
(* before COMMIT, or answered in the wrong order are made up for           *)
(* (service.ts:262-271, useRealtime.ts:77-80, useResource.ts:27-56).       *)
PageCatchesUp ==
  \A p \in Pages : <>[](stopped /\ entitled[p]) => <>[](page[p].shown = View)

(* A page whose user has lost the session or the membership does not keep  *)
(* showing the server (useResource.ts:39-42).                              *)
ExcludedPagesLeave == \A p \in Pages : ~entitled[p] ~> ~page[p].there

(* docs/ARCHITECTURE.md:279-282: a sweeper marks OFFLINE the server whose  *)
(* agent has vanished.                                                     *)
SilentServerGoesOffline == stopped ~> row.state = "OFFLINE"
==============================================================================

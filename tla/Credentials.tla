----------------------------- MODULE Credentials -----------------------------
(***************************************************************************)
(* The life of the keys of one game server: issued by an administrator     *)
(* (api/routes.ts, POST credentials and build), rotated in two phases by   *)
(* the agent (agent-gateway/credentials.ts, service.ts handshake and       *)
(* rotate), revoked one by one or with the deletion of the server.         *)
(*                                                                         *)
(* Every withTenant block of the code is one transaction and one action    *)
(* here; between two of them requests interleave freely.  A row lock taken *)
(* by one transaction only delays another, so a transaction is atomic.     *)
(* Any transaction may fail (500): the request stops there and what it     *)
(* committed earlier stays.                                                *)
(***************************************************************************)
EXTENDS Integers, FiniteSets

CONSTANTS
  Keys,     \* key_ids newId('key') can draw
  NoKey,    \* absence of a key (SQL NULL)
  Calls,    \* agent requests in flight
  Admins    \* dashboard requests issuing a credential, in flight

ASSUME CredentialAssumption == NoKey \notin Keys

VARIABLES
  status,      \* api_credentials.status, "none" before the INSERT
  supersedes,  \* api_credentials.supersedes_key_id
  deleted,     \* servers.deleted_at IS NOT NULL
  state,       \* servers.state
  agentRow,    \* whether the agents row of the server exists
  held,        \* keys whose secret the agent has received
  cpc, cop, ckey, cseen,   \* agent requests: step, operation, signing key, status read
  cnew,                    \* key a rotate request issued
  apc, anew                \* dashboard requests: step, key issued

keyVars    == <<status, supersedes>>
serverVars == <<deleted, state, agentRow>>
callVars   == <<cpc, cop, ckey, cseen, cnew>>
adminVars  == <<apc, anew>>
vars == <<status, supersedes, deleted, state, agentRow, held, cpc, cop, ckey,
          cseen, cnew, apc, anew>>

Statuses == {"none", "ACTIVE", "PENDING_ROTATION", "SUPERSEDED", "REVOKED"}
CallSteps == {"idle", "auth", "handshake", "commit", "rotate", "audit", "reply"}
AdminSteps == {"idle", "findAgent", "insertAgent", "revoke", "issue", "reply"}

(* What CredentialStore.resolve accepts.  No code path sets expires_at, so *)
(* a key never expires.                                                    *)
Usable(k) == status[k] \in {"ACTIVE", "PENDING_ROTATION"}
UsableKeys == {k \in Keys : Usable(k)}

(* The agent still has a way in.                                           *)
CanSign == \E k \in held : Usable(k)

TypeOK ==
  /\ status \in [Keys -> Statuses]
  /\ supersedes \in [Keys -> Keys \cup {NoKey}]
  /\ deleted \in BOOLEAN
  /\ state \in {"UNKNOWN", "ONLINE", "OFFLINE"}
  /\ agentRow \in BOOLEAN
  /\ held \subseteq Keys
  /\ cpc \in [Calls -> CallSteps]
  /\ cop \in [Calls -> {"handshake", "rotate"}]
  /\ ckey \in [Calls -> Keys \cup {NoKey}]
  /\ cseen \in [Calls -> Statuses]
  /\ cnew \in [Calls -> Keys \cup {NoKey}]
  /\ apc \in [Admins -> AdminSteps]
  /\ anew \in [Admins -> Keys \cup {NoKey}]

(* A server just created: POST /api/servers issues no key.                 *)
Init ==
  /\ status = [k \in Keys |-> "none"]
  /\ supersedes = [k \in Keys |-> NoKey]
  /\ deleted = FALSE
  /\ state = "UNKNOWN"
  /\ agentRow = FALSE
  /\ held = {}
  /\ cpc = [c \in Calls |-> "idle"]
  /\ cop = [c \in Calls |-> "handshake"]
  /\ ckey = [c \in Calls |-> NoKey]
  /\ cseen = [c \in Calls |-> "none"]
  /\ cnew = [c \in Calls |-> NoKey]
  /\ apc = [a \in Admins |-> "idle"]
  /\ anew = [a \in Admins |-> NoKey]

------------------------------------------------------------------------------
(* Statements on api_credentials.                                          *)

(* api_credentials_one_active_idx: the statement that would leave two      *)
(* ACTIVE rows is refused and its transaction rolls back.                  *)
IndexAllows(st) ==
  \A j, k \in Keys : st[j] = "ACTIVE" /\ st[k] = "ACTIVE" => j = k

(* CredentialStore.issue: INSERT of a fresh key.                           *)
Issued(k, st, old) ==
  /\ status[k] = "none"
  /\ status' = [status EXCEPT ![k] = st]
  /\ supersedes' = [supersedes EXCEPT ![k] = old]

(* UPDATE ... SET status = 'REVOKED' WHERE status <> 'REVOKED'             *)
RevokeAll ==
  status' = [k \in Keys |-> IF status[k] = "none" THEN "none" ELSE "REVOKED"]

(* Faulty variant: whatever key is ACTIVE makes room for the promoted one. *)
PromotedOverActive(k) ==
  [j \in Keys |-> IF j = k THEN "ACTIVE"
                  ELSE IF status[j] = "ACTIVE" THEN "SUPERSEDED" ELSE status[j]]

(* The statuses after the two UPDATEs of commitRotation for key k.         *)
Promoted(k) ==
  [j \in Keys |-> IF j = k THEN "ACTIVE"
                  ELSE IF j = supersedes[k] THEN "SUPERSEDED" ELSE status[j]]

------------------------------------------------------------------------------
(* Agent requests.                                                         *)

CallTo(c, step) == cpc' = [cpc EXCEPT ![c] = step]

(* The agent signs with a key it holds; the request reaches the gateway.   *)
Send(c, op, k) ==
  /\ cpc[c] = "idle" /\ k \in held
  /\ CallTo(c, "auth")
  /\ cop' = [cop EXCEPT ![c] = op]
  /\ ckey' = [ckey EXCEPT ![c] = k]
  /\ UNCHANGED <<keyVars, serverVars, adminVars, held, cseen, cnew>>

(* CredentialStore.resolve: the status read here is the one the handler    *)
(* uses later.  A refusal ends the request with 401.                       *)
Authenticate(c) ==
  /\ cpc[c] = "auth"
  /\ IF Usable(ckey[c])
     THEN /\ CallTo(c, cop[c])
          /\ cseen' = [cseen EXCEPT ![c] = status[ckey[c]]]
     ELSE CallTo(c, "idle") /\ UNCHANGED cseen
  /\ UNCHANGED <<keyVars, serverVars, adminVars, held, cop, ckey, cnew>>

(* Faulty variant: the UPDATE of servers does not test deleted_at.         *)
HandshakeDeleted(c) ==
  /\ cpc[c] = "handshake"
  /\ agentRow' = TRUE
  /\ state' = "ONLINE"
  /\ CallTo(c, IF cseen[c] = "PENDING_ROTATION" THEN "commit" ELSE "idle")
  /\ UNCHANGED <<keyVars, deleted, adminVars, held, cop, ckey, cseen, cnew>>

(* GatewayService.handshake, its transaction: the agent row is upserted    *)
(* even when the server turns out to be deleted (404).                     *)
Handshake(c) ==
  /\ cpc[c] = "handshake"
  /\ agentRow' = TRUE
  /\ IF deleted
     THEN CallTo(c, "idle") /\ UNCHANGED state
     ELSE /\ state' = "ONLINE"
          /\ CallTo(c, IF cseen[c] = "PENDING_ROTATION" THEN "commit" ELSE "idle")
  /\ UNCHANGED <<keyVars, deleted, adminVars, held, cop, ckey, cseen, cnew>>

(* Faulty variant: the promotion does not re-read the pending status.      *)
CommitUnchecked(c) ==
  /\ cpc[c] = "commit"
  /\ IndexAllows(Promoted(ckey[c]))
  /\ status' = Promoted(ckey[c])
  /\ CallTo(c, "idle")
  /\ UNCHANGED <<supersedes, serverVars, adminVars, held, cop, ckey, cseen, cnew>>

(* CredentialStore.commitRotation: nothing to do unless the row is still   *)
(* PENDING_ROTATION; otherwise retire the superseded key, promote the new  *)
(* one, and let the index refuse a second ACTIVE (500, rolled back).       *)
CommitRotation(c) ==
  /\ cpc[c] = "commit"
  /\ status' = IF status[ckey[c]] = "PENDING_ROTATION" /\ IndexAllows(Promoted(ckey[c]))
               THEN Promoted(ckey[c]) ELSE status
  /\ CallTo(c, "idle")
  /\ UNCHANGED <<supersedes, serverVars, adminVars, held, cop, ckey, cseen, cnew>>

(* Faulty variant: the old key is retired as soon as the new one exists.   *)
RotateEagerly(c, k) ==
  /\ cpc[c] = "rotate" /\ status[k] = "none"
  /\ status' = [status EXCEPT ![k] = "ACTIVE", ![ckey[c]] = "SUPERSEDED"]
  /\ supersedes' = [supersedes EXCEPT ![k] = ckey[c]]
  /\ cnew' = [cnew EXCEPT ![c] = k]
  /\ CallTo(c, "audit")
  /\ UNCHANGED <<serverVars, adminVars, held, cop, ckey, cseen>>

(* GatewayService.rotate, first transaction: the new key is inserted in    *)
(* PENDING_ROTATION and the signing key stays as it is.                    *)
Rotate(c, k) ==
  /\ cpc[c] = "rotate"
  /\ Issued(k, "PENDING_ROTATION", ckey[c])
  /\ cnew' = [cnew EXCEPT ![c] = k]
  /\ CallTo(c, "audit")
  /\ UNCHANGED <<serverVars, adminVars, held, cop, ckey, cseen>>

(* Second transaction of rotate: the audit row.                            *)
RotateAudit(c) ==
  /\ cpc[c] = "audit"
  /\ CallTo(c, "reply")
  /\ UNCHANGED <<keyVars, serverVars, adminVars, held, cop, ckey, cseen, cnew>>

(* The secret travels in the signed answer, which may be lost.             *)
RotateReply(c) ==
  /\ cpc[c] = "reply"
  /\ held' \in {held, held \cup {cnew[c]}}
  /\ CallTo(c, "idle")
  /\ UNCHANGED <<keyVars, serverVars, adminVars, cop, ckey, cseen, cnew>>

(* A statement fails, the API restarts or the agent gives up.              *)
CallFail(c) ==
  /\ cpc[c] # "idle"
  /\ CallTo(c, "idle")
  /\ UNCHANGED <<keyVars, serverVars, adminVars, held, cop, ckey, cseen, cnew>>

------------------------------------------------------------------------------
(* Dashboard requests.                                                     *)

AdminTo(a, step) == apc' = [apc EXCEPT ![a] = step]

(* POST credentials and POST build start by checking that the server is    *)
(* not deleted (404); build also wants a current licence (409).            *)
StartIssue(a) ==
  /\ apc[a] = "idle" /\ ~deleted
  /\ AdminTo(a, "findAgent")
  /\ UNCHANGED <<keyVars, serverVars, callVars, held, anew>>

(* SELECT of the agents row, then INSERT if it was missing; the INSERT of  *)
(* a loser hits agents_server_key (500).                                   *)
FindAgent(a) ==
  /\ apc[a] = "findAgent"
  /\ AdminTo(a, IF agentRow THEN "revoke" ELSE "insertAgent")
  /\ UNCHANGED <<keyVars, serverVars, callVars, held, anew>>

InsertAgent(a) ==
  /\ apc[a] = "insertAgent"
  /\ agentRow' = TRUE
  /\ AdminTo(a, IF agentRow THEN "idle" ELSE "revoke")
  /\ UNCHANGED <<keyVars, deleted, state, callVars, held, anew>>

RevokePrevious(a) ==
  /\ apc[a] = "revoke"
  /\ RevokeAll
  /\ AdminTo(a, "issue")
  /\ UNCHANGED <<supersedes, serverVars, callVars, held, anew>>

(* The key is issued in a transaction of its own, after the revocation's.  *)
IssueActive(a, k) ==
  /\ apc[a] = "issue"
  /\ Issued(k, "ACTIVE", NoKey) /\ IndexAllows(status')
  /\ anew' = [anew EXCEPT ![a] = k]
  /\ AdminTo(a, "reply")
  /\ UNCHANGED <<serverVars, callVars, held>>

(* The operator installs the secret on the game server, or loses the page. *)
IssueReply(a) ==
  /\ apc[a] = "reply"
  /\ held' \in {held, held \cup {anew[a]}}
  /\ AdminTo(a, "idle")
  /\ UNCHANGED <<keyVars, serverVars, callVars, anew>>

(* A statement fails (the index's refusal included) or the API restarts.   *)
IssueFail(a) ==
  /\ apc[a] # "idle"
  /\ AdminTo(a, "idle")
  /\ UNCHANGED <<keyVars, serverVars, callVars, held, anew>>

(* DELETE /api/servers/:id/credentials/:keyId, and CredentialStore.revoke. *)
RevokeKey(k) ==
  /\ status[k] \notin {"none", "REVOKED"}
  /\ status' = [status EXCEPT ![k] = "REVOKED"]
  /\ UNCHANGED <<supersedes, serverVars, callVars, adminVars, held>>

(* DELETE /api/servers/:id: one transaction marks the server deleted and   *)
(* offline, and revokes every key it sees.                                 *)
DeleteServer ==
  /\ ~deleted
  /\ deleted' = TRUE
  /\ state' = "OFFLINE"
  /\ RevokeAll
  /\ UNCHANGED <<supersedes, agentRow, callVars, adminVars, held>>

CallStep(c) ==
  \/ \E op \in {"handshake", "rotate"}, k \in Keys : Send(c, op, k)
  \/ Authenticate(c)
  \/ Handshake(c)
  \/ CommitRotation(c)
  \/ \E k \in Keys : Rotate(c, k)
  \/ RotateAudit(c)
  \/ RotateReply(c)
  \/ CallFail(c)

AdminStep(a) ==
  \/ StartIssue(a)
  \/ FindAgent(a)
  \/ InsertAgent(a)
  \/ RevokePrevious(a)
  \/ \E k \in Keys : IssueActive(a, k)
  \/ IssueReply(a)
  \/ IssueFail(a)

Next ==
  \/ \E c \in Calls : CallStep(c)
  \/ \E a \in Admins : AdminStep(a)
  \/ \E k \in Keys : RevokeKey(k)
  \/ DeleteServer

Spec == Init /\ [][Next]_vars

------------------------------------------------------------------------------
(* Properties.                                                             *)

(* A deleted server stays offline even when a handshake authenticated      *)
(* before the deletion finishes after it (service.ts:112-139).             *)
DeletedStaysOffline == deleted => state = "OFFLINE"

(* A key is retired by rotation only for a successor of its own whose      *)
(* secret the agent has received and which has been promoted, whatever     *)
(* rotations that lost their answer and regenerations went on meanwhile:   *)
(* the window is never closed too early (credentials.ts:158-192, README    *)
(* point 6).                                                               *)
SupersededHasHeir ==
  \A k \in Keys : status[k] = "SUPERSEDED" =>
    \E j \in held : /\ supersedes[j] = k
                    /\ status[j] \in {"ACTIVE", "SUPERSEDED", "REVOKED"}

(* Only a revocation takes the agent's last usable key: no rotation, lost  *)
(* answer, retry or half-done request locks it out (README point 6).       *)
RotationNeverLocksOut ==
  [][CanSign /\ ~CanSign' =>
       \E k \in held : Usable(k) /\ status'[k] = "REVOKED"]_vars

(* A key that stopped being usable never works again: neither a delayed    *)
(* handshake nor a later rotation brings it back (credentials.ts:194-197). *)
DeadKeysStayDead ==
  [][\A k \in Keys : status[k] \in {"SUPERSEDED", "REVOKED"} => ~Usable(k)']_vars

(* 0001_init.sql:227: at most two keys are usable at once, for the time of *)
(* a rotation.                                                             *)
AtMostTwoUsable == Cardinality(UsableKeys) <= 2

(* routes.ts:928-929: an agent still running on a deleted server is no     *)
(* longer accepted.                                                        *)
DeletedServerRefusesAgent == deleted => UsableKeys = {}

(* routes.ts:985-987: when an operator regenerates a key, the previous     *)
(* ones have stopped working.                                              *)
RegenerationCutsOff ==
  [][\A a \in Admins :
       apc[a] = "issue" /\ apc'[a] = "reply" => UsableKeys' = {anew'[a]}]_vars
==============================================================================

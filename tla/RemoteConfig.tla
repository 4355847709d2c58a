----------------------------- MODULE RemoteConfig -----------------------------
(***************************************************************************)
(* How one server's configuration reaches its agent: the dashboard writes  *)
(* the remote configuration and the protection settings and raises         *)
(* config_version; the agent learns the version by heartbeat and fetches   *)
(* the document when it has another (api/routes.ts; agent-gateway/         *)
(* service.ts, heartbeat and config).  The licence travels in the document *)
(* without raising the version.  The anticheat settings, kept apart, do    *)
(* not travel in it.                                                       *)
(*                                                                         *)
(* The document is read by three statements, each of which sees what is    *)
(* committed when it runs.  The agent is not in the repository: it is      *)
(* taken to do what the comments of the gateway expect of it.              *)
(***************************************************************************)
EXTENDS Integers, FiniteSets

CONSTANTS
  Protections,  \* identifiers of PROTECTION_CATALOG
  Choices,      \* what a protection can be set to (enabled and mode)
  Default,      \* the catalogue's choice
  Remotes,      \* remote configurations remoteConfigSchema accepts
  Licences,     \* licence tokens
  Requests,     \* dashboard requests in flight
  Free,         \* a row no transaction has written
  None,         \* absence of a stored choice, licence or remote configuration
  MaxVersion    \* bound: config_version, past its first value

ASSUME RemoteConfigAssumption ==
  /\ Default \in Choices /\ None \notin Choices \cup Remotes \cup Licences
  /\ Free \notin Requests /\ MaxVersion \in Nat

VARIABLES
  version,    \* servers.config_version, from 0
  remote,     \* servers.remote_config
  licence,    \* licenses.token
  setting,    \* server_protection_settings
  lock,       \* the transaction that has written each setting, or Free
  req,        \* PUT protection-settings in flight
  agent,      \* what the agent runs with
  beat,       \* version in the heartbeat reply on its way, -1 without one
  fetch,      \* the agent's GET of the document
  licensedAt  \* history: the version when the licence last changed

server     == <<version, remote, licence, setting, licensedAt>>
configVars == <<server, lock, req, agent, beat, fetch>>

Documents == [version : Nat, remote : Remotes \cup {None},
              licence : Licences \cup {None}, setting : [Protections -> Choices]]

Fetching == {"idle", "ask", "licence", "setting", "reply"}

ConfigTypeOK ==
  /\ version \in Nat /\ licensedAt \in Nat
  /\ remote \in Remotes \cup {None} /\ licence \in Licences \cup {None}
  /\ setting \in [Protections -> Choices \cup {None}]
  /\ lock \in [Protections -> Requests \cup {Free}]
  /\ req \in [Requests -> [pc : {"idle", "write"}, todo : SUBSET Protections,
                           done : SUBSET Protections, choice : Choices]]
  /\ agent \in Documents
  /\ beat \in Nat \cup {-1}
  /\ fetch \in [pc : Fetching, doc : Documents]

Idle == [pc |-> "idle", todo |-> {}, done |-> {}, choice |-> Default]

Blank == [version |-> 0, remote |-> None, licence |-> None,
          setting |-> [p \in Protections |-> Default]]

NoFetch == [pc |-> "idle", doc |-> Blank]

ConfigInit ==
  /\ version = 0 /\ remote = None /\ licence = None /\ licensedAt = 0
  /\ setting = [p \in Protections |-> None]
  /\ lock = [p \in Protections |-> Free]
  /\ req = [r \in Requests |-> Idle]
  /\ agent = Blank /\ beat = -1 /\ fetch = NoFetch

(* The catalogue's choices under those stored, as the document and the     *)
(* dashboard show them.                                                    *)
Effective == [p \in Protections |-> IF setting[p] = None THEN Default ELSE setting[p]]

------------------------------------------------------------------------------
(* The dashboard.                                                          *)

Room == version + Cardinality({r \in Requests : req[r].pc # "idle"}) < MaxVersion  \* bound

(* PUT /api/servers/:id/configuration.                                     *)
PutConfiguration(x) ==
  /\ Room
  /\ remote' = x /\ version' = version + 1
  /\ UNCHANGED <<licence, setting, licensedAt, lock, req, agent, beat, fetch>>

(* PUT /api/servers/:id/protection-settings; identifiers the catalogue     *)
(* does not know are dropped, which may leave none.                        *)
PutSettings(r, ps, c) ==
  /\ req[r].pc = "idle" /\ Room
  /\ req' = [req EXCEPT ![r] = [pc |-> "write", todo |-> ps, done |-> {}, choice |-> c]]
  /\ UNCHANGED <<server, lock, agent, beat, fetch>>

(* One upsert per protection, in the order the body gives.                 *)
WriteSetting(r, p) ==
  /\ req[r].pc = "write" /\ p \in req[r].todo /\ lock[p] = Free
  /\ lock' = [lock EXCEPT ![p] = r]
  /\ req' = [req EXCEPT ![r].todo = @ \ {p}, ![r].done = @ \cup {p}]
  /\ UNCHANGED <<server, agent, beat, fetch>>

(* COMMIT or ROLLBACK.                                                     *)
Released(r) == [p \in Protections |-> IF lock[p] = r THEN Free ELSE lock[p]]

(* Faulty variant: the version is not raised.                              *)
CommitSilently(r) ==
  /\ req[r].pc = "write" /\ req[r].todo = {}
  /\ setting' = [p \in Protections |-> IF p \in req[r].done THEN req[r].choice ELSE setting[p]]
  /\ lock' = Released(r) /\ req' = [req EXCEPT ![r] = Idle]
  /\ UNCHANGED <<version, remote, licence, licensedAt, agent, beat, fetch>>

(* Faulty variant: a PUT that changes nothing never ends its transaction.  *)
CommitChanges(r) ==
  /\ req[r].pc = "write" /\ req[r].todo = {} /\ req[r].done # {}
  /\ setting' = [p \in Protections |-> IF p \in req[r].done THEN req[r].choice ELSE setting[p]]
  /\ version' = version + 1
  /\ lock' = Released(r) /\ req' = [req EXCEPT ![r] = Idle]
  /\ UNCHANGED <<remote, licence, licensedAt, agent, beat, fetch>>

(* The version is raised, in the same transaction, and COMMIT.             *)
CommitSettings(r) ==
  /\ req[r].pc = "write" /\ req[r].todo = {}
  /\ setting' = [p \in Protections |-> IF p \in req[r].done THEN req[r].choice ELSE setting[p]]
  /\ version' = version + 1
  /\ lock' = Released(r) /\ req' = [req EXCEPT ![r] = Idle]
  /\ UNCHANGED <<remote, licence, licensedAt, agent, beat, fetch>>

(* A statement fails, or the API restarts.                                 *)
Fail(r) ==
  /\ req[r].pc # "idle"
  /\ lock' = Released(r) /\ req' = [req EXCEPT ![r] = Idle]
  /\ UNCHANGED <<server, agent, beat, fetch>>

Stuck(r) == req[r].todo # {} /\ \A p \in req[r].todo : lock[p] \notin {r, Free}

(* PostgreSQL ends one of two transactions that wait for each other.       *)
BreakDeadlock(r) ==
  /\ Stuck(r) /\ \E q \in Requests \ {r} : Stuck(q)
  /\ Fail(r)

(* A licence is issued, replaced or activated.                             *)
License(t) ==
  /\ t # licence /\ licence' = t /\ licensedAt' = version
  /\ UNCHANGED <<version, remote, setting, lock, req, agent, beat, fetch>>

------------------------------------------------------------------------------
(* The agent.                                                              *)

(* A heartbeat: the UPDATE returns config_version, and the reply may be    *)
(* lost on its way.                                                        *)
Heartbeat ==
  /\ beat = -1 /\ beat' = version
  /\ UNCHANGED <<server, lock, req, agent, fetch>>

LoseBeat ==
  /\ beat # -1 /\ beat' = -1
  /\ UNCHANGED <<server, lock, req, agent, fetch>>

(* The agent asks for the document when the version is not the one it has. *)
ReceiveBeat ==
  /\ beat # -1 /\ beat' = -1
  /\ fetch' = IF fetch.pc = "idle" /\ beat # agent.version
              THEN [NoFetch EXCEPT !.pc = "ask"] ELSE fetch
  /\ UNCHANGED <<server, lock, req, agent>>

(* GET /v1/agents/config: the servers row, ...                             *)
ReadVersion ==
  /\ fetch.pc = "ask"
  /\ fetch' = [pc |-> "licence",
               doc |-> [fetch.doc EXCEPT !.version = version, !.remote = remote]]
  /\ UNCHANGED <<server, lock, req, agent, beat>>

(* Faulty variant: a licence once delivered is taken from a cache.         *)
ReadLicenceCached ==
  /\ fetch.pc = "licence"
  /\ fetch' = [pc |-> "setting", doc |-> [fetch.doc EXCEPT !.licence =
                 IF agent.licence # None THEN agent.licence ELSE licence]]
  /\ UNCHANGED <<server, lock, req, agent, beat>>

(* ... the licence, ...                                                    *)
ReadLicence ==
  /\ fetch.pc = "licence"
  /\ fetch' = [pc |-> "setting", doc |-> [fetch.doc EXCEPT !.licence = licence]]
  /\ UNCHANGED <<server, lock, req, agent, beat>>

(* Faulty variant: the version given is that of the last statement.        *)
ReadSettingsAndVersion ==
  /\ fetch.pc = "setting"
  /\ fetch' = [pc |-> "reply",
               doc |-> [fetch.doc EXCEPT !.setting = Effective, !.version = version]]
  /\ UNCHANGED <<server, lock, req, agent, beat>>

(* ... and the settings.                                                   *)
ReadSettings ==
  /\ fetch.pc = "setting"
  /\ fetch' = [pc |-> "reply", doc |-> [fetch.doc EXCEPT !.setting = Effective]]
  /\ UNCHANGED <<server, lock, req, agent, beat>>

(* The agent takes the document as a whole.                                *)
Deliver ==
  /\ fetch.pc = "reply"
  /\ agent' = fetch.doc /\ fetch' = NoFetch
  /\ UNCHANGED <<server, lock, req, beat>>

(* The request, its transaction or its reply is lost, or the agent gives   *)
(* up waiting: it keeps what it has.                                       *)
LoseFetch ==
  /\ fetch.pc # "idle" /\ fetch' = NoFetch
  /\ UNCHANGED <<server, lock, req, agent, beat>>

AgentStep ==
  \/ Heartbeat \/ LoseBeat \/ ReceiveBeat \/ ReadVersion \/ ReadLicence
  \/ ReadSettings \/ Deliver \/ LoseFetch

ConfigNext ==
  \/ \E x \in Remotes : PutConfiguration(x)
  \/ \E t \in Licences : License(t)
  \/ \E r \in Requests :
       \/ \E ps \in SUBSET Protections, c \in Choices : PutSettings(r, ps, c)
       \/ \E p \in Protections : WriteSetting(r, p)
       \/ CommitSettings(r) \/ BreakDeadlock(r) \/ Fail(r)
  \/ AgentStep

ConfigSpec == ConfigInit /\ [][ConfigNext]_configVars

(* The agent keeps sending heartbeats and the database runs what it can;   *)
(* the network may lose a message any number of times but not for ever.    *)
ConfigFairness ==
  /\ WF_configVars(Heartbeat) /\ SF_configVars(ReceiveBeat) /\ SF_configVars(ReadVersion)
  /\ SF_configVars(ReadLicence) /\ SF_configVars(ReadSettings) /\ SF_configVars(Deliver)
  /\ \A r \in Requests :
       /\ WF_configVars(CommitSettings(r)) /\ WF_configVars(BreakDeadlock(r))
       /\ SF_configVars(\E p \in Protections : WriteSetting(r, p))

ConfigFairSpec == ConfigSpec /\ ConfigFairness

------------------------------------------------------------------------------
(* Properties.                                                             *)

(* An agent whose version is the server's runs with exactly what the       *)
(* server holds, although the document is read piece by piece while        *)
(* settings are being written (service.ts:458-520, routes.ts:2031-2049).   *)
CurrentAgentIsRight ==
  agent.version = version => agent.remote = remote /\ agent.setting = Effective

(* A licence reaches the agent with the next version, not before           *)
(* (service.ts:485-489).                                                   *)
LicenceComesWithTheNextVersion == agent.version > licensedAt => agent.licence = licence

(* Once nobody changes the configuration any more, the agent comes to run  *)
(* with it, whatever messages were lost (routes.ts:1217-1218 and 2041).    *)
AgentCatchesUp == <>[](agent.remote = remote /\ agent.setting = Effective)

(* No PUT waits for ever, although two may write the same settings in      *)
(* opposite orders (routes.ts:2031-2041).                                  *)
EveryPutEnds == \A r \in Requests : req[r].pc # "idle" ~> req[r].pc = "idle"
==============================================================================

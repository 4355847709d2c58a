-------------------------------- MODULE Triage --------------------------------
(***************************************************************************)
(* What the team of one organization decides on what its servers report:   *)
(* alerts and their triage, incidents with their timeline and evidence     *)
(* level, proposed signatures, security rules and lockdown modes, and the  *)
(* audit log of these decisions (api/routes.ts; agent-gateway/service.ts,  *)
(* alerts).                                                                *)
(*                                                                         *)
(* A decision is committed in one transaction and written to the audit log *)
(* in the next; now() is the time at which a transaction began, not the    *)
(* time at which it wrote.                                                 *)
(***************************************************************************)
EXTENDS Integers, FiniteSets

CONSTANTS
  Alerts,      \* agent_alert_id: what the agent detected
  Category,    \* the category of each
  Severity,    \* and its severity
  Occurred,    \* and when it happened
  Rows,        \* rows of alerts that newId('al') can draw
  Incidents, Signatures, Rules, Servers,
  Given,       \* the statuses decisions may give, "same" for none
  Requests,    \* requests in flight
  Free,        \* a row no transaction has written
  NoAlert, NoIncident, NoThing, NoRow,   \* absence; NoRow: an id nobody has
  PageSize,    \* largest LIMIT of the alerts of an incident (200)
  MaxClock     \* bound: decisions begun

(* What a decision is about.                                               *)
Things == Incidents \cup Signatures \cup Rules \cup Servers

ASSUME TriageAssumption ==
  /\ DOMAIN Category = Alerts
  /\ Severity \in [Alerts -> {"INFO", "LOW", "MEDIUM", "HIGH", "CRITICAL"}]
  /\ Occurred \in [Alerts -> Nat]
  /\ IsFiniteSet(Rows)
  /\ NoAlert \notin Alerts /\ NoIncident \notin Incidents
  /\ NoThing \notin Things /\ NoRow \notin Rows /\ Free \notin Requests
  /\ Incidents \cap (Signatures \cup Rules \cup Servers) = {}
  /\ Signatures \cap (Rules \cup Servers) = {} /\ Rules \cap Servers = {}
  /\ PageSize \in Nat /\ MaxClock \in Nat

VARIABLES
  row,       \* alerts: the detection each row records and its incident
  lock,      \* the transaction that has written each row, or Free
  state,     \* status of each thing, "none" before it exists
  resolved,  \* incidents.resolved_at, 0 for NULL
  count,     \* incidents.alert_count
  event,     \* incident_events: the status event of the latest created_at
  audited,   \* audit_logs of the organization: the status the last entry on
             \* each thing gives it
  vendorLog, \* the same in the log of the platform admins' organization, which
             \* is another one: their reviews of signatures
  clock,     \* decisions begun: the order of their now()
  upset,     \* history: what has happened to which thing
  req        \* the requests

incidentVars == <<resolved, count, event>>
vars == <<row, lock, state, incidentVars, audited, vendorLog, clock, upset, req>>

Final == {"RESOLVED", "CLOSED"}

(* Lockdown modes of OneSync, and the one of a server nobody has set.      *)
Modes       == {"inactive", "relaxed", "strict"}
DefaultMode == "inactive"

(* The statuses a decision can give; "same" is a decision that gives none: *)
(* a comment, another title, another action of a rule.                     *)
Choices(x) ==
  Given \cap CASE x \in Incidents  -> {"OPEN", "INVESTIGATING", "MITIGATED", "same"} \cup Final
              [] x \in Signatures -> {"approved", "rejected"}
              [] x \in Rules      -> {"ACTIVE", "DISABLED", "DRAFT", "same"}
              [] OTHER            -> Modes

(* The status a thing is created with; a server is there from the start.   *)
First(x) == CASE x \in Incidents  -> "OPEN"
              [] x \in Signatures -> "pending"
              [] x \in Rules      -> "ACTIVE"
              [] OTHER            -> DefaultMode

Statuses(x) ==
  (Choices(x) \ {"same"}) \cup {First(x)} \cup (IF x \in Servers THEN {} ELSE {"none"})

(* What a request may give or tell, and an event tell.                     *)
Words == Given \cup {"OPEN", "pending", "ACTIVE", "same", "none"}

(* What may have happened to a thing: two transactions on it overlapped;   *)
(* the audit log missed a decision, or another began before its entry;     *)
(* alerts joined or left it.                                               *)
Records == {"overlap", "loose", "moved"} \X Things

(* A request: its step, what it decides on, the status it gives and the    *)
(* one its audit entry tells, its now(), the alerts it wants attached.     *)
Request ==
  [pc : {"idle", "attach", "write", "audit"}, on : Things \cup {NoThing},
   to : Words, says : Words, at : 0 .. MaxClock, asked : SUBSET (Rows \cup {NoRow})]

Idle == [pc |-> "idle", on |-> NoThing, to |-> "same", says |-> "same", at |-> 0,
         asked |-> {}]

(* Types, and the schema's incidents_resolved_consistency, which no PATCH  *)
(* may run into (0001_init.sql:263-264).                                   *)
TypeOK ==
  /\ row \in [Rows -> [alert : Alerts \cup {NoAlert}, inc : Incidents \cup {NoIncident}]]
  /\ lock \in [Rows -> Requests \cup {Free}]
  /\ DOMAIN state = Things /\ \A x \in Things : state[x] \in Statuses(x)
  /\ resolved \in [Incidents -> 0 .. MaxClock]
  /\ \A i \in Incidents : state[i] \in Final <=> resolved[i] # 0
  /\ count \in [Incidents -> Nat]
  /\ event \in [Incidents -> [at : 0 .. MaxClock, to : Words]]
  /\ DOMAIN audited = Things /\ \A x \in Things : audited[x] \in Statuses(x)
  /\ DOMAIN vendorLog = Signatures /\ \A x \in Signatures : vendorLog[x] \in Statuses(x)
  /\ clock \in 0 .. MaxClock
  /\ upset \subseteq Records
  /\ req \in [Requests -> Request]

Init ==
  /\ row = [r \in Rows |-> [alert |-> NoAlert, inc |-> NoIncident]]
  /\ lock = [r \in Rows |-> Free]
  /\ state = [x \in Things |-> IF x \in Servers THEN First(x) ELSE "none"]
  /\ resolved = [i \in Incidents |-> 0]
  /\ count = [i \in Incidents |-> 0]
  /\ event = [i \in Incidents |-> [at |-> 0, to |-> "none"]]
  /\ audited = state /\ vendorLog = [x \in Signatures |-> "none"]
  /\ clock = 0
  /\ upset = {}
  /\ req = [q \in Requests |-> Idle]

(* The alerts GET /api/alerts lists, those of an incident, and those an    *)
(* open transaction has written.                                           *)
Stored      == {r \in Rows : row[r].alert # NoAlert}
Attached(i) == {r \in Rows : row[r].inc = i}
Held(q)     == {r \in Rows : lock[r] = q}

------------------------------------------------------------------------------
(* Alerts.                                                                 *)

(* An alert of a payload is stored.  The unique index behind ON CONFLICT   *)
(* DO NOTHING holds created_at beside the agent's id, so an alert that is  *)
(* resent gets another row.                                                *)
Ingest(a, r) ==
  /\ row[r].alert = NoAlert
  /\ row' = [row EXCEPT ![r].alert = a]
  /\ UNCHANGED <<lock, state, incidentVars, audited, vendorLog, clock, upset, req>>

(* PATCH /api/alerts/:id, with an incident; the alert's own status, which  *)
(* it also sets, is left out.  alert_count stays.                          *)
Triage(r, i) ==
  /\ r \in Stored /\ lock[r] = Free
  /\ state[i] # "none"
  /\ row' = [row EXCEPT ![r].inc = i]
  /\ upset' = IF i = row[r].inc THEN upset
              ELSE upset \cup ({"moved"} \X ({row[r].inc, i} \ {NoIncident}))
  /\ UNCHANGED <<lock, state, incidentVars, audited, vendorLog, clock, req>>

------------------------------------------------------------------------------
(* Creation.                                                               *)

(* A transaction begins: now() is set.                                     *)
Begin(q, x, step, to, says, asked) ==
  /\ req[q].pc = "idle" /\ clock < MaxClock
  /\ clock' = clock + 1
  /\ req' = [req EXCEPT ![q] = [pc |-> step, on |-> x, to |-> to, says |-> says,
                                at |-> clock', asked |-> asked]]
  /\ upset' = upset \cup
       {<<IF req[p].pc = "audit" THEN "loose" ELSE "overlap", x>> :
          p \in {p \in Requests : req[p].on = x}}

(* It has committed; its audit entry is to come.                           *)
Committed(q) ==
  req' = [req EXCEPT ![q] = [Idle EXCEPT !.pc = "audit", !.on = req[q].on,
                                         !.says = req[q].says]]

(* One statement stores it; its unique index refuses a second one (409).   *)
Insert(q, x) ==
  /\ state[x] = "none"
  /\ Begin(q, x, "audit", First(x), First(x), {})
  /\ state' = [state EXCEPT ![x] = First(x)]
  /\ UNCHANGED <<row, lock, incidentVars, audited, vendorLog>>

(* POST /api/signatures and POST /api/security-rules.                      *)
Submit(q, x)     == x \in Signatures /\ Insert(q, x)
CreateRule(q, x) == x \in Rules /\ Insert(q, x)

(* POST /api/incidents, with alerts of the organization or ids it has not. *)
Create(q, i, asked) ==
  /\ state[i] = "none" /\ \A p \in Requests : req[p].on # i
  /\ asked \subseteq Stored \cup {NoRow}
  /\ Begin(q, i, "attach", "OPEN", "OPEN", asked)
  /\ UNCHANGED <<row, lock, state, incidentVars, audited, vendorLog>>

(* Its UPDATE takes the alerts one by one and waits for those another      *)
(* transaction has written.                                                *)
Attach(q, r) ==
  /\ req[q].pc = "attach" /\ r \in req[q].asked \ Held(q)
  /\ r # NoRow /\ lock[r] = Free
  /\ lock' = [lock EXCEPT ![r] = q]
  /\ UNCHANGED <<row, state, incidentVars, audited, vendorLog, clock, upset, req>>

(* rowCount of that UPDATE.                                                *)
AttachedCount(q) == Cardinality(Held(q))

(* alert_count is set and the transaction commits: alerts that were in     *)
(* another incident leave it, and its alert_count stays.                   *)
Open(q) ==
  LET i == req[q].on IN
  /\ req[q].pc = "attach" /\ req[q].asked \subseteq Held(q) \cup {NoRow}
  /\ row' = [r \in Rows |-> IF r \in Held(q) THEN [row[r] EXCEPT !.inc = i] ELSE row[r]]
  /\ lock' = [r \in Rows |-> IF r \in Held(q) THEN Free ELSE lock[r]]
  /\ state' = [state EXCEPT ![i] = "OPEN"]
  /\ count' = [count EXCEPT ![i] = AttachedCount(q)]
  /\ event' = [event EXCEPT ![i] = [at |-> req[q].at, to |-> "OPEN"]]
  /\ upset' = upset \cup ({"moved"} \X ({row[r].inc : r \in Held(q)} \ {NoIncident}))
  /\ Committed(q)
  /\ UNCHANGED <<resolved, audited, vendorLog, clock>>

------------------------------------------------------------------------------
(* Decisions.                                                              *)

(* The transaction of a decision begins.                                   *)
Decide(q, x, to) ==
  /\ state[x] # "none" /\ to \in Choices(x)
  /\ Begin(q, x, "write", to, to, {})
  /\ UNCHANGED <<row, lock, state, incidentVars, audited, vendorLog>>

(* POST /api/incidents/:id/comment.                                        *)
Comment(q, x) == x \in Incidents /\ Decide(q, x, "same")

(* PATCH /api/incidents/:id, POST /api/admin/signatures/:id/review, PATCH  *)
(* /api/security-rules/:id and PATCH /api/servers/:id/lockdown.            *)
Change(q, x, to)    == x \in Incidents /\ Decide(q, x, to)
Review(q, x, to)    == x \in Signatures /\ Decide(q, x, to)
PatchRule(q, x, to) == x \in Rules /\ Decide(q, x, to)
Lockdown(q, x, to)  == x \in Servers /\ Decide(q, x, to)

(* PUT /api/servers/:id/anticheat also writes the lockdown mode, inactive  *)
(* when the body has none; its audit entry does not give the mode.         *)
Configure(q, x, to) ==
  /\ x \in Servers /\ to \in Choices(x)
  /\ Begin(q, x, "write", to, "same", {})
  /\ UNCHANGED <<row, lock, state, incidentVars, audited, vendorLog>>

(* resolved_at after the UPDATE of an incident.                            *)
Dated(q) ==
  LET i == req[q].on IN
  CASE req[q].to = "same"                          -> resolved[i]
    [] req[q].to \in Final /\ resolved[i] # 0      -> resolved[i]
    [] req[q].to \in Final /\ resolved[i] = 0      -> req[q].at
    [] req[q].to \notin Final \cup {"same"}        -> 0

(* Faulty variant: reopening an incident leaves no event.                  *)
EventOnce(q) ==
  LET i == req[q].on IN
  IF req[q].to = "same" \/ req[q].at < event[i].at \/ req[q].to = "OPEN" THEN event[i]
  ELSE [at |-> req[q].at, to |-> req[q].to]

(* The status event is inserted with the transaction's now(): the timeline *)
(* shows it before one whose transaction began later, even if that one     *)
(* wrote first.                                                            *)
Event(q) ==
  LET i == req[q].on IN
  IF req[q].to = "same" \/ req[q].at < event[i].at THEN event[i]
  ELSE [at |-> req[q].at, to |-> req[q].to]

(* The UPDATE and COMMIT.                                                  *)
Write(q) ==
  LET x == req[q].on IN
  /\ req[q].pc = "write"
  /\ state' = IF req[q].to = "same" THEN state ELSE [state EXCEPT ![x] = req[q].to]
  /\ IF x \in Incidents
     THEN /\ resolved' = [resolved EXCEPT ![x] = Dated(q)]
          /\ event' = [event EXCEPT ![x] = Event(q)]
     ELSE UNCHANGED <<resolved, event>>
  /\ upset' = IF req[q].says = req[q].to THEN upset ELSE upset \cup {<<"loose", x>>}
  /\ Committed(q)
  /\ UNCHANGED <<row, lock, count, audited, vendorLog, clock>>

(* Whether a status is one that a platform admin's review gives.           *)
ByVendor(x, status) == x \in Signatures /\ status \notin {"none", "pending"}

(* audit(): an entry in a transaction of its own, under the organization   *)
(* of whoever decided, then the answer.                                    *)
Audit(q) ==
  LET x    == req[q].on
      says == req[q].says
  IN
  /\ req[q].pc = "audit"
  /\ IF ByVendor(x, says)
     THEN vendorLog' = [vendorLog EXCEPT ![x] = says] /\ UNCHANGED audited
     ELSE /\ audited' = IF says = "same" THEN audited ELSE [audited EXCEPT ![x] = says]
          /\ UNCHANGED vendorLog
  /\ req' = [req EXCEPT ![q] = Idle]
  /\ UNCHANGED <<row, lock, state, incidentVars, clock, upset>>

(* Faulty variant: the entry is written whatever happens to the decision.  *)
FailAudited(q) ==
  /\ req[q].pc \in {"attach", "write"}
  /\ lock' = [r \in Rows |-> IF r \in Held(q) THEN Free ELSE lock[r]]
  /\ Committed(q)
  /\ UNCHANGED <<row, state, incidentVars, audited, vendorLog, clock, upset>>

(* The API or its connection dies, or the database breaks a deadlock: an   *)
(* open transaction is rolled back, a committed decision stays without its *)
(* entry and is answered 500.                                              *)
Fail(q) ==
  /\ req[q].pc # "idle"
  /\ lock' = [r \in Rows |-> IF r \in Held(q) THEN Free ELSE lock[r]]
  /\ upset' = IF req[q].pc = "audit" THEN upset \cup {<<"loose", req[q].on>>}
              ELSE upset
  /\ req' = [req EXCEPT ![q] = Idle]
  /\ UNCHANGED <<row, state, incidentVars, audited, vendorLog, clock>>

RequestStep(q) ==
  \/ \E x \in Things :
       \/ Submit(q, x)
       \/ CreateRule(q, x)
       \/ Comment(q, x)
       \/ \E to \in Choices(x) :
            \/ Change(q, x, to)
            \/ Review(q, x, to)
            \/ PatchRule(q, x, to)
            \/ Lockdown(q, x, to)
            \/ Configure(q, x, to)
  \/ \E i \in Incidents : \E asked \in SUBSET (Rows \cup {NoRow}) : Create(q, i, asked)
  \/ \E r \in Rows : Attach(q, r)
  \/ Open(q)
  \/ Write(q)
  \/ Audit(q)
  \/ Fail(q)

Next ==
  \/ \E a \in Alerts, r \in Rows : Ingest(a, r)
  \/ \E r \in Rows, i \in Incidents : Triage(r, i)
  \/ \E q \in Requests : RequestStep(q)

Spec == Init /\ [][Next]_vars

------------------------------------------------------------------------------
(* The evidence level of an incident.                                      *)

(* The alerts its page may be sent: the earliest ones, limit at most.      *)
Pages(i, limit) ==
  {p \in SUBSET Attached(i) :
     /\ Cardinality(p) <= limit
     /\ p = Attached(i) \/ Cardinality(p) = limit
     /\ \A s \in p, r \in Attached(i) \ p :
          Occurred[row[s].alert] <= Occurred[row[r].alert]}

(* Two categories or more.                                                 *)
Corroborated(p) == \E s, t \in p : Category[row[s].alert] # Category[row[t].alert]

Severities(p) == {Severity[row[r].alert] : r \in p}

(* E0 to E4, from the categories and severities of the alerts sent.        *)
EvidenceLevel(p) ==
  CASE p = {}                                             -> 0
    [] Corroborated(p) /\ "CRITICAL" \in Severities(p)    -> 4
    [] Corroborated(p) /\ "CRITICAL" \notin Severities(p) -> 3
    [] ~Corroborated(p) /\ Severities(p) \cap {"HIGH", "CRITICAL"} # {} -> 2
    [] OTHER                                              -> 1
------------------------------------------------------------------------------
(* Properties.                                                             *)

(* As long as an incident keeps its alerts, and its page has room for all  *)
(* of them (LIMIT 200), the evidence level shown never goes down: a stored *)
(* alert is never rewritten, and no more alerts prove less                 *)
(* (routes.ts:1353-1373, 1283 and 1453-1469; service.ts:339-353).          *)
EvidenceOnlyGrows ==
  [][\A i \in Incidents :
       Attached(i) \subseteq Attached(i)' /\ Cardinality(Attached(i)') <= PageSize =>
         \A p \in Pages(i, PageSize) : \A n \in Pages(i, PageSize)' :
           EvidenceLevel(p) <= EvidenceLevel(n)']_vars

(* alert_count is the number of alerts an incident has, whatever requests  *)
(* compete for them, until triage or another incident moves one            *)
(* (routes.ts:1453-1469, 1283).                                            *)
CountsAttached ==
  \A i \in Incidents :
    <<"moved", i>> \notin upset => count[i] = Cardinality(Attached(i))

(* The last status on an incident's timeline is its status, unless two     *)
(* transactions on it overlapped: created_at is when they began            *)
(* (routes.ts:1492-1525).                                                  *)
TimelineTellsStatus ==
  \A i \in Incidents :
    <<"overlap", i>> \notin upset => event[i].to = state[i]

(* The status that the log to look in gives: the organization's own, and   *)
(* for a reviewed signature the vendor's, the own one ending with its      *)
(* submission.                                                             *)
Told(x) == IF ByVendor(x, state[x]) THEN vendorLog[x] ELSE audited[x]

(* Once its entries are written, the log to look in ends with the status a *)
(* thing has, unless decisions on it overlapped or an entry was lost or    *)
(* says nothing of it; and no entry tells what was rolled back             *)
(* (routes.ts:145-169, 1535, 3005, 3113, 3756).                            *)
TrailTellsStatus ==
  \A x \in Things :
    \/ {<<"overlap", x>>, <<"loose", x>>} \cap upset # {}
    \/ \E q \in Requests : req[q].pc = "audit" /\ req[q].on = x
    \/ Told(x) = state[x]

(* An incident that goes from one final status to another keeps the date   *)
(* of the first, in whatever order the requests began                      *)
(* (routes.ts:1502-1505).                                                  *)
ResolutionStands ==
  [][\A i \in Incidents :
       state[i] \in Final /\ state'[i] \in Final => resolved'[i] = resolved[i]]_vars
==============================================================================

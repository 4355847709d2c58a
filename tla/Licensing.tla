------------------------------ MODULE Licensing ------------------------------
(***************************************************************************)
(* The servers an organization may have and the licences on them: quota,   *)
(* generation and activation of keys, issue by the customer or the vendor, *)
(* revocation, and the verdict the anticheat core asks for online          *)
(* (api/routes.ts).                                                        *)
(*                                                                         *)
(* Counts and checks read what is committed; nothing locks what they read. *)
(* A request whose last statement writes one row is one step from that     *)
(* statement on, since it only has COMMIT left.                            *)
(***************************************************************************)
EXTENDS Integers, FiniteSets

CONSTANTS
  Orgs,
  Servers,   \* identifiers newId('srv') can draw
  Keys,      \* keys signLicense can sign, each its own binding and dates
  Prints,    \* server fingerprints
  Requests,  \* requests in flight
  None,      \* absence of an organization, key, fingerprint or server
  Own,       \* a token signed at the customer's request
  Granted,   \* a token signed at the vendor's (created_by tells them apart)
  Quota      \* servers.max, of the plan or of the organization

ASSUME LicensingAssumption ==
  /\ None \notin Orgs \cup Servers \cup Keys \cup Prints
  /\ {Own, Granted} \cap (Keys \cup {None}) = {} /\ Own # Granted
  /\ Quota \in Nat \ {0} /\ IsFiniteSet(Servers) /\ IsFiniteSet(Requests)

VARIABLES
  server,   \* servers: organization, logical deletion, fingerprint
  licence,  \* licences: token of each server's row and its revocation
  req,      \* the requests
  key,      \* keys: handed out, and whether their date has passed
  used      \* history: how many activations each key has had

vars == <<server, licence, req, key, used>>

Ages == {"none", "valid", "expired"}

Steps == {"idle", "insert", "pick", "afford", "bind"}

(* A request: its step and organization, the servers it counted against    *)
(* the quota, the key it activates, and the server it will bind the key to,*)
(* found or being created.                                                 *)
Request ==
  [pc : Steps, org : Orgs \cup {None}, counted : SUBSET Servers,
   key : Keys \cup {None}, to : Servers \cup {None}, creates : BOOLEAN]

Idle == [pc |-> "idle", org |-> None, counted |-> {}, key |-> None, to |-> None,
         creates |-> FALSE]

TypeOK ==
  /\ server \in [Servers -> [org : Orgs \cup {None}, deleted : BOOLEAN,
                             print : Prints \cup {None}]]
  /\ licence \in [Servers -> [token : Keys \cup {Own, Granted, None}, revoked : BOOLEAN]]
  /\ req \in [Requests -> Request]
  /\ key \in [Keys -> Ages]
  /\ used \in [Keys -> Nat]

Init ==
  /\ server = [s \in Servers |-> [org |-> None, deleted |-> FALSE, print |-> None]]
  /\ licence = [s \in Servers |-> [token |-> None, revoked |-> FALSE]]
  /\ req = [r \in Requests |-> Idle]
  /\ key = [k \in Keys |-> "none"] /\ used = [k \in Keys |-> 0]

Finish(r) == req' = [req EXCEPT ![r] = Idle]

Live(o)  == {s \in Servers : server[s].org = o /\ ~server[s].deleted}
Licensed == {s \in Servers : licence[s].token # None}

(* The servers whose licence is this key.                                  *)
Holders(k) == {s \in Servers : licence[s].token = k}

(* An identifier no server has and no request is about to give.            *)
Unborn(s) == server[s].org = None /\ \A q \in Requests : req[q].to # s

------------------------------------------------------------------------------
(* Servers.                                                                *)

(* Faulty variant: the quota lets one more server in.                      *)
CountPast(r, o) ==
  /\ req[r].pc = "idle" /\ Cardinality(Live(o)) <= Quota
  /\ req' = [req EXCEPT ![r] = [@ EXCEPT !.pc = "insert", !.org = o, !.counted = Live(o)]]
  /\ UNCHANGED <<server, licence, key, used>>

(* POST /api/servers: the count, and 402 when it reaches the quota.        *)
Count(r, o) ==
  /\ req[r].pc = "idle" /\ Cardinality(Live(o)) < Quota
  /\ req' = [req EXCEPT ![r] = [@ EXCEPT !.pc = "insert", !.org = o, !.counted = Live(o)]]
  /\ UNCHANGED <<server, licence, key, used>>

(* The INSERT, in the same transaction.                                    *)
Create(r, s) ==
  /\ req[r].pc = "insert" /\ Unborn(s)
  /\ server' = [server EXCEPT ![s].org = req[r].org]
  /\ Finish(r)
  /\ UNCHANGED <<licence, key, used>>

(* DELETE /api/servers/:id, which keeps the row and its licence.           *)
Delete(s) ==
  /\ server[s].org # None /\ ~server[s].deleted
  /\ server' = [server EXCEPT ![s].deleted = TRUE]
  /\ UNCHANGED <<licence, req, key, used>>

(* A heartbeat reports a fingerprint.                                      *)
Report(s, f) ==
  /\ server[s].org # None /\ ~server[s].deleted /\ server[s].print # f
  /\ server' = [server EXCEPT ![s].print = f]
  /\ UNCHANGED <<licence, req, key, used>>

------------------------------------------------------------------------------
(* Keys and POST /api/activate.                                            *)

(* POST /api/licenses/generate: a key is signed and given to whoever buys  *)
(* it; nothing of it is stored.                                            *)
Generate(k) ==
  /\ key[k] = "none" /\ key' = [key EXCEPT ![k] = "valid"]
  /\ UNCHANGED <<server, licence, req, used>>

(* Its date passes.                                                        *)
Expire(k) ==
  /\ key[k] = "valid" /\ key' = [key EXCEPT ![k] = "expired"]
  /\ UNCHANGED <<server, licence, req, used>>

(* What verifyLicenseKey lets through: signed, and its date still ahead.   *)
Accepted(k) == key[k] = "valid"

(* Faulty variant: the key's former use is not looked up.                  *)
CheckNothing(r, o, k) ==
  /\ req[r].pc = "idle" /\ Accepted(k)
  /\ req' = [req EXCEPT ![r] = [@ EXCEPT !.pc = "pick", !.org = o, !.key = k]]
  /\ UNCHANGED <<server, licence, key, used>>

(* A key some server's licence holds is refused (409), in a transaction of *)
(* its own; it is not verified again.                                      *)
Check(r, o, k) ==
  /\ req[r].pc = "idle" /\ Accepted(k) /\ Holders(k) = {}
  /\ req' = [req EXCEPT ![r] = [@ EXCEPT !.pc = "pick", !.org = o, !.key = k]]
  /\ UNCHANGED <<server, licence, key, used>>

(* A server of the organization without a licence is taken (the oldest in  *)
(* the code, any here).                                                    *)
Pick(r) ==
  LET bare == Live(req[r].org) \ Licensed IN
  /\ req[r].pc = "pick"
  /\ \/ \E s \in bare :
          req' = [req EXCEPT ![r] = [@ EXCEPT !.pc = "bind", !.to = s]]
     \/ bare = {} /\ req' = [req EXCEPT ![r] = [@ EXCEPT !.pc = "afford"]]
  /\ UNCHANGED <<server, licence, key, used>>

(* Without one, the next statement counts the servers: a new one is made   *)
(* within the quota, 402 otherwise. Its row is seen at COMMIT.             *)
Afford(r) ==
  LET o == req[r].org IN
  /\ req[r].pc = "afford"
  /\ \/ /\ Cardinality(Live(o)) < Quota
        /\ \E s \in Servers :
             /\ Unborn(s)
             /\ req' = [req EXCEPT ![r] = [@ EXCEPT !.pc = "bind", !.to = s, !.creates = TRUE,
                                                    !.counted = Live(o)]]
     \/ Cardinality(Live(o)) >= Quota /\ Finish(r)
  /\ UNCHANGED <<server, licence, key, used>>

(* INSERT INTO licenses: the primary key refuses a server that has got a   *)
(* licence since (500); the token is not unique.                           *)
Bind(r) ==
  LET s == req[r].to IN
  /\ req[r].pc = "bind"
  /\ IF s \in Licensed THEN UNCHANGED <<server, licence, key, used>>
     ELSE /\ licence' = [licence EXCEPT ![s].token = req[r].key]
          /\ used' = [used EXCEPT ![req[r].key] = @ + 1]
          /\ server' = IF req[r].creates THEN [server EXCEPT ![s].org = req[r].org] ELSE server
  /\ Finish(r)
  /\ UNCHANGED key

------------------------------------------------------------------------------
(* Issue, revocation, verdict.                                             *)

(* Faulty variant: the upsert also clears the revocation.                  *)
IssueClearing(s) ==
  /\ server[s].org # None /\ ~server[s].deleted
  /\ licence' = [licence EXCEPT ![s] = [token |-> Own, revoked |-> FALSE]]
  /\ UNCHANGED <<server, req, key, used>>

(* POST /api/servers/:id/license, by the customer: the upsert keeps        *)
(* revoked_at, and replaces whatever key the licence held.                 *)
Issue(s) ==
  /\ server[s].org # None /\ ~server[s].deleted
  /\ licence' = [licence EXCEPT ![s].token = Own]
  /\ UNCHANGED <<server, req, key, used>>

(* POST /api/admin/servers/:id/license, by the vendor: it clears it.       *)
AdminIssue(s) ==
  /\ server[s].org # None /\ ~server[s].deleted
  /\ licence' = [licence EXCEPT ![s] = [token |-> Granted, revoked |-> FALSE]]
  /\ UNCHANGED <<server, req, key, used>>

(* POST /api/admin/servers/:id/license/revoke and restore: 404 without a   *)
(* licence; a deleted server's is found.                                   *)
Revoke(s, off) ==
  /\ s \in Licensed
  /\ licence' = [licence EXCEPT ![s].revoked = off]
  /\ UNCHANGED <<server, req, key, used>>

(* The servers GET /api/license/verify joins with their licence; it reads  *)
(* one of them (LIMIT 1).                                                  *)
Bearers(f) ==
  {s \in Licensed : server[s].org # None /\ ~server[s].deleted /\ server[s].print = f}

(* The verdicts it may sign for a fingerprint.                             *)
Verdicts(f) ==
  IF Bearers(f) = {} THEN {"active"}
  ELSE {IF licence[s].revoked THEN "revoked" ELSE "active" : s \in Bearers(f)}

------------------------------------------------------------------------------
(* A statement fails, or the API restarts.                                 *)
Fail(r) ==
  /\ req[r].pc # "idle" /\ Finish(r)
  /\ UNCHANGED <<server, licence, key, used>>

Next ==
  \/ \E r \in Requests :
       \/ \E o \in Orgs : Count(r, o) \/ \E k \in Keys : Check(r, o, k)
       \/ \E s \in Servers : Create(r, s)
       \/ Pick(r) \/ Afford(r) \/ Bind(r) \/ Fail(r)
  \/ \E k \in Keys : Generate(k) \/ Expire(k)
  \/ \E s \in Servers :
       \/ Delete(s) \/ \E f \in Prints : Report(s, f)
       \/ Issue(s) \/ AdminIssue(s) \/ \E off \in BOOLEAN : Revoke(s, off)

Spec == Init /\ [][Next]_vars

------------------------------------------------------------------------------
(* Properties.                                                             *)

(* An organization grows past its quota only by a creation that counted    *)
(* its servers before another one was committed (routes.ts:872-897 and     *)
(* 3410-3433).                                                             *)
QuotaOnlyPassedByARace ==
  [][\A o \in Orgs :
       Cardinality(Live(o)') > Quota /\ Cardinality(Live(o)') > Cardinality(Live(o)) =>
         \E r \in Requests : /\ req[r].pc \in {"insert", "bind"} /\ req'[r] # req[r]
                             /\ req[r].org = o /\ Live(o) \ req[r].counted # {}]_vars

(* How far such races go: whatever is deleted and created meanwhile, each  *)
(* request in flight but one brings in one server too many at most         *)
(* (routes.ts:872-897 and 3410-3433).                                      *)
QuotaOvershootBounded ==
  \A o \in Orgs : Cardinality(Live(o)) <= Quota + Cardinality(Requests) - 1

(* A key is on no more licences at once than there are requests that could *)
(* have checked it before the first was written: the check and the INSERT  *)
(* are two transactions and the token is not unique, but a key some        *)
(* licence holds lets no further request in, over any number of            *)
(* activations, reissues and deletions (routes.ts:3373-3383 and 3439-3443).*)
KeyShareBounded == \A k \in Keys : Cardinality(Holders(k)) <= Cardinality(Requests)

(* The kill switch: once every licensed server of a fingerprint is         *)
(* revoked, the verdict turns active again only by the vendor's hand on    *)
(* one of them, when none bears the fingerprint any more, or when one that *)
(* is not revoked comes to bear it (routes.ts:3605, 3258-3266 and          *)
(* 3675-3691).                                                             *)
RevokedVerdictLasts ==
  [][\A f \in Prints : Verdicts(f) = {"revoked"} /\ "active" \in Verdicts(f)' =>
       \/ Bearers(f)' = {}
       \/ \E s \in Bearers(f)' \ Bearers(f) : ~licence'[s].revoked
       \/ \E s \in Bearers(f) : AdminIssue(s) \/ Revoke(s, FALSE)]_vars

(* routes.ts:873-874: two simultaneous creations do not pass the limit     *)
(* together.                                                               *)
QuotaHolds == \A o \in Orgs : Cardinality(Live(o)) <= Quota

(* routes.ts:3343-3345 and 3371-3372: a key serves once, and the same key  *)
(* does not activate two servers.                                          *)
KeyServesOnce == \A k \in Keys : used[k] <= 1
==============================================================================

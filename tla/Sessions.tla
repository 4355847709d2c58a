------------------------------- MODULE Sessions -------------------------------
(***************************************************************************)
(* The dashboard account of one email address: registration, login by      *)
(* password and by Discord, lockout, password reset and the sessions they  *)
(* open (auth/sessions.ts, /api/auth routes of api/routes.ts).             *)
(*                                                                         *)
(* A request is a sequence of statements; one outside a transaction        *)
(* commits at once.  A row written inside a transaction stays locked until *)
(* COMMIT, and another writer waits for it.  Nothing in the code enrols a  *)
(* second factor, so every session is born satisfied.                      *)
(***************************************************************************)
EXTENDS Integers, FiniteSets

CONSTANTS
  Identities,  \* Discord identities whose email is this address
  Tokens,      \* password reset links that can be drawn
  SessionIds,  \* sessions that can be opened
  Requests,    \* requests in flight
  Free,        \* a row no transaction has locked
  NoToken,     \* absence of a link
  MaxFailed,   \* MAX_FAILED_LOGINS
  MaxResets    \* bound: completed resets

ASSUME SessionsAssumption ==
  /\ MaxFailed \in Nat \ {0} /\ MaxResets \in Nat
  /\ {"none", "form"} \cap Identities = {}
  /\ Free \notin Requests /\ NoToken \notin Tokens

VARIABLES
  account,     \* users: who created it, its password's generation, the lockout
  linked,      \* discord_identities of the account
  token,       \* password_resets: state of each link
  session,     \* sessions: state of each, and whether it opened after the sweep
               \* of a reset still uncommitted
  userLock,    \* the transaction holding the users row (or inserting it)
  tokLock,     \* the transaction holding each link's row
  req          \* the requests

sessionsVars == <<account, linked, token, session, userLock, tokLock, req>>

Creators == Identities \cup {"form"}

Steps == {"idle", "refuse", "accept", "open", "insert", "create", "consume",
          "issue", "password", "sweep", "commit"}

(* A request: its step, who it creates an account for or logs in, the      *)
(* failures it read with the password, its link, and the sessions its      *)
(* reset has marked revoked.                                               *)
Request ==
  [pc : Steps, who : Creators \cup {"none"}, read : 0..MaxFailed,
   link : Tokens \cup {NoToken}, swept : SUBSET SessionIds]

Idle == [pc |-> "idle", who |-> "none", read |-> 0, link |-> NoToken, swept |-> {}]

SessionsTypeOK ==
  /\ account \in [by : Creators \cup {"none"}, gen : 0..MaxResets,
                  failed : 0..MaxFailed, locked : BOOLEAN]
  /\ linked \subseteq Identities
  /\ token \in [Tokens -> {"none", "live", "expired", "consumed"}]
  /\ session \in [SessionIds -> [state : {"none", "live", "dead"}, late : BOOLEAN]]
  /\ userLock \in Requests \cup {Free}
  /\ tokLock \in [Tokens -> Requests \cup {Free}]
  /\ req \in [Requests -> Request]

SessionsInit ==
  /\ account = [by |-> "none", gen |-> 0, failed |-> 0, locked |-> FALSE]
  /\ linked = {}
  /\ token = [t \in Tokens |-> "none"]
  /\ session = [s \in SessionIds |-> [state |-> "none", late |-> FALSE]]
  /\ userLock = Free
  /\ tokLock = [t \in Tokens |-> Free]
  /\ req = [r \in Requests |-> Idle]

Exists == account.by # "none"

Start(r, step, w) ==
  req[r].pc = "idle" /\ req' = [req EXCEPT ![r].pc = step, ![r].who = w]
Goto(r, step) == req' = [req EXCEPT ![r].pc = step]
Finish(r)     == req' = [req EXCEPT ![r] = Idle]

Least(a, b) == IF a < b THEN a ELSE b

------------------------------------------------------------------------------
(* Login by password.                                                      *)

(* The SELECT of the account, unless it is locked (429), and the slow      *)
(* verification of the password against the hash read, right or wrong.     *)
(* Discord's accounts have a random password until a reset.                *)
Login(r, right) ==
  /\ Exists /\ ~account.locked
  /\ right => account.by = "form" \/ account.gen > 0
  /\ req[r].pc = "idle"
  /\ req' = [req EXCEPT ![r].pc = IF right THEN "accept" ELSE "refuse",
                        ![r].who = "form", ![r].read = account.failed]
  /\ UNCHANGED <<account, linked, token, session, userLock, tokLock>>

(* Faulty variant: the UPDATE clears the lock when it does not set it.     *)
RefuseUnlocks(r) ==
  /\ req[r].pc = "refuse" /\ userLock = Free
  /\ account' = [account EXCEPT !.failed = Least(req[r].read + 1, MaxFailed),
                                !.locked = req[r].read + 1 >= MaxFailed]
  /\ Finish(r)
  /\ UNCHANGED <<linked, token, session, userLock, tokLock>>

(* A wrong password: the counter becomes what was read plus one (kept at   *)
(* MaxFailed, past which only >= matters).                                 *)
Refuse(r) ==
  /\ req[r].pc = "refuse" /\ userLock = Free
  /\ account' = [account EXCEPT !.failed = Least(req[r].read + 1, MaxFailed),
                                !.locked = @ \/ req[r].read + 1 >= MaxFailed]
  /\ Finish(r)
  /\ UNCHANGED <<linked, token, session, userLock, tokLock>>

(* The right one: the counter and the lock are cleared.                    *)
Accept(r) ==
  /\ req[r].pc = "accept" /\ userLock = Free
  /\ account' = [account EXCEPT !.failed = 0, !.locked = FALSE]
  /\ Goto(r, "open")
  /\ UNCHANGED <<linked, token, session, userLock, tokLock>>

Sweeping == \E r \in Requests : req[r].pc = "commit"

(* createSession.                                                          *)
Open(r, s) ==
  /\ req[r].pc = "open" /\ session[s].state = "none"
  /\ session' = [session EXCEPT ![s] = [state |-> "live", late |-> Sweeping]]
  /\ Finish(r)
  /\ UNCHANGED <<account, linked, token, userLock, tokLock>>

(* Logout, DELETE /api/auth/sessions/:id, or twelve hours: an UPDATE waits *)
(* for a reset that has written the same row.                              *)
EndSession(s) ==
  /\ session[s].state = "live" /\ \A r \in Requests : s \notin req[r].swept
  /\ session' = [session EXCEPT ![s].state = "dead"]
  /\ UNCHANGED <<account, linked, token, userLock, tokLock, req>>

(* Fifteen minutes pass.                                                   *)
LockExpires ==
  /\ account.locked
  /\ account' = [account EXCEPT !.locked = FALSE]
  /\ UNCHANGED <<linked, token, session, userLock, tokLock, req>>

------------------------------------------------------------------------------
(* Creation of the account, by the form or from Discord.                   *)

(* register: the email is free when it is read.                            *)
Register(r) ==
  /\ ~Exists
  /\ Start(r, "insert", "form")
  /\ UNCHANGED <<account, linked, token, session, userLock, tokLock>>

(* loginWithDiscord: an identity already linked opens a session.           *)
Discord(r, d) ==
  /\ d \in linked
  /\ Start(r, "open", d)
  /\ UNCHANGED <<account, linked, token, session, userLock, tokLock>>

(* The email is verified and has an account: the identity is linked, the   *)
(* statement failing when the account has another one (already_linked).    *)
DiscordLink(r, d) ==
  /\ Exists /\ linked = {}
  /\ linked' = {d}
  /\ Start(r, "open", d)
  /\ UNCHANGED <<account, token, session, userLock, tokLock>>

(* Nobody has the email when it is read, verified or not.                  *)
DiscordProvision(r, d) ==
  /\ ~Exists
  /\ Start(r, "insert", d)
  /\ UNCHANGED <<account, linked, token, session, userLock, tokLock>>

(* Faulty variant: INSERT INTO users ... ON CONFLICT (email) DO UPDATE.    *)
InsertOrAdopt(r) ==
  /\ req[r].pc = "insert" /\ userLock = Free
  /\ userLock' = r /\ Goto(r, "create")
  /\ UNCHANGED <<account, linked, token, session, tokLock>>

(* INSERT INTO users: waits for another insertion of the same email, and   *)
(* fails once that has committed.                                          *)
Insert(r) ==
  /\ req[r].pc = "insert" /\ userLock = Free
  /\ IF Exists THEN Finish(r) /\ UNCHANGED userLock
     ELSE userLock' = r /\ Goto(r, "create")
  /\ UNCHANGED <<account, linked, token, session, tokLock>>

(* COMMIT of the account with its organization, OWNER membership, trial    *)
(* and, from Discord, its identity; only the latter opens a session.       *)
Create(r) ==
  /\ req[r].pc = "create"
  /\ account' = [account EXCEPT !.by = req[r].who]
  /\ linked' = linked \cup (Identities \cap {req[r].who})
  /\ IF req[r].who = "form" THEN Finish(r) ELSE Goto(r, "open")
  /\ userLock' = Free
  /\ UNCHANGED <<token, session, tokLock>>

------------------------------------------------------------------------------
(* Password reset.                                                         *)

(* createPasswordReset finds the account.                                  *)
Ask(r) ==
  /\ Exists
  /\ Start(r, "consume", "form")
  /\ UNCHANGED <<account, linked, token, session, userLock, tokLock>>

Unconsumed == {t \in Tokens : token[t] \in {"live", "expired"}}

(* The former link is consumed: waits for a reset under way with it.       *)
Consume(r) ==
  /\ req[r].pc = "consume" /\ \A t \in Unconsumed : tokLock[t] = Free
  /\ token' = [t \in Tokens |-> IF t \in Unconsumed THEN "consumed" ELSE token[t]]
  /\ Goto(r, "issue")
  /\ UNCHANGED <<account, linked, session, userLock, tokLock>>

(* The new one is inserted; password_resets_active_idx refuses it when     *)
(* another request has inserted its own in between.                        *)
Issue(r, t) ==
  /\ req[r].pc = "issue" /\ token[t] = "none"
  /\ \A u \in Unconsumed : tokLock[u] = Free
  /\ token' = IF Unconsumed = {} THEN [token EXCEPT ![t] = "live"] ELSE token
  /\ Finish(r)
  /\ UNCHANGED <<account, linked, session, userLock, tokLock>>

(* An hour passes.                                                         *)
TokenExpires(t) ==
  /\ token[t] = "live" /\ tokLock[t] = Free
  /\ token' = [token EXCEPT ![t] = "expired"]
  /\ UNCHANGED <<account, linked, session, userLock, tokLock, req>>

(* Faulty variant: the SELECT does not lock the link.                      *)
PresentUnlocked(r, t) ==
  /\ token[t] = "live" /\ req[r].pc = "idle"
  /\ req' = [req EXCEPT ![r].pc = "password", ![r].link = t]
  /\ UNCHANGED <<account, linked, token, session, userLock, tokLock>>

(* completePasswordReset: SELECT ... FOR UPDATE of an unconsumed link that *)
(* has not expired.  It is marked consumed until COMMIT shows it.          *)
Present(r, t) ==
  /\ token[t] = "live" /\ tokLock[t] = Free /\ req[r].pc = "idle"
  /\ tokLock' = [tokLock EXCEPT ![t] = r]
  /\ req' = [req EXCEPT ![r].pc = "password", ![r].link = t]
  /\ UNCHANGED <<account, linked, token, session, userLock>>

(* scripts/reset-admin-password.mjs does the same without a link.          *)
AdminReset(r) ==
  /\ Exists /\ Start(r, "password", "none")
  /\ UNCHANGED <<account, linked, token, session, userLock, tokLock>>

Live == {s \in SessionIds : session[s].state = "live"}

(* UPDATE users: the row stays locked until COMMIT.                        *)
Password(r) ==
  /\ req[r].pc = "password" /\ userLock = Free
  /\ account.gen < MaxResets  \* bound
  /\ userLock' = r /\ Goto(r, "sweep")
  /\ UNCHANGED <<account, linked, token, session, tokLock>>

(* Faulty variant: the reset revokes no session.                           *)
SweepNothing(r) ==
  /\ req[r].pc = "sweep" /\ Goto(r, "commit")
  /\ UNCHANGED <<account, linked, token, session, userLock, tokLock>>

(* UPDATE sessions: every session committed by now.                        *)
Sweep(r) ==
  /\ req[r].pc = "sweep"
  /\ req' = [req EXCEPT ![r].pc = "commit", ![r].swept = Live]
  /\ UNCHANGED <<account, linked, token, session, userLock, tokLock>>

Unlocked(r) == [t \in Tokens |-> IF tokLock[t] = r THEN Free ELSE tokLock[t]]

(* Only one reset at a time is past its UPDATE of the users row, so its    *)
(* end is the end of every sweep.                                          *)
Settled(dying) ==
  [s \in SessionIds |-> [state |-> IF s \in dying THEN "dead" ELSE session[s].state,
                         late |-> FALSE]]

CommitReset(r) ==
  /\ req[r].pc = "commit"
  /\ account' = [account EXCEPT !.gen = @ + 1, !.failed = 0, !.locked = FALSE]
  /\ token' = [t \in Tokens |-> IF t = req[r].link THEN "consumed" ELSE token[t]]
  /\ session' = Settled(req[r].swept)
  /\ userLock' = Free /\ tokLock' = Unlocked(r)
  /\ Finish(r)
  /\ UNCHANGED linked

------------------------------------------------------------------------------
(* A statement fails or the API restarts: the transaction rolls back, and  *)
(* what the request committed before stays.                                *)
Fail(r) ==
  /\ req[r].pc # "idle"
  /\ userLock' = IF userLock = r THEN Free ELSE userLock
  /\ tokLock' = Unlocked(r)
  /\ session' = IF req[r].pc = "commit" THEN Settled({}) ELSE session
  /\ Finish(r)
  /\ UNCHANGED <<account, linked, token>>

SessionsNext ==
  \/ \E r \in Requests :
       \/ \E right \in BOOLEAN : Login(r, right)
       \/ Refuse(r) \/ Accept(r)
       \/ \E s \in SessionIds : Open(r, s)
       \/ Register(r)
       \/ \E d \in Identities : Discord(r, d) \/ DiscordLink(r, d) \/ DiscordProvision(r, d)
       \/ Insert(r) \/ Create(r)
       \/ Ask(r) \/ Consume(r)
       \/ \E t \in Tokens : Issue(r, t) \/ Present(r, t)
       \/ AdminReset(r) \/ Password(r) \/ Sweep(r) \/ CommitReset(r)
       \/ Fail(r)
  \/ \E s \in SessionIds : EndSession(s)
  \/ \E t \in Tokens : TokenExpires(t)
  \/ LockExpires

SessionsSpec == SessionsInit /\ [][SessionsNext]_sessionsVars

------------------------------------------------------------------------------
(* Properties.                                                             *)

(* A reset leaves no session alive that was open when it swept, whatever   *)
(* opens or closes around it: one that survives opened after the sweep, by *)
(* a request that had already proved itself (sessions.ts:468-510).         *)
ResetEndsSessions ==
  [][account'.gen > account.gen =>
       \A s \in Live : session'[s].state = "live" => session[s].late]_sessionsVars

(* A link changes the password at most once, and never after a newer one   *)
(* replaced it, however presentations and requests overlap                 *)
(* (sessions.ts:451-456 and 472-473).                                      *)
SpentLinksChangeNothing ==
  [][\A r \in Requests, t \in Tokens :
       account'.gen > account.gen /\ req[r].link = t /\ req'[r] # req[r] =>
         token[t] # "consumed"]_sessionsVars

(* A lock ends by time, by a login whose password was read before it fell, *)
(* or by a reset; a failure that read the counter earlier does not lift it *)
(* (sessions.ts:223-247).                                                  *)
LockOutlivesFailures ==
  [][account.locked /\ ~account'.locked =>
       \/ UNCHANGED req
       \/ \E r \in Requests : req[r].pc \in {"accept", "commit"} /\ req'[r] # req[r]]_sessionsVars

(* Registrations and Discord callbacks that raced on the email leave the   *)
(* account to the first: the others neither take it over nor link their    *)
(* identity to it (sessions.ts:100-114 and 605-661).                       *)
AccountStaysTheirs ==
  [][Exists => /\ account'.by = account.by
               /\ linked' # linked => \E r \in Requests :
                    req[r].pc = "idle" /\ req'[r].who \in linked']_sessionsVars
==============================================================================

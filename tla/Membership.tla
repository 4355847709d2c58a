------------------------------ MODULE Membership ------------------------------
(***************************************************************************)
(* Who belongs to one organization and with which role (api/routes.ts,     *)
(* memberships and invitations; rbac/permissions.ts; api/middleware.ts).   *)
(*                                                                         *)
(* A dashboard request first reads its actor's role, in a transaction of   *)
(* its own, and acts later on what it read.  The transactions that write a *)
(* membership are modelled by statements: a row read FOR UPDATE or written *)
(* stays locked until the end of the transaction, a count reads what is    *)
(* committed (READ COMMITTED).                                             *)
(***************************************************************************)
EXTENDS Integers, FiniteSets

CONSTANTS
  Users,
  Codes,       \* invitation codes newOpaqueToken can draw
  Requests,    \* requests in flight
  Free,        \* a row no transaction has locked
  NoUser,      \* absence of a user
  NoCode,      \* absence of an invitation code
  Asked        \* bound: roles requests ask for

Roles == {"VIEWER", "STAFF", "ADMIN", "OWNER"}

ASSUME MembershipAssumption ==
  /\ Users # {} /\ NoUser \notin Users
  /\ Free \notin Requests
  /\ NoCode \notin Codes
  /\ Asked \subseteq Roles

VARIABLES
  member,      \* memberships: committed role of each user, "none" without a row
  lock,        \* the transaction holding the user's row, or Free
  online,      \* users with a live session on the organization
  invitation,  \* invitations: code, role and acceptance of each address
  invLock,     \* the transaction holding the address's invitation, or Free
  req,         \* the requests
  dead         \* history: codes accepted, replaced or revoked

vars == <<member, lock, online, invitation, invLock, req, dead>>

Rank == [x \in Roles \cup {"none"} |->
           CASE x = "none" -> -1 [] x = "VIEWER" -> 0 [] x = "STAFF" -> 1
             [] x = "ADMIN" -> 2 [] x = "OWNER" -> 3]

(* Roles granted member.manage, and those an invitation may offer.         *)
Managers == {"ADMIN", "OWNER"}
Offered  == Roles \ {"OWNER"}

Owners == {u \in Users : member[u] = "OWNER"}

Steps == {"idle", "role", "change", "decide", "commit", "sessions", "invite",
          "revoke", "open", "join", "admit", "session"}

(* A request: its step, what it does once its role is resolved, its actor  *)
(* and the role resolved, the user or address it is about, the role asked  *)
(* for ("none" for a removal), the code presented, the OWNERs it counted,  *)
(* and whether the row it names was deleted meanwhile.                     *)
Request ==
  [pc : Steps, op : {"change", "invite", "revoke", "none"}, actor : Users \cup {NoUser},
   role : Roles \cup {"none"}, target : Users \cup {NoUser}, wanted : Roles \cup {"none"},
   code : Codes \cup {NoCode}, counted : SUBSET Users, gone : BOOLEAN]

Idle == [pc |-> "idle", op |-> "none", actor |-> NoUser, role |-> "none",
         target |-> NoUser, wanted |-> "none", code |-> NoCode, counted |-> {},
         gone |-> FALSE]

NoInvitation == [code |-> NoCode, role |-> "VIEWER", accepted |-> FALSE, expired |-> FALSE]

TypeOK ==
  /\ member \in [Users -> Roles \cup {"none"}]
  /\ lock \in [Users -> Requests \cup {Free}]
  /\ online \subseteq Users
  /\ invitation \in [Users -> [code : Codes \cup {NoCode}, role : Offered,
                               accepted : BOOLEAN, expired : BOOLEAN]]
  /\ invLock \in [Users -> Requests \cup {Free}]
  /\ req \in [Requests -> Request]
  /\ dead \subseteq Codes

(* Any distribution of roles that registration, invitations and promotions *)
(* can have left, with an OWNER.                                           *)
Init ==
  /\ member \in {f \in [Users -> Asked \cup {"none"}] : \E u \in Users : f[u] = "OWNER"}
  /\ lock = [u \in Users |-> Free]
  /\ online = {u \in Users : member[u] # "none"}
  /\ invitation = [u \in Users |-> NoInvitation]
  /\ invLock = [u \in Users |-> Free]
  /\ req = [r \in Requests |-> Idle]
  /\ dead = {}

Goto(r, step) == req' = [req EXCEPT ![r].pc = step]
Finish(r)     == req' = [req EXCEPT ![r] = Idle]

Unlocked(r, locks) == [u \in Users |-> IF locks[u] = r THEN Free ELSE locks[u]]

------------------------------------------------------------------------------
(* The guard of every dashboard request.                                   *)

(* A request of user u, who has a live session: give member v role w (or   *)
(* remove v, w being "none"), invite v with role w, or revoke v's          *)
(* invitation.                                                             *)
Begin(r, o, u, v, w) ==
  /\ req[r].pc = "idle" /\ u \in online
  /\ \/ o = "change" /\ member[v] # "none"
     \/ o = "invite" /\ w \in Offered
     \/ o = "revoke" /\ w = "none" /\ invitation[v].code # NoCode
  /\ req' = [req EXCEPT ![r] =
       [Idle EXCEPT !.pc = "role", !.op = o, !.actor = u, !.target = v, !.wanted = w]]
  /\ UNCHANGED <<member, lock, online, invitation, invLock, dead>>

(* Guard.actor resolves the role, Guard.require tests member.manage.       *)
ResolveRole(r) ==
  /\ req[r].pc = "role"
  /\ LET x == member[req[r].actor] IN
       IF x \in Managers
       THEN req' = [req EXCEPT ![r].pc = req[r].op, ![r].role = x]
       ELSE Finish(r)
  /\ UNCHANGED <<member, lock, online, invitation, invLock, dead>>

------------------------------------------------------------------------------
(* PATCH and DELETE /api/memberships/:id.                                  *)

Missing(r) == member[req[r].target] = "none" \/ req[r].gone

(* Faulty variant: the SELECT does not lock the row.                       *)
ReadTarget(r) ==
  /\ req[r].pc = "change"
  /\ IF Missing(r) THEN Finish(r) ELSE Goto(r, "decide")
  /\ UNCHANGED <<member, lock, online, invitation, invLock, dead>>

(* SELECT ... FOR UPDATE of the target's row; 404 when it is gone.         *)
LockTarget(r) ==
  /\ req[r].pc = "change" /\ lock[req[r].target] = Free
  /\ IF Missing(r)
     THEN Finish(r) /\ UNCHANGED lock
     ELSE Goto(r, "decide") /\ lock' = [lock EXCEPT ![req[r].target] = r]
  /\ UNCHANGED <<member, online, invitation, invLock, dead>>

(* Faulty variant: the last OWNER may go.                                  *)
RefusedLate(r) ==
  LET old == member[req[r].target]
      new == req[r].wanted
  IN \/ req[r].actor = req[r].target /\ Rank[new] > Rank[old]
     \/ "OWNER" \in {old, new} /\ req[r].role # "OWNER"
     \/ old = "OWNER" /\ new # "OWNER" /\ Cardinality(Owners) < 1

(* checkRoleChange and checkMemberRemoval, a removal being a change to     *)
(* "none": nobody raises himself, only an OWNER makes or unmakes an OWNER, *)
(* and the last one stays.                                                 *)
Refused(r) ==
  LET old == member[req[r].target]
      new == req[r].wanted
  IN \/ req[r].actor = req[r].target /\ Rank[new] > Rank[old]
     \/ "OWNER" \in {old, new} /\ req[r].role # "OWNER"
     \/ old = "OWNER" /\ new # "OWNER" /\ Cardinality(Owners) <= 1

(* The count of OWNERs, and the refusal (403) or the UPDATE or DELETE of   *)
(* the locked row, which nobody sees before COMMIT.                        *)
Decide(r) ==
  /\ req[r].pc = "decide"
  /\ IF Refused(r)
     THEN Finish(r) /\ lock' = Unlocked(r, lock)
     ELSE /\ req' = [req EXCEPT ![r].pc = "commit", ![r].counted = Owners]
          /\ UNCHANGED lock
  /\ UNCHANGED <<member, online, invitation, invLock, dead>>

(* COMMIT; a removal leaves the other requests on the same membership      *)
(* without their row.                                                      *)
CommitChange(r) ==
  /\ req[r].pc = "commit"
  /\ member' = [member EXCEPT ![req[r].target] = req[r].wanted]
  /\ lock' = Unlocked(r, lock)
  /\ IF req[r].wanted # "none"
     THEN Finish(r)
     ELSE req' = [s \in Requests |->
            IF s = r THEN [Idle EXCEPT !.pc = "sessions", !.target = req[r].target]
            ELSE [req[s] EXCEPT !.gone = @ \/ (req[s].op = "change" /\ req[s].target = req[r].target)]]
  /\ UNCHANGED <<online, invitation, invLock, dead>>

(* After the removal, outside its transaction, the user's sessions on the  *)
(* organization are revoked.                                               *)
CutSessions(r) ==
  /\ req[r].pc = "sessions"
  /\ online' = online \ {req[r].target}
  /\ Finish(r)
  /\ UNCHANGED <<member, lock, invitation, invLock, dead>>

------------------------------------------------------------------------------
(* Invitations.                                                            *)

Killed(u) == dead \cup ({invitation[u].code} \ {NoCode})

(* POST /api/invitations: a new code replaces the address's former one.    *)
Invite(r, c) ==
  /\ req[r].pc = "invite" /\ invLock[req[r].target] = Free
  /\ c \notin dead /\ \A u \in Users : invitation[u].code # c
  /\ invitation' = [invitation EXCEPT ![req[r].target] =
       [code |-> c, role |-> req[r].wanted, accepted |-> FALSE, expired |-> FALSE]]
  /\ dead' = Killed(req[r].target)
  /\ Finish(r)
  /\ UNCHANGED <<member, lock, online, invLock>>

(* DELETE /api/invitations/:id, which spares an accepted one (404).        *)
RevokeInvitation(r) ==
  /\ req[r].pc = "revoke" /\ invLock[req[r].target] = Free
  /\ IF invitation[req[r].target].accepted \/ req[r].gone
     THEN Finish(r) /\ UNCHANGED <<invitation, dead>>
     ELSE /\ invitation' = [invitation EXCEPT ![req[r].target] = NoInvitation]
          /\ dead' = Killed(req[r].target)
          /\ req' = [s \in Requests |->
               IF s = r THEN Idle
               ELSE [req[s] EXCEPT !.gone = @ \/ (req[s].op = "revoke" /\ req[s].target = req[r].target)]]
  /\ UNCHANGED <<member, lock, online, invLock>>

(* Seven days pass.                                                        *)
Expire(u) ==
  /\ invitation[u].code # NoCode /\ ~invitation[u].accepted /\ ~invitation[u].expired
  /\ invitation' = [invitation EXCEPT ![u].expired = TRUE]
  /\ UNCHANGED <<member, lock, online, invLock, req, dead>>

(* POST /api/invitations/accept: anyone who knows a code presents it.      *)
Present(r, c) ==
  /\ req[r].pc = "idle"
  /\ c \in dead \/ \E u \in Users : invitation[u].code = c
  /\ req' = [req EXCEPT ![r].pc = "open", ![r].code = c]
  /\ UNCHANGED <<member, lock, online, invitation, invLock, dead>>

Admissible(u, c) ==
  invitation[u].code = c /\ ~invitation[u].accepted /\ ~invitation[u].expired

Opened(r, u) ==
  [req EXCEPT ![r] = [@ EXCEPT !.pc = "join", !.actor = u, !.target = u,
                               !.wanted = invitation[u].role]]

(* Faulty variant: the SELECT does not lock the invitation.                *)
ReadInvitation(r) ==
  /\ req[r].pc = "open"
  /\ \/ (\A u \in Users : ~Admissible(u, req[r].code)) /\ Finish(r)
     \/ \E u \in Users : Admissible(u, req[r].code) /\ req' = Opened(r, u)
  /\ UNCHANGED <<member, lock, online, invitation, invLock, dead>>

(* SELECT ... FOR UPDATE by token_hash: waits for a transaction holding    *)
(* the row, then examines what it committed.                               *)
LockInvitation(r) ==
  /\ req[r].pc = "open"
  /\ \A u \in Users : invitation[u].code = req[r].code => invLock[u] = Free
  /\ \/ /\ \A u \in Users : ~Admissible(u, req[r].code)
        /\ Finish(r) /\ UNCHANGED invLock
     \/ \E u \in Users :
          /\ Admissible(u, req[r].code)
          /\ invLock' = [invLock EXCEPT ![u] = r]
          /\ req' = Opened(r, u)
  /\ UNCHANGED <<member, lock, online, invitation, dead>>

(* INSERT INTO memberships ... ON CONFLICT DO UPDATE SET role.             *)
Join(r) ==
  /\ req[r].pc = "join" /\ lock[req[r].target] = Free
  /\ lock' = [lock EXCEPT ![req[r].target] = r]
  /\ Goto(r, "admit")
  /\ UNCHANGED <<member, online, invitation, invLock, dead>>

CommitAccept(r) ==
  /\ req[r].pc = "admit"
  /\ member' = [member EXCEPT ![req[r].target] = req[r].wanted]
  /\ invitation' = [invitation EXCEPT ![req[r].target].accepted = TRUE]
  /\ dead' = dead \cup {req[r].code}
  /\ lock' = Unlocked(r, lock)
  /\ invLock' = Unlocked(r, invLock)
  /\ req' = [req EXCEPT ![r] = [Idle EXCEPT !.pc = "session", !.target = req[r].target]]
  /\ UNCHANGED online

(* A session on the organization is opened for the new member.             *)
OpenSession(r) ==
  /\ req[r].pc = "session"
  /\ online' = online \cup {req[r].target}
  /\ Finish(r)
  /\ UNCHANGED <<member, lock, invitation, invLock, dead>>

------------------------------------------------------------------------------
(* createSession picks an organization the user belongs to.  A session     *)
(* that ends by logout or expiry is left out: its user asks nothing more.  *)
Login(u) ==
  /\ u \notin online /\ member[u] # "none"
  /\ online' = online \cup {u}
  /\ UNCHANGED <<member, lock, invitation, invLock, req, dead>>

(* A statement fails or the API restarts: the transaction rolls back, and  *)
(* what the request committed before stays.                                *)
Fail(r) ==
  /\ req[r].pc # "idle"
  /\ lock' = Unlocked(r, lock)
  /\ invLock' = Unlocked(r, invLock)
  /\ Finish(r)
  /\ UNCHANGED <<member, online, invitation, dead>>

Next ==
  \/ \E r \in Requests :
       \/ \E o \in {"change", "invite", "revoke"}, u, v \in Users, w \in Asked \cup {"none"} :
            Begin(r, o, u, v, w)
       \/ ResolveRole(r)
       \/ LockTarget(r)
       \/ Decide(r)
       \/ CommitChange(r)
       \/ CutSessions(r)
       \/ \E c \in Codes : Invite(r, c) \/ Present(r, c)
       \/ RevokeInvitation(r)
       \/ LockInvitation(r)
       \/ Join(r)
       \/ CommitAccept(r)
       \/ OpenSession(r)
       \/ Fail(r)
  \/ \E u \in Users : Expire(u) \/ Login(u)

Spec == Init /\ [][Next]_vars

------------------------------------------------------------------------------
(* Properties.                                                             *)

(* A role moves only by an invitation, or by the request of a user whose   *)
(* role, as resolved, manages members and is OWNER if OWNER is given or    *)
(* taken away; nobody raises himself.  This is about the role at COMMIT,   *)
(* however the checks interleave with other changes                        *)
(* (permissions.ts:186-229, routes.ts:519 and 577).                        *)
RoleMovesJustified ==
  [][\A u \in Users : member'[u] # member[u] =>
       \E r \in Requests :
         /\ req[r].target = u
         /\ \/ req[r].pc = "admit"
            \/ /\ req[r].pc = "commit" /\ req[r].role \in Managers
               /\ "OWNER" \in {member[u], member'[u]} => req[r].role = "OWNER"
               /\ Rank[member'[u]] > Rank[member[u]] => req[r].actor # u]_vars

(* A code admits once, and never after it was revoked or replaced, however *)
(* presentations and revocations overlap (routes.ts:766-810).              *)
DeadCodesAdmitNobody ==
  [][\A r \in Requests :
       req[r].pc = "admit" /\ req'[r].pc = "session" => req[r].code \notin dead]_vars

(* A role change or removal takes the last OWNER away only when the OWNERs *)
(* have changed since it counted them (routes.ts:525-542).                 *)
LastOwnerOnlyLostToARace ==
  [][Owners # {} /\ Owners' = {} =>
       \E r \in Requests : \/ req[r].pc = "admit"
                           \/ req[r].pc = "commit" /\ req[r].counted # Owners]_vars

(* routes.ts:531-533: two simultaneous demotions cannot leave the          *)
(* organization without an OWNER.                                          *)
ChangesKeepAnOwner ==
  [][\A r \in Requests :
       req[r].pc = "commit" /\ req'[r] # req[r] /\ Owners # {} => Owners' # {}]_vars
==============================================================================

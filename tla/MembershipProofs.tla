-------------------------- MODULE MembershipProofs --------------------------
(***************************************************************************)
(* Proofs about Membership.  The inductive invariant says what each step   *)
(* of a request may rely on: which rows its transaction holds, what it has *)
(* established about them, and that the code of an invitation still        *)
(* pending was never used up.                                              *)
(***************************************************************************)
EXTENDS Membership, FiniteSetTheorems, TLAPS

(* What a step knows of its request q.                                     *)
StepOK(q) ==
  /\ q.pc \notin {"idle", "open"} => q.target \in Users
  /\ q.pc \in {"role", "change", "decide", "commit", "invite", "revoke"} => q.actor \in Users
  /\ q.pc = "role" => q.op \in {"change", "invite", "revoke"}
  /\ q.pc = "role" /\ q.op = "invite" => q.wanted \in Offered
  /\ q.pc \in {"invite", "join", "admit"} => q.wanted \in Offered
  /\ q.pc \in {"change", "decide", "commit"} => q.role \in Managers
  /\ q.pc \in {"open", "join", "admit"} => q.code \in Codes

StepsOK == \A r \in Requests : StepOK(req[r])

(* The rows a transaction holds.                                           *)
RowsHeld ==
  \A r \in Requests :
    req[r].pc \in {"decide", "commit", "admit"} => lock[req[r].target] = r

InvitationsHeld ==
  \A r \in Requests : req[r].pc \in {"join", "admit"} =>
    /\ invLock[req[r].target] = r
    /\ invitation[req[r].target].code = req[r].code
    /\ ~invitation[req[r].target].accepted

(* Codes of pending invitations are unused, and no two addresses share one.*)
PendingAlive ==
  \A u \in Users : invitation[u].code # NoCode /\ ~invitation[u].accepted =>
    invitation[u].code \notin dead

CodesDistinct ==
  \A u, v \in Users : invitation[u].code = invitation[v].code =>
    u = v \/ invitation[u].code = NoCode

(* What a role change or removal checked, still true when it commits.      *)
Allowed(r) ==
  LET old == member[req[r].target]
      new == req[r].wanted
  IN /\ Rank[new] > Rank[old] => req[r].actor # req[r].target
     /\ "OWNER" \in {old, new} => req[r].role = "OWNER"
     /\ old = "OWNER" /\ new # "OWNER" => ~(Cardinality(req[r].counted) <= 1)

Checked == \A r \in Requests : req[r].pc = "commit" => Allowed(r)

MembershipInv ==
  /\ TypeOK /\ StepsOK /\ RowsHeld /\ InvitationsHeld
  /\ PendingAlive /\ CodesDistinct /\ Checked

LEMMA UnlockedFacts ==
  ASSUME NEW r \in Requests, NEW f \in [Users -> Requests \cup {Free}]
  PROVE  /\ Unlocked(r, f) \in [Users -> Requests \cup {Free}]
         /\ \A u \in Users, s \in Requests : f[u] = s /\ s # r => Unlocked(r, f)[u] = s
  BY MembershipAssumption DEF Unlocked

LEMMA IdleFacts == Idle \in Request /\ StepOK(Idle) /\ Idle.pc = "idle"
  BY DEF Idle, Request, Steps, Roles, StepOK

LEMMA StepTypes ==
  ASSUME NEW q \in Request, NEW x \in Steps, NEW b \in BOOLEAN
  PROVE  [q EXCEPT !.pc = x] \in Request /\ [q EXCEPT !.gone = b] \in Request
  BY DEF Request

(* How a request ends, and how it goes on to step x.                       *)
LEMMA FinishFacts ==
  ASSUME TypeOK, StepsOK, NEW r \in Requests, Finish(r)
  PROVE  /\ req' \in [Requests -> Request] /\ StepsOK'
         /\ req'[r] = Idle /\ \A s \in Requests \ {r} : req'[s] = req[s]
  BY IdleFacts DEF TypeOK, StepsOK, Finish

LEMMA GotoFacts ==
  ASSUME TypeOK, NEW r \in Requests, NEW x \in Steps, Goto(r, x)
  PROVE  /\ req' \in [Requests -> Request]
         /\ req'[r] = [req[r] EXCEPT !.pc = x] /\ req'[r].pc = x
         /\ req'[r].target = req[r].target /\ req'[r].wanted = req[r].wanted
         /\ req'[r].actor = req[r].actor /\ req'[r].role = req[r].role
         /\ req'[r].code = req[r].code /\ req'[r].op = req[r].op
         /\ \A s \in Requests \ {r} : req'[s] = req[s]
<1>1. req[r] \in Request
  BY DEF TypeOK
<1>2. req'[r] = [req[r] EXCEPT !.pc = x]
  BY DEF TypeOK, Goto
<1>3. req' \in [Requests -> Request]
  BY <1>1, StepTypes DEF TypeOK, Goto
<1>4. QED
  BY <1>1, <1>2, <1>3 DEF TypeOK, Goto, Request

LEMMA TypeInit == Init => TypeOK /\ StepsOK
<1> SUFFICES ASSUME Init PROVE TypeOK /\ StepsOK
  OBVIOUS
<1>1. member \in [Users -> Roles \cup {"none"}]
  BY MembershipAssumption DEF Init
<1>2. invitation \in [Users -> [code : Codes \cup {NoCode}, role : Offered,
                               accepted : BOOLEAN, expired : BOOLEAN]]
  BY DEF Init, NoInvitation, Offered, Roles
<1>3. req \in [Requests -> Request] /\ StepsOK
  BY IdleFacts DEF Init, StepsOK
<1>4. QED
  BY <1>1, <1>2, <1>3 DEF Init, TypeOK

(* The guard and the two SELECT ... FOR UPDATE.                            *)
LEMMA TypeGuard ==
  ASSUME TypeOK, StepsOK, NEW r \in Requests,
         \/ \E o \in {"change", "invite", "revoke"}, u, v \in Users, w \in Asked \cup {"none"} :
              Begin(r, o, u, v, w)
         \/ ResolveRole(r)
         \/ \E c \in Codes : Present(r, c)
  PROVE  TypeOK' /\ StepsOK'
<1> USE DEF TypeOK
<1>1. ASSUME NEW o \in {"change", "invite", "revoke"}, NEW u \in Users, NEW v \in Users,
             NEW w \in Asked \cup {"none"}, Begin(r, o, u, v, w)
      PROVE  TypeOK' /\ StepsOK'
  <2> DEFINE q == [Idle EXCEPT !.pc = "role", !.op = o, !.actor = u, !.target = v, !.wanted = w]
  <2>1. w \in Roles \cup {"none"}
    BY MembershipAssumption
  <2>2. o = "invite" => w \in Offered
    BY <1>1 DEF Begin
  <2>3. q \in Request /\ StepOK(q)
    BY <2>1, <2>2 DEF Idle, Request, Steps, StepOK, Roles
  <2>4. req' = [req EXCEPT ![r] = q]
    BY <1>1 DEF Begin
  <2>5. req' \in [Requests -> Request] /\ StepsOK'
    BY <2>3, <2>4 DEF StepsOK
  <2>6. QED  BY <1>1, <2>5 DEF Begin
<1>2. CASE ResolveRole(r)
  <2> DEFINE x == member[req[r].actor]
  <2>1. req[r] \in Request /\ StepOK(req[r]) /\ req[r].pc = "role"
    BY <1>2 DEF ResolveRole, StepsOK
  <2>2. CASE x \in Managers
    <3> DEFINE q == [req[r] EXCEPT !.pc = req[r].op, !.role = x]
    <3>1. req' = [req EXCEPT ![r] = q]
      BY <1>2, <2>2 DEF ResolveRole
    <3>2. q \in Request /\ StepOK(q)
      BY <2>1, <2>2 DEF StepOK, Request, Steps, Managers, Roles
    <3>3. req' \in [Requests -> Request] /\ StepsOK'
      BY <3>1, <3>2 DEF StepsOK
    <3>4. QED  BY <1>2, <3>3 DEF ResolveRole
  <2>3. CASE x \notin Managers
    BY <1>2, <2>3, FinishFacts DEF ResolveRole
  <2>4. QED  BY <2>2, <2>3
<1>3. ASSUME NEW c \in Codes, Present(r, c)
      PROVE  TypeOK' /\ StepsOK'
  <2> DEFINE q == [req[r] EXCEPT !.pc = "open", !.code = c]
  <2>0. req[r] \in Request
    OBVIOUS
  <2>1. q \in Request /\ StepOK(q)
    <3>1. q \in Request
      BY <2>0 DEF Request, Steps
    <3>2. q.pc = "open" /\ q.code = c
      BY <2>0 DEF Request
    <3>3. QED  BY <3>1, <3>2 DEF StepOK
  <2>2. req' = [req EXCEPT ![r] = q]
    BY <1>3 DEF Present
  <2>3. req' \in [Requests -> Request] /\ StepsOK'
    BY <2>1, <2>2 DEF StepsOK
  <2>4. QED  BY <1>3, <2>3 DEF Present
<1>4. QED
  BY <1>1, <1>2, <1>3

(* The transactions that change a membership.                              *)
LEMMA TypeChange ==
  ASSUME TypeOK, StepsOK, NEW r \in Requests,
         LockTarget(r) \/ Decide(r) \/ CommitChange(r) \/ CutSessions(r)
  PROVE  TypeOK' /\ StepsOK'
<1>0. req[r] \in Request /\ StepOK(req[r])
  BY DEF TypeOK, StepsOK
<1>1. CASE LockTarget(r)
  <2>1. req[r].target \in Users /\ req[r].actor \in Users /\ req[r].role \in Managers
    BY <1>0, <1>1 DEF LockTarget, StepOK
  <2>2. CASE Missing(r)
    BY <1>1, <2>2, FinishFacts DEF LockTarget, TypeOK
  <2>3. CASE ~Missing(r)
    <3>1. Goto(r, "decide") /\ "decide" \in Steps
      BY <1>1, <2>3 DEF LockTarget, Steps
    <3>2. StepsOK'
      <4>1. StepOK(req'[r])
        BY <2>1, <3>1, GotoFacts DEF StepOK
      <4>2. QED  BY <3>1, <4>1, GotoFacts DEF StepsOK
    <3>3. TypeOK'
      BY <1>1, <2>1, <2>3, <3>1, GotoFacts DEF LockTarget, TypeOK
    <3>4. QED  BY <3>2, <3>3
  <2>4. QED  BY <2>2, <2>3
<1>2. CASE Decide(r)
  <2>1. CASE Refused(r)
    BY <1>2, <2>1, FinishFacts, UnlockedFacts DEF Decide, TypeOK
  <2>2. CASE ~Refused(r)
    <3> DEFINE q == [req[r] EXCEPT !.pc = "commit", !.counted = Owners]
    <3>1. q \in Request
      BY <1>0 DEF Request, Steps, Owners
    <3>2. StepOK(q)
      BY <1>0, <1>2 DEF Decide, StepOK, Request
    <3>3. req' = [req EXCEPT ![r] = q]
      BY <1>2, <2>2 DEF Decide
    <3>4. req' \in [Requests -> Request] /\ StepsOK'
      BY <3>1, <3>2, <3>3 DEF StepsOK, TypeOK
    <3>5. QED  BY <1>2, <2>2, <3>4 DEF Decide, TypeOK
  <2>3. QED  BY <2>1, <2>2
<1>3. CASE CommitChange(r)
  <2>1. req[r].target \in Users /\ req[r].wanted \in Roles \cup {"none"}
    BY <1>0, <1>3 DEF CommitChange, StepOK, Request
  <2>2. member' \in [Users -> Roles \cup {"none"}] /\ lock' \in [Users -> Requests \cup {Free}]
    BY <1>3, <2>1, UnlockedFacts DEF CommitChange, TypeOK
  <2>3. req' \in [Requests -> Request] /\ StepsOK'
    <3>1. CASE req[r].wanted # "none"
      BY <1>3, <3>1, FinishFacts DEF CommitChange
    <3>2. CASE req[r].wanted = "none"
      <4> DEFINE q == [Idle EXCEPT !.pc = "sessions", !.target = req[r].target]
                 g(s) == req[s].gone \/ (req[s].op = "change" /\ req[s].target = req[r].target)
                 n(s) == [req[s] EXCEPT !.gone = g(s)]
      <4>1. q \in Request /\ StepOK(q)
        BY <2>1 DEF Idle, Request, Steps, StepOK, Roles
      <4>2. ASSUME NEW s \in Requests
            PROVE  n(s) \in Request /\ StepOK(n(s))
        <5>1. req[s] \in Request /\ StepOK(req[s])
          BY DEF TypeOK, StepsOK
        <5>2. g(s) \in BOOLEAN
          BY <5>1 DEF Request
        <5>3. n(s) \in Request
          BY <5>1, <5>2 DEF Request
        <5>4. StepOK(n(s))
          BY <5>1 DEF StepOK, Request
        <5>5. QED  BY <5>3, <5>4
      <4>3. req' = [s \in Requests |-> IF s = r THEN q ELSE n(s)]
        BY <1>3, <3>2 DEF CommitChange
      <4> HIDE DEF q, n
      <4>4. QED  BY <4>1, <4>2, <4>3 DEF StepsOK
    <3>3. QED  BY <3>1, <3>2
  <2>4. QED  BY <1>3, <2>2, <2>3 DEF CommitChange, TypeOK
<1>4. CASE CutSessions(r)
  BY <1>4, FinishFacts DEF CutSessions, TypeOK
<1>5. QED
  BY <1>1, <1>2, <1>3, <1>4

(* The transactions about invitations.                                     *)
LEMMA TypeInvite ==
  ASSUME TypeOK, StepsOK, NEW r \in Requests,
         \/ (\E c \in Codes : Invite(r, c)) \/ RevokeInvitation(r)
         \/ LockInvitation(r) \/ Join(r) \/ CommitAccept(r) \/ OpenSession(r)
  PROVE  TypeOK' /\ StepsOK'
<1> DEFINE Invitations == [code : Codes \cup {NoCode}, role : Offered,
                           accepted : BOOLEAN, expired : BOOLEAN]
           t == req[r].target
<1>0. req[r] \in Request /\ StepOK(req[r]) /\ invitation \in [Users -> Invitations]
  BY DEF TypeOK, StepsOK
<1>k. \A u \in Users : Killed(u) \subseteq Codes
  BY <1>0 DEF Killed, TypeOK
<1>1. ASSUME NEW c \in Codes, Invite(r, c)
      PROVE  TypeOK' /\ StepsOK'
  <2>1. t \in Users /\ req[r].wanted \in Offered
    BY <1>0, <1>1 DEF Invite, StepOK
  <2>2. invitation' \in [Users -> Invitations]
    BY <1>0, <1>1, <2>1 DEF Invite
  <2>3. QED  BY <1>1, <1>k, <2>1, <2>2, FinishFacts DEF Invite, TypeOK
<1>2. CASE RevokeInvitation(r)
  <2>1. t \in Users
    BY <1>0, <1>2 DEF RevokeInvitation, StepOK
  <2>2. CASE invitation[t].accepted \/ req[r].gone
    BY <1>2, <2>2, FinishFacts DEF RevokeInvitation, TypeOK
  <2>3. CASE ~(invitation[t].accepted \/ req[r].gone)
    <3> DEFINE g(s) == req[s].gone \/ (req[s].op = "revoke" /\ req[s].target = t)
               n(s) == [req[s] EXCEPT !.gone = g(s)]
    <3>1. invitation' \in [Users -> Invitations]
      <4>1. NoInvitation \in Invitations
        BY DEF NoInvitation, Offered, Roles
      <4>2. QED  BY <1>0, <1>2, <2>1, <2>3, <4>1 DEF RevokeInvitation
    <3>2. ASSUME NEW s \in Requests
          PROVE  n(s) \in Request /\ StepOK(n(s))
      <4>1. req[s] \in Request /\ StepOK(req[s])
        BY DEF TypeOK, StepsOK
      <4>2. g(s) \in BOOLEAN
        BY <4>1 DEF Request
      <4>3. n(s) \in Request
        BY <4>1, <4>2 DEF Request
      <4>4. StepOK(n(s))
        BY <4>1 DEF StepOK, Request
      <4>5. QED  BY <4>3, <4>4
    <3>3. req' = [s \in Requests |-> IF s = r THEN Idle ELSE n(s)]
      BY <1>2, <2>3 DEF RevokeInvitation
    <3> HIDE DEF n
    <3>4. req' \in [Requests -> Request] /\ StepsOK'
      BY <3>2, <3>3, IdleFacts DEF StepsOK
    <3>5. QED  BY <1>2, <1>k, <2>1, <2>3, <3>1, <3>4 DEF RevokeInvitation, TypeOK
  <2>4. QED  BY <2>2, <2>3
<1>3. CASE LockInvitation(r)
  <2>1. CASE Finish(r) /\ UNCHANGED invLock
    BY <1>3, <2>1, FinishFacts DEF LockInvitation, TypeOK
  <2>2. ASSUME NEW u \in Users, invLock' = [invLock EXCEPT ![u] = r], req' = Opened(r, u)
        PROVE  TypeOK' /\ StepsOK'
    <3> DEFINE q == [req[r] EXCEPT !.pc = "join", !.actor = u, !.target = u,
                                   !.wanted = invitation[u].role]
    <3>1. invitation[u].role \in Offered /\ req[r].code \in Codes
      BY <1>0, <1>3 DEF LockInvitation, StepOK
    <3>2. q \in Request
      BY <1>0, <3>1 DEF Request, Steps, Offered
    <3>3. StepOK(q)
      BY <1>0, <3>1 DEF StepOK, Request
    <3>4. req' \in [Requests -> Request] /\ StepsOK'
      BY <2>2, <3>2, <3>3 DEF Opened, StepsOK, TypeOK
    <3>5. QED  BY <1>3, <2>2, <3>4 DEF LockInvitation, TypeOK
  <2>3. QED  BY <1>3, <2>1, <2>2 DEF LockInvitation
<1>4. CASE Join(r)
  <2>1. t \in Users /\ req[r].wanted \in Offered /\ req[r].code \in Codes
    BY <1>0, <1>4 DEF Join, StepOK
  <2>2. Goto(r, "admit") /\ "admit" \in Steps
    BY <1>4 DEF Join, Steps
  <2>3. StepOK(req'[r])
    BY <2>1, <2>2, GotoFacts DEF StepOK
  <2>4. StepsOK'
    BY <2>2, <2>3, GotoFacts DEF StepsOK
  <2>5. QED  BY <1>4, <2>1, <2>2, <2>4, GotoFacts DEF Join, TypeOK
<1>5. CASE CommitAccept(r)
  <2> DEFINE q == [Idle EXCEPT !.pc = "session", !.target = t]
  <2>1. t \in Users /\ req[r].wanted \in Offered /\ req[r].code \in Codes
    BY <1>0, <1>5 DEF CommitAccept, StepOK
  <2>2. q \in Request /\ StepOK(q)
    BY <2>1 DEF Idle, Request, Steps, StepOK, Roles
  <2>3. req' \in [Requests -> Request] /\ StepsOK'
    BY <1>5, <2>2 DEF CommitAccept, StepsOK, TypeOK
  <2>4. invitation' \in [Users -> Invitations]
    BY <1>0, <1>5, <2>1 DEF CommitAccept
  <2>5. member' \in [Users -> Roles \cup {"none"}] /\ dead' \subseteq Codes
    BY <1>5, <2>1 DEF CommitAccept, TypeOK, Offered
  <2>6. QED  BY <1>5, <2>3, <2>4, <2>5, UnlockedFacts DEF CommitAccept, TypeOK
<1>6. CASE OpenSession(r)
  <2>1. t \in Users
    BY <1>0, <1>6 DEF OpenSession, StepOK
  <2>2. QED  BY <1>6, <2>1, FinishFacts DEF OpenSession, TypeOK
<1>7. QED
  BY <1>1, <1>2, <1>3, <1>4, <1>5, <1>6

LEMMA TypeStep ==
  ASSUME TypeOK, StepsOK, [Next]_vars
  PROVE  TypeOK' /\ StepsOK'
<1>1. CASE UNCHANGED vars
  BY <1>1 DEF vars, TypeOK, StepsOK
<1>2. ASSUME NEW r \in Requests, Fail(r)
      PROVE  TypeOK' /\ StepsOK'
  BY <1>2, FinishFacts, UnlockedFacts DEF Fail, TypeOK
<1>3. ASSUME NEW u \in Users, Expire(u)
      PROVE  TypeOK' /\ StepsOK'
  BY <1>3 DEF Expire, TypeOK, StepsOK
<1>4. ASSUME NEW u \in Users, Login(u)
      PROVE  TypeOK' /\ StepsOK'
  BY <1>4 DEF Login, TypeOK, StepsOK
<1>5. QED
  BY <1>1, <1>2, <1>3, <1>4, TypeGuard, TypeChange, TypeInvite DEF Next

(* Every variable of Membership keeps its type (the tables memberships and *)
(* invitations, their locks and the requests), and every step of a request *)
(* finds the fields it reads filled in.                                    *)
THEOREM TypeCorrect == Spec => [](TypeOK /\ StepsOK)
<1>1. Init => TypeOK /\ StepsOK
  BY TypeInit
<1>2. TypeOK /\ StepsOK /\ [Next]_vars => (TypeOK /\ StepsOK)'
  BY TypeStep
<1>3. QED
  BY <1>1, <1>2, PTL DEF Spec

------------------------------------------------------------------------------
(* What the locks protect.                                                 *)

(* A step of request r.                                                    *)
StepOf(r) ==
  \/ \E o \in {"change", "invite", "revoke"}, u, v \in Users, w \in Asked \cup {"none"} :
       Begin(r, o, u, v, w)
  \/ ResolveRole(r) \/ LockTarget(r) \/ Decide(r) \/ CommitChange(r) \/ CutSessions(r)
  \/ (\E c \in Codes : Invite(r, c) \/ Present(r, c)) \/ RevokeInvitation(r)
  \/ LockInvitation(r) \/ Join(r) \/ CommitAccept(r) \/ OpenSession(r) \/ Fail(r)

SameRequest(s) ==
  /\ req'[s].pc = req[s].pc /\ req'[s].actor = req[s].actor
  /\ req'[s].role = req[s].role /\ req'[s].target = req[s].target
  /\ req'[s].wanted = req[s].wanted /\ req'[s].code = req[s].code
  /\ req'[s].counted = req[s].counted

(* Another transaction's step leaves the rows s holds as they are.         *)
RowsSpared(s) ==
  \A u \in Users :
    /\ lock[u] = s => lock'[u] = s /\ member'[u] = member[u]
    /\ invLock[u] = s => invLock'[u] = s /\ invitation'[u] = invitation[u]

LEMMA OthersSpared ==
  ASSUME MembershipInv, NEW r \in Requests, StepOf(r), NEW s \in Requests \ {r}
  PROVE  SameRequest(s) /\ RowsSpared(s)
<1> DEFINE t == req[r].target
<1>0. /\ req[r] \in Request /\ req[s] \in Request /\ StepOK(req[r]) /\ Free \notin Requests
      /\ lock \in [Users -> Requests \cup {Free}] /\ invLock \in [Users -> Requests \cup {Free}]
  BY MembershipAssumption DEF MembershipInv, TypeOK, StepsOK
<1>1. CASE req'[s] = req[s] /\ UNCHANGED <<member, lock, invitation, invLock>>
  BY <1>1 DEF SameRequest, RowsSpared
<1>2. CASE LockTarget(r)
  <2>1. req'[s] = req[s]
    BY <1>2, FinishFacts, GotoFacts DEF LockTarget, MembershipInv, Steps
  <2>2. \A u \in Users : lock[u] = s => lock'[u] = s
    BY <1>0, <1>2 DEF LockTarget
  <2>3. QED  BY <1>2, <2>1, <2>2 DEF LockTarget, SameRequest, RowsSpared
<1>3. CASE Decide(r)
  <2>1. req'[s] = req[s]
    BY <1>3 DEF Decide, Finish, MembershipInv, TypeOK
  <2>2. \A u \in Users : lock[u] = s => lock'[u] = s
    BY <1>0, <1>3, UnlockedFacts DEF Decide
  <2>3. QED  BY <1>3, <2>1, <2>2 DEF Decide, SameRequest, RowsSpared
<1>4. CASE CommitChange(r)
  <2>1. SameRequest(s)
    <3>1. CASE req[r].wanted # "none"
      BY <1>4, <3>1, FinishFacts DEF CommitChange, MembershipInv, SameRequest
    <3>2. CASE req[r].wanted = "none"
      <4>1. req'[s] = [req[s] EXCEPT !.gone =
              @ \/ (req[s].op = "change" /\ req[s].target = req[r].target)]
        BY <1>4, <3>2 DEF CommitChange
      <4>2. QED  BY <1>0, <4>1 DEF SameRequest, Request
    <3>3. QED  BY <3>1, <3>2
  <2>2. t \in Users /\ lock[t] = r
    BY <1>0, <1>4 DEF CommitChange, StepOK, MembershipInv, RowsHeld
  <2>3. \A u \in Users : lock[u] = s => lock'[u] = s /\ member'[u] = member[u]
    BY <1>0, <1>4, <2>2, UnlockedFacts DEF CommitChange, MembershipInv, TypeOK
  <2>4. QED  BY <1>4, <2>1, <2>3 DEF CommitChange, RowsSpared
<1>5. CASE \E c \in Codes : Invite(r, c)
  <2>1. t \in Users /\ invLock[t] = Free /\ req'[s] = req[s]
    BY <1>0, <1>5, FinishFacts DEF Invite, StepOK, MembershipInv
  <2>2. \A u \in Users : invLock[u] = s => invitation'[u] = invitation[u]
    BY <1>0, <1>5, <2>1 DEF Invite, MembershipInv, TypeOK
  <2>3. QED  BY <1>5, <2>1, <2>2 DEF Invite, SameRequest, RowsSpared
<1>6. CASE RevokeInvitation(r)
  <2>1. SameRequest(s)
    <3>1. CASE invitation[t].accepted \/ req[r].gone
      BY <1>6, <3>1, FinishFacts DEF RevokeInvitation, MembershipInv, SameRequest
    <3>2. CASE ~(invitation[t].accepted \/ req[r].gone)
      <4>1. req'[s] = [req[s] EXCEPT !.gone =
              @ \/ (req[s].op = "revoke" /\ req[s].target = req[r].target)]
        BY <1>6, <3>2 DEF RevokeInvitation
      <4>2. QED  BY <1>0, <4>1 DEF SameRequest, Request
    <3>3. QED  BY <3>1, <3>2
  <2>2. t \in Users /\ invLock[t] = Free
    BY <1>0, <1>6 DEF RevokeInvitation, StepOK
  <2>3. \A u \in Users : invLock[u] = s => invitation'[u] = invitation[u]
    BY <1>0, <1>6, <2>2 DEF RevokeInvitation, MembershipInv, TypeOK
  <2>4. QED  BY <1>6, <2>1, <2>3 DEF RevokeInvitation, RowsSpared
<1>7. CASE LockInvitation(r)
  <2>1. req'[s] = req[s]
    BY <1>7, FinishFacts DEF LockInvitation, Opened, MembershipInv, TypeOK
  <2>2. \A u \in Users : invLock[u] = s => invLock'[u] = s
    <3>1. CASE UNCHANGED invLock
      BY <3>1
    <3>2. ASSUME NEW v \in Users, Admissible(v, req[r].code), invLock' = [invLock EXCEPT ![v] = r]
          PROVE  \A u \in Users : invLock[u] = s => invLock'[u] = s
      <4>1. invLock[v] = Free
        BY <1>7, <3>2 DEF LockInvitation, Admissible
      <4>2. QED  BY <1>0, <3>2, <4>1
    <3>3. QED  BY <1>7, <3>1, <3>2 DEF LockInvitation
  <2>3. QED  BY <1>7, <2>1, <2>2 DEF LockInvitation, SameRequest, RowsSpared
<1>8. CASE Join(r)
  <2>1. req'[s] = req[s]
    BY <1>8, GotoFacts DEF Join, MembershipInv, Steps
  <2>2. \A u \in Users : lock[u] = s => lock'[u] = s
    BY <1>0, <1>8 DEF Join
  <2>3. QED  BY <1>8, <2>1, <2>2 DEF Join, SameRequest, RowsSpared
<1>9. CASE CommitAccept(r)
  <2>1. t \in Users /\ lock[t] = r /\ invLock[t] = r
    BY <1>0, <1>9 DEF CommitAccept, StepOK, MembershipInv, RowsHeld, InvitationsHeld
  <2>2. \A u \in Users : lock[u] = s => lock'[u] = s /\ member'[u] = member[u]
    BY <1>0, <1>9, <2>1, UnlockedFacts DEF CommitAccept, MembershipInv, TypeOK
  <2>3. \A u \in Users : invLock[u] = s => invLock'[u] = s /\ invitation'[u] = invitation[u]
    BY <1>0, <1>9, <2>1, UnlockedFacts DEF CommitAccept, MembershipInv, TypeOK
  <2>4. req'[s] = req[s]
    BY <1>9 DEF CommitAccept, MembershipInv, TypeOK
  <2>5. QED  BY <2>2, <2>3, <2>4 DEF SameRequest, RowsSpared
<1>10. CASE Fail(r)
  BY <1>0, <1>10, FinishFacts, UnlockedFacts DEF Fail, MembershipInv, SameRequest, RowsSpared
<1>11. CASE \/ ResolveRole(r) \/ CutSessions(r) \/ OpenSession(r) \/ (\E c \in Codes : Present(r, c))
           \/ \E o \in {"change", "invite", "revoke"}, u, v \in Users, w \in Asked \cup {"none"} :
                Begin(r, o, u, v, w)
  <2>1. req'[s] = req[s]
    BY <1>11 DEF Begin, ResolveRole, CutSessions, OpenSession, Present, Finish, MembershipInv, TypeOK
  <2>2. UNCHANGED <<member, lock, invitation, invLock>>
    BY <1>11 DEF Begin, ResolveRole, CutSessions, OpenSession, Present
  <2>3. QED  BY <1>1, <2>1, <2>2
<1>12. QED
  BY <1>2, <1>3, <1>4, <1>5, <1>6, <1>7, <1>8, <1>9, <1>10, <1>11 DEF StepOf

(* What r itself holds and has checked after its step.                     *)
HoldsOK(r) ==
  /\ req[r].pc \in {"decide", "commit", "admit"} => lock[req[r].target] = r
  /\ req[r].pc \in {"join", "admit"} =>
       /\ invLock[req[r].target] = r
       /\ invitation[req[r].target].code = req[r].code
       /\ ~invitation[req[r].target].accepted
  /\ req[r].pc = "commit" => Allowed(r)

Unheld == {"idle", "role", "change", "sessions", "invite", "revoke", "open", "session"}

LEMMA UnheldOK ==
  ASSUME NEW r \in Requests, req'[r].pc \in Unheld
  PROVE  HoldsOK(r)'
  BY DEF HoldsOK, Unheld

LEMMA OwnHolds ==
  ASSUME MembershipInv, NEW r \in Requests, StepOf(r)
  PROVE  HoldsOK(r)'
<1> DEFINE t == req[r].target
<1>0. /\ TypeOK /\ StepsOK /\ req[r] \in Request /\ StepOK(req[r]) /\ Free \notin Requests
      /\ lock \in [Users -> Requests \cup {Free}] /\ invLock \in [Users -> Requests \cup {Free}]
  BY MembershipAssumption DEF MembershipInv, TypeOK, StepsOK
<1>1. CASE req'[r].pc \in Unheld
  BY <1>1, UnheldOK
<1>2. CASE LockTarget(r)
  <2>1. CASE Missing(r)
    <3>1. req'[r] = Idle
      BY <1>0, <1>2, <2>1, FinishFacts DEF LockTarget
    <3>2. QED  BY <1>1, <3>1, IdleFacts DEF Unheld
  <2>2. CASE ~Missing(r)
    <3>1. t \in Users
      BY <1>0, <1>2 DEF LockTarget, StepOK
    <3>2. req'[r].pc = "decide" /\ req'[r].target = t
      BY <1>0, <1>2, <2>2, GotoFacts DEF LockTarget, Steps
    <3>3. lock'[t] = r
      BY <1>0, <1>2, <2>2, <3>1 DEF LockTarget
    <3>4. QED  BY <3>2, <3>3 DEF HoldsOK
  <2>3. QED  BY <2>1, <2>2
<1>3. CASE Decide(r)
  <2>1. CASE Refused(r)
    <3>1. req'[r] = Idle
      BY <1>0, <1>3, <2>1, FinishFacts DEF Decide
    <3>2. QED  BY <1>1, <3>1, IdleFacts DEF Unheld
  <2>2. CASE ~Refused(r)
    <3>1. req'[r] = [req[r] EXCEPT !.pc = "commit", !.counted = Owners]
      BY <1>0, <1>3, <2>2 DEF Decide, TypeOK
    <3>2. /\ req'[r].pc = "commit" /\ req'[r].counted = Owners /\ req'[r].target = t
          /\ req'[r].wanted = req[r].wanted /\ req'[r].actor = req[r].actor
          /\ req'[r].role = req[r].role
      BY <1>0, <3>1 DEF Request
    <3>3. lock[t] = r /\ UNCHANGED <<lock, member>>
      BY <1>3, <2>2 DEF Decide, MembershipInv, RowsHeld
    <3>4. Allowed(r)'
      BY <2>2, <3>2, <3>3 DEF Refused, Allowed
    <3>5. QED  BY <3>2, <3>3, <3>4 DEF HoldsOK
  <2>3. QED  BY <2>1, <2>2
<1>4. CASE LockInvitation(r)
  <2>1. CASE Finish(r)
    <3>1. req'[r] = Idle
      BY <1>0, <2>1, FinishFacts
    <3>2. QED  BY <1>1, <3>1, IdleFacts DEF Unheld
  <2>2. ASSUME NEW u \in Users, Admissible(u, req[r].code), invLock' = [invLock EXCEPT ![u] = r],
               req' = Opened(r, u)
        PROVE  HoldsOK(r)'
    <3>1. req'[r] = [req[r] EXCEPT !.pc = "join", !.actor = u, !.target = u,
                                   !.wanted = invitation[u].role]
      BY <1>0, <2>2 DEF Opened, TypeOK
    <3>2. req'[r].pc = "join" /\ req'[r].target = u /\ req'[r].code = req[r].code
      BY <1>0, <3>1 DEF Request
    <3>3. invLock'[u] = r /\ UNCHANGED invitation
      BY <1>0, <1>4, <2>2 DEF LockInvitation
    <3>4. QED  BY <2>2, <3>2, <3>3 DEF HoldsOK, Admissible
  <2>3. QED  BY <1>4, <2>1, <2>2 DEF LockInvitation
<1>5. CASE Join(r)
  <2>1. t \in Users
    BY <1>0, <1>5 DEF Join, StepOK
  <2>2. req'[r].pc = "admit" /\ req'[r].target = t /\ req'[r].code = req[r].code
    BY <1>0, <1>5, GotoFacts DEF Join, Steps
  <2>3. lock'[t] = r /\ UNCHANGED <<invLock, invitation>>
    BY <1>0, <1>5, <2>1 DEF Join
  <2>4. QED  BY <1>5, <2>2, <2>3 DEF HoldsOK, MembershipInv, InvitationsHeld, Join
<1>6. CASE CommitAccept(r)
  <2>1. req'[r] = [Idle EXCEPT !.pc = "session", !.target = t]
    BY <1>0, <1>6 DEF CommitAccept, TypeOK
  <2>2. req'[r].pc = "session"
    BY <2>1 DEF Idle
  <2>3. QED  BY <1>1, <2>2 DEF Unheld
<1>7. CASE CommitChange(r)
  <2>1. CASE req[r].wanted # "none"
    <3>1. req'[r] = Idle
      BY <1>0, <1>7, <2>1, FinishFacts DEF CommitChange
    <3>2. QED  BY <1>1, <3>1, IdleFacts DEF Unheld
  <2>2. CASE req[r].wanted = "none"
    <3>1. req'[r] = [Idle EXCEPT !.pc = "sessions", !.target = t]
      BY <1>7, <2>2 DEF CommitChange
    <3>2. req'[r].pc = "sessions"
      BY <3>1 DEF Idle
    <3>3. QED  BY <1>1, <3>2 DEF Unheld
  <2>3. QED  BY <2>1, <2>2
<1>8. CASE RevokeInvitation(r)
  <2>1. req'[r] = Idle
    BY <1>0, <1>8, FinishFacts DEF RevokeInvitation
  <2>2. QED  BY <1>1, <2>1, IdleFacts DEF Unheld
<1>9. CASE CutSessions(r) \/ OpenSession(r) \/ Fail(r) \/ \E c \in Codes : Invite(r, c)
  <2>1. req'[r] = Idle
    BY <1>0, <1>9, FinishFacts DEF CutSessions, OpenSession, Fail, Invite
  <2>2. QED  BY <1>1, <2>1, IdleFacts DEF Unheld
<1>10. ASSUME NEW c \in Codes, Present(r, c)
       PROVE  HoldsOK(r)'
  <2>1. req'[r].pc = "open"
    BY <1>0, <1>10 DEF Present, TypeOK, Request
  <2>2. QED  BY <1>1, <2>1 DEF Unheld
<1>11. ASSUME NEW o \in {"change", "invite", "revoke"}, NEW u \in Users, NEW v \in Users,
              NEW w \in Asked \cup {"none"}, Begin(r, o, u, v, w)
       PROVE  HoldsOK(r)'
  <2>1. req'[r].pc = "role"
    BY <1>0, <1>11 DEF Begin, TypeOK, Idle
  <2>2. QED  BY <1>1, <2>1 DEF Unheld
<1>12. CASE ResolveRole(r)
  <2>1. CASE Finish(r)
    BY <1>0, <1>1, <2>1, FinishFacts, IdleFacts DEF Unheld
  <2>2. CASE req' = [req EXCEPT ![r].pc = req[r].op, ![r].role = member[req[r].actor]]
    <3>1. req'[r].pc = req[r].op
      BY <1>0, <2>2 DEF TypeOK, Request
    <3>2. req[r].op \in Unheld
      BY <1>0, <1>12 DEF ResolveRole, StepOK, Unheld
    <3>3. QED  BY <1>1, <3>1, <3>2
  <2>3. QED  BY <1>12, <2>1, <2>2 DEF ResolveRole
<1>13. QED
  BY <1>2, <1>3, <1>4, <1>5, <1>6, <1>7, <1>8, <1>9, <1>10, <1>11, <1>12 DEF StepOf

LEMMA HoldsInv ==
  ASSUME StepsOK
  PROVE  RowsHeld /\ InvitationsHeld /\ Checked <=> \A r \in Requests : HoldsOK(r)
  BY DEF RowsHeld, InvitationsHeld, Checked, HoldsOK

(* Another request keeps what it holds and has checked.                    *)
LEMMA OtherHolds ==
  ASSUME MembershipInv, NEW s \in Requests, SameRequest(s), RowsSpared(s)
  PROVE  HoldsOK(s)'
<1>1. HoldsOK(s) /\ StepOK(req[s])
  BY HoldsInv DEF MembershipInv, StepsOK
<1>2. CASE req[s].pc \in Unheld
  BY <1>2, UnheldOK DEF SameRequest
<1>3. CASE req[s].pc \notin Unheld
  <2>1. req[s].target \in Users
    BY <1>1, <1>3 DEF StepOK, Unheld
  <2>2. /\ req'[s].pc \in {"decide", "commit", "admit"} =>
             lock'[req[s].target] = s /\ member'[req[s].target] = member[req[s].target]
        /\ req'[s].pc \in {"join", "admit"} =>
             /\ invLock'[req[s].target] = s
             /\ invitation'[req[s].target] = invitation[req[s].target]
    BY <1>1, <2>1 DEF HoldsOK, SameRequest, RowsSpared
  <2>3. req'[s].pc = "commit" => Allowed(s)'
    BY <1>1, <2>2 DEF HoldsOK, SameRequest, Allowed
  <2>4. QED  BY <1>1, <2>2, <2>3 DEF HoldsOK, SameRequest
<1>4. QED  BY <1>2, <1>3

LEMMA HoldsStep ==
  ASSUME MembershipInv, [Next]_vars
  PROVE  RowsHeld' /\ InvitationsHeld' /\ Checked'
<1>1. StepsOK'
  BY TypeStep DEF MembershipInv
<1>2. SUFFICES \A r \in Requests : HoldsOK(r)'
  BY <1>1, HoldsInv DEF RowsHeld, InvitationsHeld, Checked, HoldsOK
<1>3. ASSUME NEW r \in Requests, StepOf(r), NEW s \in Requests
      PROVE  HoldsOK(s)'
  BY <1>3, OwnHolds, OthersSpared, OtherHolds
<1>4. CASE UNCHANGED vars
  BY <1>4, HoldsInv DEF vars, MembershipInv, HoldsOK, Allowed
<1>5. ASSUME NEW u \in Users, Expire(u), NEW s \in Requests
      PROVE  HoldsOK(s)'
  <2>1. HoldsOK(s) /\ StepOK(req[s])
    BY HoldsInv DEF MembershipInv, StepsOK
  <2>2. \A v \in Users : /\ invitation'[v].code = invitation[v].code
                        /\ invitation'[v].accepted = invitation[v].accepted
    BY <1>5 DEF Expire, MembershipInv, TypeOK
  <2>3. UNCHANGED <<member, lock, invLock, req>>
    BY <1>5 DEF Expire
  <2>4. QED  BY <2>1, <2>2, <2>3 DEF HoldsOK, Allowed, StepOK
<1>6. ASSUME NEW u \in Users, Login(u), NEW s \in Requests
      PROVE  HoldsOK(s)'
  BY <1>6, HoldsInv DEF Login, MembershipInv, HoldsOK, Allowed
<1>7. QED
  BY <1>3, <1>4, <1>5, <1>6 DEF Next, StepOf

(* A step only changes the codes of invitations by giving one a fresh code *)
(* and killing its former one.                                             *)
LEMMA CodesStep ==
  ASSUME MembershipInv, [Next]_vars
  PROVE  PendingAlive' /\ CodesDistinct'
<1>0. /\ TypeOK /\ StepsOK /\ PendingAlive /\ CodesDistinct /\ NoCode \notin Codes
      /\ \A r \in Requests : StepOK(req[r])
  BY MembershipAssumption DEF MembershipInv, StepsOK
<1>1. CASE UNCHANGED <<invitation, dead>>
  BY <1>0, <1>1 DEF PendingAlive, CodesDistinct
<1>2. ASSUME NEW r \in Requests, NEW c \in Codes, Invite(r, c)
      PROVE  PendingAlive' /\ CodesDistinct'
  <2> DEFINE t == req[r].target
  <2>1. t \in Users
    BY <1>0, <1>2 DEF Invite, StepOK
  <2>2. /\ invitation'[t].code = c /\ c # NoCode /\ c \notin dead
        /\ \A u \in Users : invitation[u].code # c
        /\ \A u \in Users \ {t} : invitation'[u] = invitation[u]
        /\ dead' = dead \cup ({invitation[t].code} \ {NoCode})
    BY <1>0, <1>2, <2>1 DEF Invite, Killed, TypeOK
  <2>3. PendingAlive'
    BY <1>0, <2>1, <2>2 DEF PendingAlive, CodesDistinct
  <2>4. CodesDistinct'
    BY <1>0, <2>1, <2>2 DEF CodesDistinct
  <2>5. QED  BY <2>3, <2>4
<1>3. ASSUME NEW r \in Requests, RevokeInvitation(r)
      PROVE  PendingAlive' /\ CodesDistinct'
  <2> DEFINE t == req[r].target
  <2>1. t \in Users
    BY <1>0, <1>3 DEF RevokeInvitation, StepOK
  <2>2. CASE ~(invitation[t].accepted \/ req[r].gone)
    <3>1. /\ invitation'[t].code = NoCode
          /\ \A u \in Users \ {t} : invitation'[u] = invitation[u]
          /\ dead' = dead \cup ({invitation[t].code} \ {NoCode})
      BY <1>0, <1>3, <2>1, <2>2 DEF RevokeInvitation, Killed, TypeOK, NoInvitation
    <3>2. QED  BY <1>0, <2>1, <3>1 DEF PendingAlive, CodesDistinct
  <2>3. CASE invitation[t].accepted \/ req[r].gone
    BY <1>1, <1>3, <2>3 DEF RevokeInvitation
  <2>4. QED  BY <2>2, <2>3
<1>4. ASSUME NEW r \in Requests, CommitAccept(r)
      PROVE  PendingAlive' /\ CodesDistinct'
  <2> DEFINE t == req[r].target
  <2>1. t \in Users /\ invitation[t].code = req[r].code
    BY <1>0, <1>4 DEF CommitAccept, StepOK, MembershipInv, InvitationsHeld
  <2>2. /\ invitation'[t].code = invitation[t].code /\ invitation'[t].accepted
        /\ \A u \in Users \ {t} : invitation'[u] = invitation[u]
        /\ dead' = dead \cup {invitation[t].code}
    BY <1>0, <1>4, <2>1 DEF CommitAccept, TypeOK
  <2>3. QED  BY <1>0, <2>1, <2>2 DEF PendingAlive, CodesDistinct
<1>5. ASSUME NEW u \in Users, Expire(u)
      PROVE  PendingAlive' /\ CodesDistinct'
  <2>1. /\ dead' = dead
        /\ \A v \in Users : /\ invitation'[v].code = invitation[v].code
                            /\ invitation'[v].accepted = invitation[v].accepted
    BY <1>0, <1>5 DEF Expire, TypeOK
  <2>2. QED  BY <1>0, <2>1 DEF PendingAlive, CodesDistinct
<1>6. UNCHANGED <<invitation, dead>> \/ (\E r \in Requests, c \in Codes : Invite(r, c))
      \/ (\E r \in Requests : RevokeInvitation(r) \/ CommitAccept(r)) \/ \E u \in Users : Expire(u)
  BY DEF Next, vars, Begin, ResolveRole, LockTarget, Decide, CommitChange, CutSessions,
     Present, LockInvitation, Join, OpenSession, Fail, Login
<1>7. QED
  BY <1>1, <1>2, <1>3, <1>4, <1>5, <1>6

LEMMA InvInit == Init => MembershipInv
<1> SUFFICES ASSUME Init PROVE MembershipInv
  OBVIOUS
<1>1. TypeOK /\ StepsOK
  BY TypeInit
<1>2. \A r \in Requests : req[r].pc = "idle"
  BY IdleFacts DEF Init
<1>3. \A u \in Users : invitation[u].code = NoCode
  BY DEF Init, NoInvitation
<1>4. QED
  BY <1>1, <1>2, <1>3 DEF MembershipInv, RowsHeld, InvitationsHeld, Checked,
     PendingAlive, CodesDistinct

THEOREM MembershipInvariant == Spec => []MembershipInv
<1>1. MembershipInv /\ [Next]_vars => MembershipInv'
  BY TypeStep, HoldsStep, CodesStep DEF MembershipInv
<1>2. QED
  BY <1>1, InvInit, PTL DEF Spec

------------------------------------------------------------------------------
(* The action properties.                                                  *)

(* Only the COMMITs of CommitChange and CommitAccept write memberships.    *)
LEMMA WhoWrites ==
  ASSUME MembershipInv, [Next]_vars
  PROVE  \/ UNCHANGED member
         \/ \E r \in Requests :
              /\ req[r].target \in Users
              /\ CommitChange(r) \/ CommitAccept(r)
              /\ member' = [member EXCEPT ![req[r].target] = req[r].wanted]
<1>1. ASSUME NEW r \in Requests, CommitChange(r) \/ CommitAccept(r)
      PROVE  req[r].target \in Users
  BY <1>1 DEF CommitChange, CommitAccept, MembershipInv, StepsOK, StepOK
<1>2. \/ UNCHANGED member
      \/ \E r \in Requests : CommitChange(r) \/ CommitAccept(r)
  BY DEF Next, vars, Begin, ResolveRole, LockTarget, Decide, CutSessions, Invite,
     RevokeInvitation, Expire, Present, LockInvitation, Join, OpenSession, Fail, Login
<1>3. QED
  BY <1>1, <1>2 DEF CommitChange, CommitAccept

LEMMA MoveStep ==
  ASSUME MembershipInv, [Next]_vars, NEW u \in Users, member'[u] # member[u]
  PROVE  \E r \in Requests :
           /\ req[r].target = u
           /\ \/ req[r].pc = "admit"
              \/ /\ req[r].pc = "commit" /\ req[r].role \in Managers
                 /\ "OWNER" \in {member[u], member'[u]} => req[r].role = "OWNER"
                 /\ Rank[member'[u]] > Rank[member[u]] => req[r].actor # u
<1>1. PICK r \in Requests :
        /\ req[r].target \in Users /\ (CommitChange(r) \/ CommitAccept(r))
        /\ member' = [member EXCEPT ![req[r].target] = req[r].wanted]
  BY WhoWrites
<1>2. req[r].target = u /\ member'[u] = req[r].wanted
  BY <1>1 DEF MembershipInv, TypeOK
<1>3. CASE CommitAccept(r)
  BY <1>2, <1>3 DEF CommitAccept
<1>4. CASE CommitChange(r)
  <2>1. req[r].pc = "commit" /\ Allowed(r) /\ req[r].role \in Managers
    BY <1>4 DEF CommitChange, MembershipInv, Checked, StepsOK, StepOK
  <2>2. QED  BY <1>2, <2>1 DEF Allowed
<1>5. QED  BY <1>1, <1>3, <1>4

(* A role moves only by an invitation or by somebody entitled, whatever    *)
(* was changing meanwhile: the locked row keeps what checkRoleChange saw   *)
(* until COMMIT (routes.ts:516-550, permissions.ts:186-229).               *)
THEOREM MovesJustified == Spec => RoleMovesJustified
<1>1. MembershipInv /\ [Next]_vars =>
        [\A u \in Users : member'[u] # member[u] =>
           \E r \in Requests :
             /\ req[r].target = u
             /\ \/ req[r].pc = "admit"
                \/ /\ req[r].pc = "commit" /\ req[r].role \in Managers
                   /\ "OWNER" \in {member[u], member'[u]} => req[r].role = "OWNER"
                   /\ Rank[member'[u]] > Rank[member[u]] => req[r].actor # u]_vars
  BY MoveStep
<1>2. QED
  BY <1>1, MembershipInvariant, PTL DEF Spec, RoleMovesJustified

(* An invitation code admits once, and never after it was revoked or       *)
(* replaced: the row locked by SELECT ... FOR UPDATE still has that code,  *)
(* pending, when the membership is committed (routes.ts:766-810).          *)
THEOREM DeadCodes == Spec => DeadCodesAdmitNobody
<1>1. ASSUME MembershipInv, NEW r \in Requests, req[r].pc = "admit"
      PROVE  req[r].code \notin dead
  <2>1. /\ req[r].target \in Users /\ req[r].code \in Codes
        /\ invitation[req[r].target].code = req[r].code
        /\ ~invitation[req[r].target].accepted
    BY <1>1 DEF MembershipInv, StepsOK, StepOK, InvitationsHeld
  <2>2. req[r].code # NoCode
    BY <2>1, MembershipAssumption
  <2>3. QED  BY <1>1, <2>1, <2>2 DEF MembershipInv, PendingAlive
<1>2. MembershipInv /\ [Next]_vars =>
        [\A r \in Requests :
           req[r].pc = "admit" /\ req'[r].pc = "session" => req[r].code \notin dead]_vars
  BY <1>1
<1>3. QED
  BY <1>2, MembershipInvariant, PTL DEF Spec, DeadCodesAdmitNobody

(* The check of the last OWNER fails only when the OWNERs moved after they *)
(* were counted, or by an invitation (routes.ts:525-542).                  *)
THEOREM LastOwner == Spec => LastOwnerOnlyLostToARace
<1>1. ASSUME MembershipInv, [Next]_vars, Owners # {}, Owners' = {}
      PROVE  \E r \in Requests : \/ req[r].pc = "admit"
                                 \/ req[r].pc = "commit" /\ req[r].counted # Owners
  <2>1. member' # member
    BY <1>1 DEF Owners
  <2>2. PICK r \in Requests :
          /\ req[r].target \in Users /\ (CommitChange(r) \/ CommitAccept(r))
          /\ member' = [member EXCEPT ![req[r].target] = req[r].wanted]
    BY <1>1, <2>1, WhoWrites
  <2>3. CASE CommitAccept(r)
    BY <2>3 DEF CommitAccept
  <2>4. CASE CommitChange(r) /\ req[r].counted = Owners
    <3> DEFINE t == req[r].target
    <3>1. \A v \in Users \ {t} : member[v] # "OWNER"
      BY <1>1, <2>2 DEF Owners, MembershipInv, TypeOK
    <3>2. Owners = {t} /\ member[t] = "OWNER"
      BY <1>1, <2>2, <3>1 DEF Owners
    <3>3. req[r].wanted # "OWNER"
      BY <1>1, <2>2, <3>2 DEF Owners, MembershipInv, TypeOK
    <3>4. ~(Cardinality(Owners) <= 1)
      BY <1>1, <2>4, <3>2, <3>3 DEF CommitChange, MembershipInv, Checked, Allowed
    <3>5. Cardinality(Owners) = 1
      BY <3>2, FS_Singleton
    <3>6. QED  BY <3>4, <3>5
  <2>5. CASE CommitChange(r) /\ req[r].counted # Owners
    BY <2>5 DEF CommitChange
  <2>6. QED  BY <2>2, <2>3, <2>4, <2>5
<1>2. MembershipInv /\ [Next]_vars =>
        [Owners # {} /\ Owners' = {} =>
           \E r \in Requests : \/ req[r].pc = "admit"
                               \/ req[r].pc = "commit" /\ req[r].counted # Owners]_vars
  BY <1>1
<1>3. QED
  BY <1>2, MembershipInvariant, PTL DEF Spec, LastOwnerOnlyLostToARace
=============================================================================

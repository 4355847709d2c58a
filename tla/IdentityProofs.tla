--------------------------- MODULE IdentityProofs ----------------------------
(***************************************************************************)
(* Proofs about who may speak to the API: Credentials, the keys of agents, *)
(* and Sessions, the account of a user.  For every number of keys, links,  *)
(* sessions, identities and requests in flight.                            *)
(***************************************************************************)
EXTENDS Credentials, Sessions, TLAPS

------------------------------------------------------------------------------
(***************************************************************************)
(* Credentials.                                                            *)
(***************************************************************************)
(* Whoever refers to a key refers to one that was inserted.                *)
Inserted(k) == k \in Keys /\ status[k] # "none"

HeldInserted == \A k \in held : Inserted(k)

(* A request in flight was signed with a key the agent holds.              *)
SignerHeld == \A c \in Calls : cpc[c] # "idle" => ckey[c] \in held

ReplyInserted ==
  /\ \A c \in Calls : cpc[c] \in {"audit", "reply"} => Inserted(cnew[c])
  /\ \A a \in Admins : apc[a] = "reply" => Inserted(anew[a])

KeyInv ==
  /\ TypeOK
  /\ HeldInserted
  /\ SignerHeld
  /\ ReplyInserted
  /\ DeletedStaysOffline
  /\ SupersededHasHeir
------------------------------------------------------------------------------
LEMMA KeyInvInit == Init => KeyInv
<1> SUFFICES ASSUME Init PROVE KeyInv
  OBVIOUS
<1>1. TypeOK
  BY DEF Init, TypeOK, Statuses, CallSteps, AdminSteps
<1>2. HeldInserted /\ SignerHeld /\ ReplyInserted
  BY DEF Init, HeldInserted, SignerHeld, ReplyInserted
<1>3. DeletedStaysOffline /\ SupersededHasHeir
  BY DEF Init, DeletedStaysOffline, SupersededHasHeir
<1>4. QED
  BY <1>1, <1>2, <1>3 DEF KeyInv

(* The key statuses after a promotion that the code carries out.           *)
LEMMA PromotionFacts ==
  ASSUME KeyInv, NEW c \in Calls, cpc[c] = "commit",
         status[ckey[c]] = "PENDING_ROTATION",
         status' = Promoted(ckey[c]), held' = held, supersedes' = supersedes
  PROVE  /\ ckey[c] \in held
         /\ status' \in [Keys -> Statuses]
         /\ status'[ckey[c]] = "ACTIVE"
         /\ \A k \in Keys : status[k] # "none" => status'[k] # "none"
         /\ SupersededHasHeir'
<1> DEFINE n == ckey[c]
<1>1. n \in held /\ n \in Keys
  BY DEF KeyInv, SignerHeld, TypeOK
<1>2. \A k \in Keys : status'[k] = IF k = n THEN "ACTIVE"
                                   ELSE IF k = supersedes[n] THEN "SUPERSEDED"
                                   ELSE status[k]
  BY DEF Promoted
<1>3. status' \in [Keys -> Statuses]
  BY DEF Promoted, KeyInv, TypeOK, Statuses
<1>4. ASSUME NEW k \in Keys, status'[k] = "SUPERSEDED"
      PROVE  \E j \in held' : /\ supersedes'[j] = k
                              /\ status'[j] \in {"ACTIVE", "SUPERSEDED", "REVOKED"}
  <2>1. CASE k = supersedes[n]
    BY <1>1, <1>2, <2>1
  <2>2. CASE k # supersedes[n]
    <3>1. status[k] = "SUPERSEDED"
      BY <1>2, <1>4, <2>2
    <3>2. PICK j \in held : /\ supersedes[j] = k
                            /\ status[j] \in {"ACTIVE", "SUPERSEDED", "REVOKED"}
      BY <3>1 DEF KeyInv, SupersededHasHeir
    <3>3. j \in Keys /\ j # n
      BY <3>2 DEF KeyInv, TypeOK
    <3>4. status'[j] \in {"ACTIVE", "SUPERSEDED", "REVOKED"}
      BY <1>2, <3>2, <3>3
    <3>5. QED  BY <3>2, <3>4
  <2>3. QED  BY <2>1, <2>2
<1>5. \A k \in Keys : status[k] # "none" => status'[k] # "none"
  BY <1>2
<1>6. QED
  BY <1>1, <1>2, <1>3, <1>4, <1>5 DEF SupersededHasHeir

(* What inserting a fresh row leaves true.                                 *)
LEMMA InsertFacts ==
  ASSUME KeyInv, NEW k \in Keys, NEW st \in {"ACTIVE", "PENDING_ROTATION"},
         NEW old \in Keys \cup {NoKey}, Issued(k, st, old), held' = held
  PROVE  /\ status' \in [Keys -> Statuses]
         /\ supersedes' \in [Keys -> Keys \cup {NoKey}]
         /\ status'[k] # "none"
         /\ \A j \in Keys : status[j] # "none" => status'[j] = status[j]
         /\ SupersededHasHeir'
<1>1. /\ status[k] = "none"
      /\ status' = [status EXCEPT ![k] = st]
      /\ supersedes' = [supersedes EXCEPT ![k] = old]
      /\ status \in [Keys -> Statuses] /\ supersedes \in [Keys -> Keys \cup {NoKey}]
      /\ held \subseteq Keys
  BY DEF Issued, KeyInv, TypeOK
<1>2. ASSUME NEW i \in Keys, status'[i] = "SUPERSEDED"
      PROVE  \E j \in held' : /\ supersedes'[j] = i
                              /\ status'[j] \in {"ACTIVE", "SUPERSEDED", "REVOKED"}
  <2>1. status[i] = "SUPERSEDED"
    BY <1>1, <1>2
  <2>2. PICK j \in held : /\ supersedes[j] = i
                          /\ status[j] \in {"ACTIVE", "SUPERSEDED", "REVOKED"}
    BY <2>1 DEF KeyInv, SupersededHasHeir
  <2>3. j # k /\ j \in Keys
    BY <1>1, <2>2
  <2>4. QED  BY <1>1, <2>2, <2>3
<1>3. SupersededHasHeir'
  BY <1>2 DEF SupersededHasHeir
<1>4. QED
  BY <1>1, <1>3 DEF Statuses

(* Steps that leave the rows of api_credentials alone.                     *)
LEMMA RowsUntouched ==
  ASSUME KeyInv, UNCHANGED keyVars, held \subseteq held',
         \A k \in held' : Inserted(k), TypeOK', DeletedStaysOffline',
         SignerHeld', ReplyInserted'
  PROVE  KeyInv'
<1>2. HeldInserted'
  BY DEF HeldInserted, Inserted, keyVars
<1>3. SupersededHasHeir'
  BY DEF KeyInv, SupersededHasHeir, keyVars
<1>4. QED
  BY <1>2, <1>3 DEF KeyInv

LEMMA CallPreserves ==
  ASSUME KeyInv, NEW c \in Calls, CallStep(c)
  PROVE  KeyInv'
<1> USE DEF CallTo, keyVars, serverVars, adminVars
<1>0. /\ TypeOK /\ HeldInserted /\ SignerHeld /\ ReplyInserted
      /\ DeletedStaysOffline
      /\ \A k \in held : Inserted(k)
  BY DEF KeyInv, HeldInserted
<1>1. ASSUME NEW op \in {"handshake", "rotate"}, NEW k \in Keys, Send(c, op, k)
      PROVE  KeyInv'
  <2>1. TypeOK'
    BY <1>0, <1>1 DEF Send, TypeOK, CallSteps
  <2>2. SignerHeld'
    BY <1>0, <1>1 DEF Send, SignerHeld, TypeOK
  <2>3. ReplyInserted'
    BY <1>0, <1>1 DEF Send, ReplyInserted, Inserted, TypeOK
  <2>4. QED
    BY <1>0, <1>1, <2>1, <2>2, <2>3, RowsUntouched DEF Send, DeletedStaysOffline
<1>2. CASE Authenticate(c)
  <2>1. TypeOK'
    <3>1. status[ckey[c]] \in Statuses
      BY <1>0, <1>2 DEF Authenticate, SignerHeld, TypeOK
    <3>2. cop[c] \in CallSteps
      BY <1>0 DEF TypeOK, CallSteps
    <3>3. QED  BY <1>0, <1>2, <3>1, <3>2 DEF Authenticate, TypeOK, CallSteps
  <2>2. SignerHeld'
    BY <1>0, <1>2 DEF Authenticate, SignerHeld, TypeOK
  <2>3. ReplyInserted'
    BY <1>0, <1>2 DEF Authenticate, ReplyInserted, Inserted, TypeOK
  <2>4. QED
    BY <1>0, <1>2, <2>1, <2>2, <2>3, RowsUntouched DEF Authenticate, DeletedStaysOffline
<1>3. CASE Handshake(c)
  <2>1. TypeOK'
    BY <1>0, <1>3 DEF Handshake, TypeOK, CallSteps
  <2>2. SignerHeld'
    BY <1>0, <1>3 DEF Handshake, SignerHeld, TypeOK
  <2>3. ReplyInserted'
    BY <1>0, <1>3 DEF Handshake, ReplyInserted, Inserted, TypeOK
  <2>4. DeletedStaysOffline'
    BY <1>0, <1>3 DEF Handshake, DeletedStaysOffline
  <2>5. QED
    BY <1>0, <1>3, <2>1, <2>2, <2>3, <2>4, RowsUntouched DEF Handshake
<1>4. CASE CommitRotation(c)
  <2>1. /\ cpc[c] = "commit"
        /\ cpc' = [cpc EXCEPT ![c] = "idle"]
        /\ UNCHANGED <<supersedes, deleted, state, agentRow, apc, anew, held,
                       cop, ckey, cseen, cnew>>
    BY <1>4 DEF CommitRotation
  <2>2. CASE status' = status
    <3>1. TypeOK'
      BY <1>0, <2>1, <2>2 DEF TypeOK, CallSteps
    <3>2. SignerHeld' /\ ReplyInserted'
      BY <1>0, <2>1, <2>2 DEF SignerHeld, ReplyInserted, Inserted, TypeOK
    <3>3. QED
      BY <1>0, <2>1, <2>2, <3>1, <3>2, RowsUntouched DEF DeletedStaysOffline
  <2>3. CASE /\ status[ckey[c]] = "PENDING_ROTATION"
             /\ IndexAllows(Promoted(ckey[c]))
             /\ status' = Promoted(ckey[c])
    <3>1. /\ status' \in [Keys -> Statuses]
          /\ \A k \in Keys : status[k] # "none" => status'[k] # "none"
          /\ SupersededHasHeir'
      BY <2>1, <2>3, PromotionFacts
    <3>2. TypeOK'
      BY <1>0, <2>1, <3>1 DEF TypeOK, CallSteps
    <3>3. HeldInserted'
      BY <1>0, <2>1, <3>1 DEF HeldInserted, Inserted
    <3>4. SignerHeld'
      BY <1>0, <2>1 DEF SignerHeld, TypeOK
    <3>5. ReplyInserted'
      BY <1>0, <2>1, <3>1 DEF ReplyInserted, Inserted, TypeOK
    <3>7. DeletedStaysOffline'
      BY <1>0, <2>1 DEF DeletedStaysOffline
    <3>8. QED
      BY <3>1, <3>2, <3>3, <3>4, <3>5, <3>7 DEF KeyInv
  <2>4. QED
    BY <1>4, <2>2, <2>3 DEF CommitRotation
<1>5. ASSUME NEW k \in Keys, Rotate(c, k) PROVE KeyInv'
  <2>1. /\ cpc[c] = "rotate" /\ Issued(k, "PENDING_ROTATION", ckey[c])
        /\ cpc' = [cpc EXCEPT ![c] = "audit"]
        /\ cnew' = [cnew EXCEPT ![c] = k]
        /\ UNCHANGED <<deleted, state, agentRow, apc, anew, held, cop, ckey, cseen>>
    BY <1>5 DEF Rotate
  <2>2. ckey[c] \in Keys \cup {NoKey}
    BY <1>0 DEF TypeOK
  <2>3. /\ status' \in [Keys -> Statuses]
        /\ supersedes' \in [Keys -> Keys \cup {NoKey}]
        /\ status'[k] # "none"
        /\ \A j \in Keys : status[j] # "none" => status'[j] = status[j]
        /\ SupersededHasHeir'
    BY <2>1, <2>2, InsertFacts
  <2>4. TypeOK'
    BY <1>0, <2>1, <2>3 DEF TypeOK, CallSteps
  <2>5. HeldInserted'
    BY <1>0, <2>1, <2>3 DEF HeldInserted, Inserted
  <2>6. SignerHeld'
    BY <1>0, <2>1 DEF SignerHeld, TypeOK
  <2>7. ReplyInserted'
    BY <1>0, <2>1, <2>3 DEF ReplyInserted, Inserted, TypeOK
  <2>9. DeletedStaysOffline'
    BY <1>0, <2>1 DEF DeletedStaysOffline
  <2>10. QED
    BY <2>3, <2>4, <2>5, <2>6, <2>7, <2>9 DEF KeyInv
<1>6. CASE RotateAudit(c) \/ CallFail(c)
  <2>1. TypeOK'
    BY <1>0, <1>6 DEF RotateAudit, CallFail, TypeOK, CallSteps
  <2>2. SignerHeld'
    BY <1>0, <1>6 DEF RotateAudit, CallFail, SignerHeld, TypeOK
  <2>3. ReplyInserted'
    BY <1>0, <1>6 DEF RotateAudit, CallFail, ReplyInserted, Inserted, TypeOK
  <2>4. QED
    BY <1>0, <1>6, <2>1, <2>2, <2>3, RowsUntouched
    DEF RotateAudit, CallFail, DeletedStaysOffline
<1>7. CASE RotateReply(c)
  <2>1. Inserted(cnew[c])
    BY <1>0, <1>7 DEF RotateReply, ReplyInserted
  <2>2. TypeOK'
    BY <1>0, <1>7, <2>1 DEF RotateReply, TypeOK, CallSteps, Inserted
  <2>3. SignerHeld'
    BY <1>0, <1>7 DEF RotateReply, SignerHeld, TypeOK
  <2>4. ReplyInserted'
    BY <1>0, <1>7 DEF RotateReply, ReplyInserted, Inserted, TypeOK
  <2>5. QED
    BY <1>0, <1>7, <2>1, <2>2, <2>3, <2>4, RowsUntouched
    DEF RotateReply, DeletedStaysOffline
<1>8. QED
  BY <1>1, <1>2, <1>3, <1>4, <1>5, <1>6, <1>7 DEF CallStep

(* Revoking every key, or one, keeps the invariant.                        *)
LEMMA RevocationPreserves ==
  ASSUME KeyInv, NEW S \in SUBSET Keys, \A k \in S : status[k] # "none",
         status' = [k \in Keys |-> IF k \in S THEN "REVOKED" ELSE status[k]],
         UNCHANGED <<supersedes, agentRow, held, cop, ckey, cseen, cnew, cpc, anew>>,
         apc' \in [Admins -> AdminSteps],
         \A a \in Admins : apc'[a] = "reply" => apc[a] = "reply",
         deleted' \in BOOLEAN, state' \in {"UNKNOWN", "ONLINE", "OFFLINE"},
         DeletedStaysOffline'
  PROVE  KeyInv'
<1>0. /\ TypeOK /\ HeldInserted /\ SignerHeld /\ ReplyInserted
      /\ SupersededHasHeir
  BY DEF KeyInv
<1>1. TypeOK'
  BY <1>0 DEF TypeOK, Statuses
<1>2. HeldInserted'
  BY <1>0 DEF HeldInserted, Inserted
<1>3. SignerHeld'
  BY <1>0 DEF SignerHeld
<1>4. ReplyInserted'
  BY <1>0 DEF ReplyInserted, Inserted
<1>6. SupersededHasHeir'
  BY <1>0 DEF SupersededHasHeir, TypeOK
<1>7. QED
  BY <1>1, <1>2, <1>3, <1>4, <1>6 DEF KeyInv

LEMMA AdminPreserves ==
  ASSUME KeyInv, NEW a \in Admins, AdminStep(a)
  PROVE  KeyInv'
<1> USE DEF AdminTo, keyVars, serverVars, callVars
<1>0. /\ TypeOK /\ HeldInserted /\ SignerHeld /\ ReplyInserted
      /\ DeletedStaysOffline
      /\ \A k \in held : Inserted(k)
  BY DEF KeyInv, HeldInserted
<1>1. CASE StartIssue(a) \/ FindAgent(a) \/ InsertAgent(a) \/ IssueFail(a)
  <2>1. TypeOK'
    BY <1>0, <1>1 DEF StartIssue, FindAgent, InsertAgent, IssueFail, TypeOK, AdminSteps
  <2>2. SignerHeld'
    BY <1>0, <1>1 DEF StartIssue, FindAgent, InsertAgent, IssueFail, SignerHeld
  <2>3. ReplyInserted'
    BY <1>0, <1>1 DEF StartIssue, FindAgent, InsertAgent, IssueFail, ReplyInserted,
                      Inserted, TypeOK
  <2>4. QED
    BY <1>0, <1>1, <2>1, <2>2, <2>3, RowsUntouched
    DEF StartIssue, FindAgent, InsertAgent, IssueFail, DeletedStaysOffline
<1>2. CASE RevokePrevious(a)
  <2> DEFINE S == {k \in Keys : status[k] # "none"}
  <2>1. status' = [k \in Keys |-> IF k \in S THEN "REVOKED" ELSE status[k]]
    BY <1>2 DEF RevokePrevious, RevokeAll
  <2>2. /\ apc' \in [Admins -> AdminSteps]
        /\ \A b \in Admins : apc'[b] = "reply" => apc[b] = "reply"
    BY <1>0, <1>2 DEF RevokePrevious, TypeOK, AdminSteps
  <2>3. /\ UNCHANGED <<supersedes, agentRow, held, cop, ckey, cseen, cnew, cpc, anew>>
        /\ deleted' \in BOOLEAN /\ state' \in {"UNKNOWN", "ONLINE", "OFFLINE"}
        /\ DeletedStaysOffline'
    BY <1>0, <1>2 DEF RevokePrevious, TypeOK, DeletedStaysOffline
  <2> HIDE DEF S
  <2>4. S \in SUBSET Keys /\ \A k \in S : status[k] # "none"
    BY DEF S
  <2>5. QED
    BY <2>1, <2>2, <2>3, <2>4, RevocationPreserves
<1>3. ASSUME NEW k \in Keys, IssueActive(a, k) PROVE KeyInv'
  <2>1. /\ apc[a] = "issue" /\ Issued(k, "ACTIVE", NoKey) /\ IndexAllows(status')
        /\ anew' = [anew EXCEPT ![a] = k]
        /\ apc' = [apc EXCEPT ![a] = "reply"]
        /\ UNCHANGED <<deleted, state, agentRow, cpc, cop, ckey, cseen, cnew, held>>
    BY <1>3 DEF IssueActive
  <2>2. /\ status' \in [Keys -> Statuses]
        /\ supersedes' \in [Keys -> Keys \cup {NoKey}]
        /\ status'[k] # "none"
        /\ \A j \in Keys : status[j] # "none" => status'[j] = status[j]
        /\ SupersededHasHeir'
    BY <2>1, InsertFacts
  <2>3. TypeOK'
    BY <1>0, <2>1, <2>2 DEF TypeOK, AdminSteps
  <2>4. HeldInserted'
    BY <1>0, <2>1, <2>2 DEF HeldInserted, Inserted
  <2>5. SignerHeld'
    BY <1>0, <2>1 DEF SignerHeld
  <2>6. ReplyInserted'
    BY <1>0, <2>1, <2>2 DEF ReplyInserted, Inserted, TypeOK
  <2>8. DeletedStaysOffline'
    BY <1>0, <2>1 DEF DeletedStaysOffline
  <2>9. QED
    BY <2>2, <2>3, <2>4, <2>5, <2>6, <2>8 DEF KeyInv
<1>4. CASE IssueReply(a)
  <2>1. Inserted(anew[a])
    BY <1>0, <1>4 DEF IssueReply, ReplyInserted
  <2>2. TypeOK'
    BY <1>0, <1>4, <2>1 DEF IssueReply, TypeOK, AdminSteps, Inserted
  <2>3. SignerHeld'
    BY <1>0, <1>4 DEF IssueReply, SignerHeld
  <2>4. ReplyInserted'
    BY <1>0, <1>4 DEF IssueReply, ReplyInserted, Inserted, TypeOK
  <2>5. QED
    BY <1>0, <1>4, <2>1, <2>2, <2>3, <2>4, RowsUntouched
    DEF IssueReply, DeletedStaysOffline
<1>5. QED
  BY <1>1, <1>2, <1>3, <1>4 DEF AdminStep

LEMMA KeyInvStep == KeyInv /\ [Next]_vars => KeyInv'
<1> SUFFICES ASSUME KeyInv, [Next]_vars PROVE KeyInv'
  OBVIOUS
<1> USE DEF serverVars, callVars, adminVars
<1>0. TypeOK /\ DeletedStaysOffline
  BY DEF KeyInv
<1>1. ASSUME NEW k \in Keys, RevokeKey(k) PROVE KeyInv'
  <2>1. status' = [j \in Keys |-> IF j \in {k} THEN "REVOKED" ELSE status[j]]
    BY <1>0, <1>1 DEF RevokeKey, TypeOK
  <2>2. {k} \in SUBSET Keys /\ \A j \in {k} : status[j] # "none"
    BY <1>1 DEF RevokeKey
  <2>3. /\ UNCHANGED <<supersedes, agentRow, held, cop, ckey, cseen, cnew, cpc, anew>>
        /\ apc' = apc /\ apc' \in [Admins -> AdminSteps]
        /\ deleted' \in BOOLEAN /\ state' \in {"UNKNOWN", "ONLINE", "OFFLINE"}
        /\ DeletedStaysOffline'
    BY <1>0, <1>1 DEF RevokeKey, TypeOK, DeletedStaysOffline
  <2>4. QED
    BY <2>1, <2>2, <2>3, RevocationPreserves
<1>2. CASE DeleteServer
  <2> DEFINE S == {k \in Keys : status[k] # "none"}
  <2>1. status' = [k \in Keys |-> IF k \in S THEN "REVOKED" ELSE status[k]]
    BY <1>2 DEF DeleteServer, RevokeAll
  <2>2. /\ UNCHANGED <<supersedes, agentRow, held, cop, ckey, cseen, cnew, cpc, anew>>
        /\ apc' = apc /\ apc' \in [Admins -> AdminSteps]
        /\ deleted' \in BOOLEAN /\ state' \in {"UNKNOWN", "ONLINE", "OFFLINE"}
        /\ DeletedStaysOffline'
    BY <1>0, <1>2 DEF DeleteServer, TypeOK, DeletedStaysOffline
  <2> HIDE DEF S
  <2>3. S \in SUBSET Keys /\ \A k \in S : status[k] # "none"
    BY DEF S
  <2>4. QED
    BY <2>1, <2>2, <2>3, RevocationPreserves
<1>3. CASE UNCHANGED vars
  BY <1>3 DEF vars, KeyInv, TypeOK, HeldInserted, SignerHeld, ReplyInserted, Inserted,
              DeletedStaysOffline, SupersededHasHeir
<1>4. QED
  BY <1>1, <1>2, <1>3, CallPreserves, AdminPreserves DEF Next

(* The four ways a step changes the rows.                                  *)
LEMMA StatusStep ==
  ASSUME KeyInv, Next
  PROVE  /\ held \subseteq held'
         /\ \/ status' = status
            \/ \E k \in Keys, st \in {"ACTIVE", "PENDING_ROTATION"} :
                 status[k] = "none" /\ status' = [status EXCEPT ![k] = st]
            \/ \E n \in held : /\ status[n] = "PENDING_ROTATION"
                               /\ status' = Promoted(n)
            \/ \E S \in SUBSET Keys :
                 status' = [k \in Keys |-> IF k \in S THEN "REVOKED" ELSE status[k]]
<1>0. TypeOK /\ SignerHeld
  BY DEF KeyInv
<1>1. ASSUME NEW c \in Calls, CallStep(c)
      PROVE  /\ held \subseteq held'
             /\ \/ status' = status
                \/ \E k \in Keys, st \in {"ACTIVE", "PENDING_ROTATION"} :
                     status[k] = "none" /\ status' = [status EXCEPT ![k] = st]
                \/ \E n \in held : /\ status[n] = "PENDING_ROTATION"
                                   /\ status' = Promoted(n)
  <2>1. CASE CommitRotation(c)
    <3>1. ckey[c] \in held
      BY <1>0, <2>1 DEF CommitRotation, SignerHeld
    <3>2. QED  BY <2>1, <3>1 DEF CommitRotation
  <2>2. ASSUME NEW k \in Keys, Rotate(c, k)
        PROVE  /\ held \subseteq held'
               /\ status[k] = "none" /\ status' = [status EXCEPT ![k] = "PENDING_ROTATION"]
    BY <2>2 DEF Rotate, Issued
  <2>3. CASE ~CommitRotation(c) /\ ~\E k \in Keys : Rotate(c, k)
    BY <1>1, <2>3 DEF CallStep, Send, Authenticate, Handshake, RotateAudit,
                      RotateReply, CallFail, keyVars
  <2>4. QED  BY <2>1, <2>2, <2>3
<1>2. ASSUME NEW a \in Admins, AdminStep(a), ~RevokePrevious(a)
      PROVE  /\ held \subseteq held'
             /\ \/ status' = status
                \/ \E k \in Keys, st \in {"ACTIVE", "PENDING_ROTATION"} :
                     status[k] = "none" /\ status' = [status EXCEPT ![k] = st]
  <2>1. CASE \E k \in Keys : IssueActive(a, k)
    <3>1. PICK k \in Keys : IssueActive(a, k)
      BY <2>1
    <3>2. status[k] = "none" /\ status' = [status EXCEPT ![k] = "ACTIVE"]
      BY <3>1 DEF IssueActive, Issued
    <3>3. held' = held
      BY <3>1 DEF IssueActive
    <3>4. QED  BY <3>2, <3>3
  <2>2. CASE ~\E k \in Keys : IssueActive(a, k)
    <3>1. status' = status
      BY <1>2, <2>2 DEF AdminStep, StartIssue, FindAgent, InsertAgent, IssueReply,
                        IssueFail, keyVars
    <3>2. held \subseteq held'
      BY <1>2, <2>2 DEF AdminStep, StartIssue, FindAgent, InsertAgent, IssueReply,
                        IssueFail
    <3>3. QED  BY <3>1, <3>2
  <2>3. QED  BY <2>1, <2>2
<1>3. ASSUME \/ \E a \in Admins : RevokePrevious(a)
             \/ DeleteServer
      PROVE  /\ held \subseteq held'
             /\ \E S \in SUBSET Keys :
                  status' = [k \in Keys |-> IF k \in S THEN "REVOKED" ELSE status[k]]
  <2> DEFINE S == {k \in Keys : status[k] # "none"}
  <2>1. status' = [k \in Keys |-> IF k \in S THEN "REVOKED" ELSE status[k]]
    BY <1>3 DEF RevokePrevious, DeleteServer, RevokeAll
  <2>2. held' = held
    BY <1>3 DEF RevokePrevious, DeleteServer
  <2>3. S \in SUBSET Keys
    OBVIOUS
  <2> HIDE DEF S
  <2>4. QED  BY <2>1, <2>2, <2>3
<1>4. ASSUME NEW j \in Keys, RevokeKey(j)
      PROVE  /\ held \subseteq held'
             /\ \E S \in SUBSET Keys :
                  status' = [k \in Keys |-> IF k \in S THEN "REVOKED" ELSE status[k]]
  <2>1. status' = [k \in Keys |-> IF k \in {j} THEN "REVOKED" ELSE status[k]]
    BY <1>0, <1>4 DEF RevokeKey, TypeOK
  <2>2. held' = held
    BY <1>4 DEF RevokeKey
  <2>3. QED  BY <2>1, <2>2
<1>5. CASE \E c \in Calls : CallStep(c)
  BY <1>1, <1>5
<1>6. CASE \E a \in Admins : AdminStep(a)
  BY <1>2, <1>3, <1>6
<1>7. CASE (\E k \in Keys : RevokeKey(k)) \/ DeleteServer
  BY <1>3, <1>4, <1>7
<1>8. QED
  BY <1>5, <1>6, <1>7 DEF Next
------------------------------------------------------------------------------
(* Every reachable state is well typed.                                    *)
THEOREM CredentialsTypeCorrect == Spec => []TypeOK
  BY KeyInvInit, KeyInvStep, PTL DEF Spec, KeyInv

(* A deleted server is never shown online again.                           *)
THEOREM DeletedOffline == Spec => []DeletedStaysOffline
  BY KeyInvInit, KeyInvStep, PTL DEF Spec, KeyInv

(* Rotation retires a key only for a successor the agent holds.            *)
THEOREM HeirBeforeRetirement == Spec => []SupersededHasHeir
  BY KeyInvInit, KeyInvStep, PTL DEF Spec, KeyInv

(* No step but a revocation takes the agent's last usable key.             *)
THEOREM NoLockOut == Spec => RotationNeverLocksOut
<1>1. ASSUME KeyInv, [Next]_vars
      PROVE  [CanSign /\ ~CanSign' =>
                \E k \in held : Usable(k) /\ status'[k] = "REVOKED"]_vars
  <2> SUFFICES ASSUME Next, CanSign, ~CanSign'
               PROVE  \E k \in held : Usable(k) /\ status'[k] = "REVOKED"
    BY <1>1
  <2>1. PICK k \in held : Usable(k)
    BY DEF CanSign
  <2>2. k \in Keys /\ status[k] # "none" /\ held \subseteq Keys
        /\ status \in [Keys -> Statuses]
    BY <1>1, <2>1 DEF KeyInv, TypeOK, HeldInserted, Inserted
  <2>3. held \subseteq held'
    BY <1>1, StatusStep
  <2>4. ~Usable(k)'
    BY <2>1, <2>3 DEF CanSign
  <2>5. CASE status' = status
    BY <2>1, <2>4, <2>5 DEF Usable
  <2>6. CASE \E j \in Keys, st \in {"ACTIVE", "PENDING_ROTATION"} :
               status[j] = "none" /\ status' = [status EXCEPT ![j] = st]
    BY <2>1, <2>2, <2>4, <2>6 DEF Usable
  <2>7. CASE \E n \in held : status[n] = "PENDING_ROTATION" /\ status' = Promoted(n)
    <3>1. PICK n \in held : status' = Promoted(n)
      BY <2>7
    <3>2. status'[n] = "ACTIVE"
      BY <2>2, <3>1 DEF Promoted
    <3>3. QED  BY <2>3, <3>2 DEF CanSign, Usable
  <2>8. CASE \E S \in SUBSET Keys :
               status' = [j \in Keys |-> IF j \in S THEN "REVOKED" ELSE status[j]]
    BY <2>1, <2>2, <2>4, <2>8 DEF Usable
  <2>9. QED
    BY <1>1, <2>5, <2>6, <2>7, <2>8, StatusStep
<1>2. QED
  BY <1>1, KeyInvInit, KeyInvStep, PTL DEF Spec, RotationNeverLocksOut

(* A superseded or revoked key never becomes usable again.                 *)
THEOREM NoResurrection == Spec => DeadKeysStayDead
<1>1. ASSUME KeyInv, [Next]_vars
      PROVE  [\A k \in Keys : status[k] \in {"SUPERSEDED", "REVOKED"} => ~Usable(k)']_vars
  <2> SUFFICES ASSUME Next, NEW k \in Keys, status[k] \in {"SUPERSEDED", "REVOKED"}
               PROVE  ~Usable(k)'
    BY <1>1
  <2>1. status \in [Keys -> Statuses]
    BY <1>1 DEF KeyInv, TypeOK
  <2>2. CASE status' = status
    BY <2>2 DEF Usable
  <2>3. CASE \E j \in Keys, st \in {"ACTIVE", "PENDING_ROTATION"} :
               status[j] = "none" /\ status' = [status EXCEPT ![j] = st]
    BY <2>1, <2>3 DEF Usable
  <2>4. CASE \E n \in held : status[n] = "PENDING_ROTATION" /\ status' = Promoted(n)
    BY <2>1, <2>4 DEF Usable, Promoted
  <2>5. CASE \E S \in SUBSET Keys :
               status' = [j \in Keys |-> IF j \in S THEN "REVOKED" ELSE status[j]]
    BY <2>1, <2>5 DEF Usable
  <2>6. QED
    BY <1>1, <2>2, <2>3, <2>4, <2>5, StatusStep
<1>2. QED
  BY <1>1, KeyInvInit, KeyInvStep, PTL DEF Spec, DeadKeysStayDead

------------------------------------------------------------------------------
(***************************************************************************)
(* Sessions.  The inductive invariant says what the rows a request has     *)
(* locked guarantee it: the users row makes creations and resets exclusive *)
(* past their first UPDATE, the link's row keeps it unconsumed, and every  *)
(* session alive when a reset is about to commit was swept by it or opened *)
(* after.                                                                  *)
(***************************************************************************)
Sound(q) ==
  /\ req[q].pc = "idle" => req[q].link = NoToken
  /\ req[q].pc \in {"sweep", "commit"} => userLock = q /\ account.gen < MaxResets
  /\ req[q].pc = "create" => userLock = q /\ ~Exists
  /\ req[q].pc \in {"password", "sweep", "commit"} /\ req[q].link \in Tokens =>
       tokLock[req[q].link] = q /\ token[req[q].link] = "live"
  /\ req[q].pc = "commit" => \A s \in Live : s \in req[q].swept \/ session[s].late

SessionsInv == SessionsTypeOK /\ \A q \in Requests : Sound(q)

Locking == {"create", "password", "sweep", "commit"}

------------------------------------------------------------------------------
(* Requests.                                                               *)

LEMMA IdleFacts ==
  /\ Idle \in Request /\ Idle.pc = "idle" /\ Idle.link = NoToken
  BY SessionsAssumption DEF Idle, Request, Steps

LEMMA UnlockedFacts ==
  ASSUME SessionsTypeOK, NEW r \in Requests
  PROVE  /\ Unlocked(r) \in [Tokens -> Requests \cup {Free}]
         /\ \A t \in Tokens : tokLock[t] # r => Unlocked(r)[t] = tokLock[t]
  BY DEF SessionsTypeOK, Unlocked

(* A request keeps what its locks guarantee, whatever others do.           *)
LEMMA KeptSound ==
  ASSUME NEW q \in Requests, Sound(q), req'[q] = req[q],
         userLock = q => userLock' = q /\ account'.gen = account.gen /\ (Exists' <=> Exists),
         \A t \in Tokens : tokLock[t] = q /\ token[t] = "live" =>
                            tokLock'[t] = q /\ token'[t] = "live",
         req[q].pc = "commit" =>
           \A s \in SessionIds : session'[s].state = "live" =>
             \/ session'[s].late
             \/ session[s].state = "live" /\ session'[s].late = session[s].late
  PROVE  Sound(q)'
<1>1. req[q].pc = "commit" => (\A s \in Live : s \in req[q].swept \/ session[s].late)'
  <2> SUFFICES ASSUME req[q].pc = "commit", NEW s \in SessionIds, session'[s].state = "live",
                      ~session'[s].late
               PROVE  s \in req[q].swept
    BY DEF Live
  <2>1. s \in Live /\ ~session[s].late
    BY DEF Live
  <2>2. QED  BY <2>1 DEF Sound
<1>2. req[q].pc \in {"sweep", "commit"} => userLock' = q /\ account'.gen < MaxResets
  BY DEF Sound
<1>3. req[q].pc = "create" => userLock' = q /\ ~Exists'
  BY DEF Sound
<1>4. req[q].pc \in {"password", "sweep", "commit"} /\ req[q].link \in Tokens =>
        tokLock'[req[q].link] = q /\ token'[req[q].link] = "live"
  BY DEF Sound
<1>5. req[q].pc = "idle" => req[q].link = NoToken
  BY DEF Sound
<1>6. QED  BY <1>1, <1>2, <1>3, <1>4, <1>5 DEF Sound

(* A step of a request that takes no lock and ends none: the login, the    *)
(* opening of a session, the reads of a registration and of a reset link.  *)
LEMMA PlainKeeps ==
  ASSUME SessionsInv, NEW r \in Requests, NEW new \in Request,
         req' = [req EXCEPT ![r] = new], new.pc \notin Locking,
         new.pc = "idle" => new.link = NoToken, UNCHANGED <<userLock, tokLock>>,
         account'.gen = account.gen, Exists' <=> Exists,
         \A t \in Tokens : tokLock[t] # Free /\ token[t] = "live" => token'[t] = "live",
         \A s \in SessionIds : session'[s] = session[s] \/ session'[s].late = Sweeping
  PROVE  req' \in [Requests -> Request] /\ \A q \in Requests : Sound(q)'
<1>1. /\ req' \in [Requests -> Request] /\ req'[r] = new
      /\ \A q \in Requests \ {r} : req'[q] = req[q]
  BY DEF SessionsInv, SessionsTypeOK
<1>2. Sound(r)'
  BY <1>1 DEF Sound, Locking
<1>3. ASSUME NEW q \in Requests \ {r} PROVE Sound(q)'
  <2>1. req[q].pc = "commit" => Sweeping
    BY DEF Sweeping
  <2>2. \A t \in Tokens : tokLock[t] = q /\ token[t] = "live" =>
                            tokLock'[t] = q /\ token'[t] = "live"
    BY SessionsAssumption
  <2>3. req[q].pc = "commit" =>
          \A s \in SessionIds : session'[s].state = "live" =>
             \/ session'[s].late
             \/ session[s].state = "live" /\ session'[s].late = session[s].late
    BY <2>1
  <2>4. QED  BY <1>1, <2>2, <2>3, KeptSound DEF SessionsInv
<1>4. QED  BY <1>1, <1>2, <1>3

(* The fields of a request that changes.                                   *)
LEMMA StepTypes ==
  ASSUME SessionsInv, NEW r \in Requests, NEW step \in Steps,
         NEW w \in Creators \cup {"none"}
  PROVE  /\ Start(r, step, w) =>
              /\ req[r].pc = "idle"
              /\ \E new \in Request : new.pc = step /\ new.who = w
                                        /\ req' = [req EXCEPT ![r] = new]
                                        /\ new.link = req[r].link
         /\ Goto(r, step) =>
              \E new \in Request : new.pc = step /\ req' = [req EXCEPT ![r] = new]
                                     /\ new.link = req[r].link /\ new.who = req[r].who
         /\ Finish(r) =>
              \E new \in Request : /\ new.pc = "idle" /\ new.link = NoToken
                                   /\ req' = [req EXCEPT ![r] = new]
<1>1. req[r] \in Request /\ req \in [Requests -> Request]
  BY DEF SessionsInv, SessionsTypeOK
<1>2. ASSUME Start(r, step, w)
      PROVE  /\ req[r].pc = "idle"
             /\ \E new \in Request : new.pc = step /\ new.who = w
                                       /\ req' = [req EXCEPT ![r] = new]
                                       /\ new.link = req[r].link
  <2> DEFINE new == [req[r] EXCEPT !.pc = step, !.who = w]
  <2>1. new \in Request /\ new.pc = step /\ new.who = w /\ new.link = req[r].link
    BY <1>1 DEF Request
  <2>2. req' = [req EXCEPT ![r] = new] /\ req[r].pc = "idle"
    BY <1>1, <1>2 DEF Start
  <2>3. QED  BY <2>1, <2>2
<1>3. ASSUME Goto(r, step)
      PROVE  \E new \in Request : new.pc = step /\ req' = [req EXCEPT ![r] = new]
                                    /\ new.link = req[r].link /\ new.who = req[r].who
  <2> DEFINE new == [req[r] EXCEPT !.pc = step]
  <2>1. /\ new \in Request /\ new.pc = step /\ new.who = req[r].who
        /\ new.link = req[r].link
    BY <1>1 DEF Request
  <2>2. req' = [req EXCEPT ![r] = new]
    BY <1>1, <1>3 DEF Goto
  <2>3. QED  BY <2>1, <2>2
<1>4. QED  BY <1>2, <1>3, IdleFacts DEF Finish

------------------------------------------------------------------------------
(* One lemma per action, or per group of actions that write alike.         *)

LEMMA LoginKeeps ==
  ASSUME SessionsInv, NEW r \in Requests,
         \/ \E right \in BOOLEAN : Login(r, right)
         \/ Refuse(r) \/ Accept(r)
  PROVE  SessionsInv'
<1>1. /\ req[r] \in Request /\ account \in [by : Creators \cup {"none"}, gen : 0..MaxResets,
                                          failed : 0..MaxFailed, locked : BOOLEAN]
      /\ UNCHANGED <<linked, token, session, userLock, tokLock>>
      /\ MaxFailed \in Nat
  BY SessionsAssumption DEF SessionsInv, SessionsTypeOK, Login, Refuse, Accept
<1>2. /\ account' \in [by : Creators \cup {"none"}, gen : 0..MaxResets,
                       failed : 0..MaxFailed, locked : BOOLEAN]
      /\ account'.gen = account.gen /\ account'.by = account.by
  <2>1. CASE \E right \in BOOLEAN : Login(r, right)
    BY <1>1, <2>1 DEF Login
  <2>2. CASE Refuse(r)
    <3>1. Least(req[r].read + 1, MaxFailed) \in 0..MaxFailed
      BY <1>1 DEF Least, Request
    <3>2. PICK l \in BOOLEAN : account' = [account EXCEPT !.failed = Least(req[r].read + 1, MaxFailed),
                                                         !.locked = l]
      BY <1>1, <2>2 DEF Refuse
    <3>3. QED  BY <1>1, <3>1, <3>2
  <2>3. CASE Accept(r)
    <3>1. 0 \in 0..MaxFailed
      BY <1>1
    <3>2. PICK l \in BOOLEAN : account' = [account EXCEPT !.failed = 0, !.locked = l]
      BY <2>3 DEF Accept
    <3>3. QED  BY <1>1, <3>1, <3>2
  <2>4. QED  BY <2>1, <2>2, <2>3
<1>3. PICK new \in Request :
        /\ req' = [req EXCEPT ![r] = new] /\ new.pc \notin Locking
        /\ new.pc = "idle" => new.link = NoToken
  <2>1. ASSUME NEW right \in BOOLEAN, Login(r, right)
        PROVE  \E new \in Request :
                 /\ req' = [req EXCEPT ![r] = new] /\ new.pc \in {"accept", "refuse"}
    <3> DEFINE new == [req[r] EXCEPT !.pc = IF right THEN "accept" ELSE "refuse",
                                     !.who = "form", !.read = account.failed]
    <3>1. new \in Request /\ new.pc \in {"accept", "refuse"}
      BY <1>1 DEF Request, Steps, Creators
    <3>2. req' = [req EXCEPT ![r] = new]
      BY <2>1 DEF Login, SessionsInv, SessionsTypeOK
    <3>3. QED  BY <3>1, <3>2
  <2>2. CASE Refuse(r)
    BY <2>2, StepTypes DEF Refuse, Locking, Steps
  <2>3. CASE Accept(r)
    <3>1. Goto(r, "open") /\ "open" \in Steps
      BY <2>3 DEF Accept, Steps
    <3>2. QED  BY <3>1, StepTypes DEF Locking
  <2>4. QED  BY <2>1, <2>2, <2>3 DEF Locking
<1>4. Exists' <=> Exists
  BY <1>2 DEF Exists
<1>5. req' \in [Requests -> Request] /\ \A q \in Requests : Sound(q)'
  BY <1>1, <1>2, <1>3, <1>4, PlainKeeps
<1>6. QED  BY <1>1, <1>2, <1>5 DEF SessionsInv, SessionsTypeOK

LEMMA OpenKeeps ==
  ASSUME SessionsInv, NEW r \in Requests, NEW s \in SessionIds, Open(r, s)
  PROVE  SessionsInv'
<1>1. /\ UNCHANGED <<account, linked, token, userLock, tokLock>>
      /\ session' = [session EXCEPT ![s] = [state |-> "live", late |-> Sweeping]]
      /\ session \in [SessionIds -> [state : {"none", "live", "dead"}, late : BOOLEAN]]
  BY DEF Open, SessionsInv, SessionsTypeOK
<1>2. Sweeping \in BOOLEAN
  BY DEF Sweeping
<1>3. /\ session' \in [SessionIds -> [state : {"none", "live", "dead"}, late : BOOLEAN]]
      /\ session'[s].late = Sweeping
      /\ \A u \in SessionIds \ {s} : session'[u] = session[u]
  BY <1>1, <1>2
<1>4. PICK new \in Request : /\ new.pc = "idle" /\ new.link = NoToken
                             /\ req' = [req EXCEPT ![r] = new]
  BY StepTypes DEF Open, Steps
<1>5. Exists' <=> Exists
  BY <1>1 DEF Exists
<1>6. req' \in [Requests -> Request] /\ \A q \in Requests : Sound(q)'
  BY <1>1, <1>3, <1>4, <1>5, PlainKeeps DEF Locking
<1>7. QED  BY <1>1, <1>3, <1>6 DEF SessionsInv, SessionsTypeOK

(* Time and the end of sessions: no request moves.                         *)
LEMMA TimeKeeps ==
  ASSUME SessionsInv,
         \/ \E s \in SessionIds : EndSession(s)
         \/ \E t \in Tokens : TokenExpires(t)
         \/ LockExpires
         \/ UNCHANGED sessionsVars
  PROVE  SessionsInv'
<1>1. SessionsTypeOK'
  <2>1. CASE \E s \in SessionIds : EndSession(s)
    BY <2>1 DEF SessionsInv, SessionsTypeOK, EndSession
  <2>2. CASE \E t \in Tokens : TokenExpires(t)
    BY <2>2 DEF SessionsInv, SessionsTypeOK, TokenExpires
  <2>3. CASE LockExpires
    <3>1. PICK l \in BOOLEAN : account' = [account EXCEPT !.locked = l]
      BY <2>3 DEF LockExpires
    <3>2. QED  BY <2>3, <3>1 DEF SessionsInv, SessionsTypeOK, LockExpires
  <2>4. CASE UNCHANGED sessionsVars
    BY <2>4 DEF SessionsInv, SessionsTypeOK, sessionsVars
  <2>5. QED  BY <2>1, <2>2, <2>3, <2>4
<1>2. /\ UNCHANGED <<userLock, tokLock, req>>
      /\ account'.gen = account.gen /\ account'.by = account.by
  BY DEF EndSession, TokenExpires, LockExpires, sessionsVars, SessionsInv, SessionsTypeOK
<1>3. \A t \in Tokens : tokLock[t] # Free => token'[t] = token[t]
  BY DEF EndSession, TokenExpires, LockExpires, sessionsVars, SessionsInv, SessionsTypeOK
<1>4. \A s \in SessionIds : session'[s].state = "live" => session'[s] = session[s]
  BY DEF EndSession, TokenExpires, LockExpires, sessionsVars, SessionsInv, SessionsTypeOK
<1>5. ASSUME NEW q \in Requests PROVE Sound(q)'
  <2>1. \A t \in Tokens : tokLock[t] = q => tokLock'[t] = q /\ token'[t] = token[t]
    BY <1>2, <1>3, SessionsAssumption
  <2>2. Exists' <=> Exists
    BY <1>2 DEF Exists
  <2>3. QED  BY <1>2, <1>4, <2>1, <2>2, KeptSound DEF SessionsInv
<1>6. QED  BY <1>1, <1>5 DEF SessionsInv

(* A request that begins, or a step that only moves on.                    *)
LEMMA StartKeeps ==
  ASSUME SessionsInv, NEW r \in Requests, NEW step \in Steps, NEW w \in Creators,
         Start(r, step, w), step \notin Locking, step # "idle",
         UNCHANGED <<account, token, session, userLock, tokLock>>,
         linked' \subseteq Identities
  PROVE  SessionsInv'
<1>1. PICK new \in Request : new.pc = step /\ req' = [req EXCEPT ![r] = new]
  BY StepTypes
<1>2. Exists' <=> Exists
  BY DEF Exists
<1>3. req' \in [Requests -> Request] /\ \A q \in Requests : Sound(q)'
  BY <1>1, <1>2, PlainKeeps
<1>4. QED  BY <1>3 DEF SessionsInv, SessionsTypeOK

LEMMA BeginKeeps ==
  ASSUME SessionsInv, NEW r \in Requests,
         \/ Register(r) \/ Ask(r)
         \/ \E d \in Identities : Discord(r, d) \/ DiscordLink(r, d) \/ DiscordProvision(r, d)
  PROVE  SessionsInv'
<1>1. {"open", "insert", "consume"} \subseteq Steps \ Locking /\ "form" \in Creators
      /\ Identities \subseteq Creators /\ linked \subseteq Identities
  BY DEF Steps, Locking, Creators, SessionsInv, SessionsTypeOK
<1>2. CASE Register(r) \/ Ask(r)
  BY <1>1, <1>2, StartKeeps DEF Register, Ask
<1>3. ASSUME NEW d \in Identities, Discord(r, d) \/ DiscordLink(r, d) \/ DiscordProvision(r, d)
      PROVE  SessionsInv'
  <2>1. linked' \subseteq Identities
    BY <1>1, <1>3 DEF Discord, DiscordLink, DiscordProvision
  <2>2. QED  BY <1>1, <1>3, <2>1, StartKeeps DEF Discord, DiscordLink, DiscordProvision
<1>4. QED  BY <1>2, <1>3

LEMMA LinkKeeps ==
  ASSUME SessionsInv, NEW r \in Requests,
         Consume(r) \/ \E t \in Tokens : Issue(r, t)
  PROVE  SessionsInv'
<1>1. /\ token' \in [Tokens -> {"none", "live", "expired", "consumed"}]
      /\ UNCHANGED <<account, linked, session, userLock, tokLock>>
  BY DEF Consume, Issue, SessionsInv, SessionsTypeOK
<1>2. \A t \in Tokens : tokLock[t] # Free /\ token[t] = "live" => token'[t] = "live"
  BY DEF Consume, Issue, Unconsumed, SessionsInv, SessionsTypeOK
<1>3. PICK new \in Request : /\ req' = [req EXCEPT ![r] = new] /\ new.pc \notin Locking
                             /\ new.pc = "idle" => new.link = NoToken
  <2>1. CASE Consume(r)
    <3>1. Goto(r, "issue") /\ "issue" \in Steps
      BY <2>1 DEF Consume, Steps
    <3>2. QED  BY <3>1, StepTypes DEF Locking
  <2>2. CASE \E t \in Tokens : Issue(r, t)
    BY <2>2, StepTypes DEF Issue, Locking, Steps
  <2>3. QED  BY <2>1, <2>2
<1>4. Exists' <=> Exists
  BY <1>1 DEF Exists
<1>5. req' \in [Requests -> Request] /\ \A q \in Requests : Sound(q)'
  BY <1>1, <1>2, <1>3, <1>4, PlainKeeps
<1>6. QED  BY <1>1, <1>5 DEF SessionsInv, SessionsTypeOK

(* The other requests, when one writes rows it has locked or nobody has.   *)
LEMMA OthersKeep ==
  ASSUME SessionsInv, NEW r \in Requests, NEW new \in Request,
         req' = [req EXCEPT ![r] = new],
         \/ UNCHANGED <<userLock, account>>
         \/ userLock = Free /\ UNCHANGED account
         \/ userLock = r,
         \A t \in Tokens : \/ tokLock'[t] = tokLock[t] /\ token'[t] = token[t]
                           \/ tokLock[t] \in {r, Free},
         UNCHANGED session \/ userLock = r
  PROVE  /\ req' \in [Requests -> Request] /\ req'[r] = new
         /\ \A q \in Requests \ {r} : req'[q] = req[q] /\ Sound(q)'
<1>1. /\ req' \in [Requests -> Request] /\ req'[r] = new
      /\ \A q \in Requests \ {r} : req'[q] = req[q]
  BY DEF SessionsInv, SessionsTypeOK
<1>2. ASSUME NEW q \in Requests \ {r} PROVE Sound(q)'
  <2>1. userLock = q => userLock' = q /\ account' = account
    BY SessionsAssumption
  <2>2. userLock = q => account'.gen = account.gen /\ (Exists' <=> Exists)
    BY <2>1 DEF Exists
  <2>3. \A t \in Tokens : tokLock[t] = q /\ token[t] = "live" =>
                            tokLock'[t] = q /\ token'[t] = "live"
    BY SessionsAssumption
  <2>4. req[q].pc = "commit" => UNCHANGED session
    BY DEF SessionsInv, Sound
  <2>5. QED  BY <1>1, <2>1, <2>2, <2>3, <2>4, KeptSound DEF SessionsInv
<1>3. QED  BY <1>1, <1>2

LEMMA InsertKeeps ==
  ASSUME SessionsInv, NEW r \in Requests, Insert(r)
  PROVE  SessionsInv'
<1>1. UNCHANGED <<account, linked, token, session, tokLock>> /\ userLock = Free
  BY DEF Insert
<1>2. CASE Exists
  <2>1. Finish(r) /\ UNCHANGED userLock
    BY <1>2 DEF Insert
  <2>2. PICK new \in Request : /\ new.pc = "idle" /\ new.link = NoToken
                               /\ req' = [req EXCEPT ![r] = new]
    BY <2>1, StepTypes DEF Steps
  <2>3. /\ req' \in [Requests -> Request] /\ req'[r] = new
        /\ \A q \in Requests \ {r} : Sound(q)'
    BY <1>1, <2>2, OthersKeep
  <2>4. Sound(r)'
    BY <2>2, <2>3 DEF Sound
  <2>5. QED  BY <1>1, <2>1, <2>3, <2>4 DEF SessionsInv, SessionsTypeOK
<1>3. CASE ~Exists
  <2>1. userLock' = r /\ Goto(r, "create") /\ "create" \in Steps
    BY <1>3 DEF Insert, Steps
  <2>2. PICK new \in Request : new.pc = "create" /\ req' = [req EXCEPT ![r] = new]
    BY <2>1, StepTypes
  <2>3. /\ req' \in [Requests -> Request] /\ req'[r] = new
        /\ \A q \in Requests \ {r} : Sound(q)'
    BY <1>1, <2>2, OthersKeep
  <2>4. Sound(r)'
    BY <1>1, <1>3, <2>1, <2>2, <2>3 DEF Sound, Exists
  <2>5. QED  BY <1>1, <2>1, <2>3, <2>4 DEF SessionsInv, SessionsTypeOK
<1>4. QED  BY <1>2, <1>3

(* COMMIT of a new account.                                                *)
LEMMA CreateKeeps ==
  ASSUME SessionsInv, NEW r \in Requests, Create(r)
  PROVE  SessionsInv'
<1>1. /\ req[r] \in Request /\ userLock = r /\ userLock' = Free
      /\ account' = [account EXCEPT !.by = req[r].who]
      /\ linked' = linked \cup (Identities \cap {req[r].who})
      /\ UNCHANGED <<token, session, tokLock>>
  BY DEF SessionsInv, SessionsTypeOK, Sound, Create
<1>2. PICK new \in Request : /\ req' = [req EXCEPT ![r] = new] /\ new.pc \in {"idle", "open"}
                             /\ new.pc = "idle" => new.link = NoToken
  <2>1. CASE Finish(r)
    BY <2>1, StepTypes DEF Steps
  <2>2. CASE Goto(r, "open")
    <3>1. "open" \in Steps
      BY DEF Steps
    <3>2. QED  BY <2>2, <3>1, StepTypes
  <2>3. QED  BY <2>1, <2>2 DEF Create
<1>3. /\ req' \in [Requests -> Request] /\ req'[r] = new
      /\ \A q \in Requests \ {r} : Sound(q)'
  BY <1>1, <1>2, OthersKeep
<1>4. Sound(r)'
  BY <1>2, <1>3 DEF Sound
<1>5. account' \in [by : Creators \cup {"none"}, gen : 0..MaxResets,
                    failed : 0..MaxFailed, locked : BOOLEAN]
  BY <1>1 DEF SessionsInv, SessionsTypeOK, Request
<1>6. QED  BY <1>1, <1>3, <1>4, <1>5 DEF SessionsInv, SessionsTypeOK

(* A reset begins, with a link it locks or from the script.                *)
LEMMA PresentKeeps ==
  ASSUME SessionsInv, NEW r \in Requests,
         AdminReset(r) \/ \E t \in Tokens : Present(r, t)
  PROVE  SessionsInv'
<1>1. /\ req[r] \in Request /\ req[r].pc = "idle" /\ req[r].link = NoToken
      /\ UNCHANGED <<account, linked, token, session, userLock>>
  BY DEF SessionsInv, SessionsTypeOK, Sound, AdminReset, Present, Start
<1>2. CASE AdminReset(r)
  <2>1. PICK new \in Request : /\ new.pc = "password" /\ new.link = NoToken
                               /\ req' = [req EXCEPT ![r] = new]
    <3>1. "password" \in Steps /\ Start(r, "password", "none")
      BY <1>2 DEF Steps, AdminReset
    <3>2. QED  BY <1>1, <3>1, StepTypes
  <2>2. UNCHANGED tokLock
    BY <1>2 DEF AdminReset
  <2>3. /\ req' \in [Requests -> Request] /\ req'[r] = new
        /\ \A q \in Requests \ {r} : Sound(q)'
    BY <1>1, <2>1, <2>2, OthersKeep
  <2>4. Sound(r)'
    BY <2>1, <2>3, SessionsAssumption DEF Sound
  <2>5. QED  BY <1>1, <2>2, <2>3, <2>4 DEF SessionsInv, SessionsTypeOK
<1>3. ASSUME NEW t \in Tokens, Present(r, t)
      PROVE  SessionsInv'
  <2> DEFINE new == [req[r] EXCEPT !.pc = "password", !.link = t]
  <2>1. new \in Request /\ new.pc = "password" /\ new.link = t
    BY <1>1 DEF Request, Steps
  <2>2. /\ req' = [req EXCEPT ![r] = new] /\ tokLock' = [tokLock EXCEPT ![t] = r]
        /\ token[t] = "live" /\ tokLock[t] = Free
    BY <1>3 DEF Present, SessionsInv, SessionsTypeOK
  <2> HIDE DEF new
  <2>3. /\ tokLock' \in [Tokens -> Requests \cup {Free}] /\ tokLock'[t] = r
        /\ \A u \in Tokens \ {t} : tokLock'[u] = tokLock[u]
    BY <2>2 DEF SessionsInv, SessionsTypeOK
  <2>4. /\ req' \in [Requests -> Request] /\ req'[r] = new
        /\ \A q \in Requests \ {r} : Sound(q)'
    BY <1>1, <2>1, <2>2, <2>3, OthersKeep
  <2>5. Sound(r)'
    BY <1>1, <2>1, <2>2, <2>3, <2>4 DEF Sound
  <2>6. QED  BY <1>1, <2>3, <2>4, <2>5 DEF SessionsInv, SessionsTypeOK
<1>4. QED  BY <1>2, <1>3

LEMMA PasswordKeeps ==
  ASSUME SessionsInv, NEW r \in Requests, Password(r)
  PROVE  SessionsInv'
<1>1. /\ req[r].pc = "password" /\ userLock = Free /\ userLock' = r
      /\ account.gen < MaxResets /\ Goto(r, "sweep")
      /\ UNCHANGED <<account, linked, token, session, tokLock>>
  BY DEF Password
<1>2. PICK new \in Request : /\ new.pc = "sweep" /\ new.link = req[r].link
                             /\ req' = [req EXCEPT ![r] = new]
  <2>1. "sweep" \in Steps
    BY DEF Steps
  <2>2. QED  BY <1>1, <2>1, StepTypes
<1>3. /\ req' \in [Requests -> Request] /\ req'[r] = new
      /\ \A q \in Requests \ {r} : Sound(q)'
  BY <1>1, <1>2, OthersKeep
<1>4. Sound(r)'
  BY <1>1, <1>2, <1>3 DEF SessionsInv, Sound
<1>5. QED  BY <1>1, <1>3, <1>4 DEF SessionsInv, SessionsTypeOK

LEMMA SweepKeeps ==
  ASSUME SessionsInv, NEW r \in Requests, Sweep(r)
  PROVE  SessionsInv'
<1> DEFINE new == [req[r] EXCEPT !.pc = "commit", !.swept = Live]
<1>1. /\ req[r].pc = "sweep" /\ req[r] \in Request /\ req' = [req EXCEPT ![r] = new]
      /\ UNCHANGED <<account, linked, token, session, userLock, tokLock>>
  BY DEF Sweep, SessionsInv, SessionsTypeOK
<1>2. /\ new \in Request /\ new.pc = "commit" /\ new.link = req[r].link
      /\ new.swept = Live
  BY <1>1 DEF Request, Steps, Live
<1> HIDE DEF new
<1>3. /\ req' \in [Requests -> Request] /\ req'[r] = new
      /\ \A q \in Requests \ {r} : Sound(q)'
  BY <1>1, <1>2, OthersKeep
<1>4. Sound(r)'
  BY <1>1, <1>2, <1>3 DEF SessionsInv, Sound, Live
<1>5. QED  BY <1>1, <1>3, <1>4 DEF SessionsInv, SessionsTypeOK

(* The reset that commits is the only one that has swept.                  *)
LEMMA CommitKeeps ==
  ASSUME SessionsInv, NEW r \in Requests, CommitReset(r)
  PROVE  SessionsInv'
<1>1. /\ userLock = r /\ userLock' = Free /\ account.gen < MaxResets
      /\ account' = [account EXCEPT !.gen = account.gen + 1, !.failed = 0, !.locked = FALSE]
      /\ tokLock' = Unlocked(r) /\ UNCHANGED linked
      /\ token' = [t \in Tokens |-> IF t = req[r].link THEN "consumed" ELSE token[t]]
      /\ session' = Settled(req[r].swept) /\ Finish(r)
      /\ req[r].link \in Tokens => tokLock[req[r].link] = r
  BY DEF SessionsInv, SessionsTypeOK, Sound, CommitReset
<1>2. PICK new \in Request : /\ new.pc = "idle" /\ new.link = NoToken
                             /\ req' = [req EXCEPT ![r] = new]
  BY <1>1, StepTypes DEF Steps
<1>3. \A t \in Tokens : \/ tokLock'[t] = tokLock[t] /\ token'[t] = token[t]
                        \/ tokLock[t] \in {r, Free}
  BY <1>1, UnlockedFacts DEF SessionsInv
<1>4. /\ req' \in [Requests -> Request] /\ req'[r] = new
      /\ \A q \in Requests \ {r} : Sound(q)'
  BY <1>1, <1>2, <1>3, OthersKeep
<1>5. Sound(r)'
  BY <1>2, <1>4 DEF Sound
<1>6. account' \in [by : Creators \cup {"none"}, gen : 0..MaxResets,
                    failed : 0..MaxFailed, locked : BOOLEAN]
  <2>1. account.gen + 1 \in 0..MaxResets /\ 0 \in 0..MaxFailed
    BY <1>1, SessionsAssumption DEF SessionsInv, SessionsTypeOK
  <2>2. PICK l \in BOOLEAN :
          account' = [account EXCEPT !.gen = account.gen + 1, !.failed = 0, !.locked = l]
    BY <1>1
  <2>3. QED  BY <2>1, <2>2 DEF SessionsInv, SessionsTypeOK
<1>7. /\ token' \in [Tokens -> {"none", "live", "expired", "consumed"}]
      /\ session' \in [SessionIds -> [state : {"none", "live", "dead"}, late : BOOLEAN]]
      /\ tokLock' \in [Tokens -> Requests \cup {Free}]
  BY <1>1, UnlockedFacts DEF SessionsInv, SessionsTypeOK, Settled
<1>8. QED  BY <1>1, <1>4, <1>5, <1>6, <1>7 DEF SessionsInv, SessionsTypeOK

LEMMA FailKeeps ==
  ASSUME SessionsInv, NEW r \in Requests, Fail(r)
  PROVE  SessionsInv'
<1>1. /\ tokLock' = Unlocked(r) /\ Finish(r)
      /\ UNCHANGED <<account, linked, token>>
      /\ userLock' = IF userLock = r THEN Free ELSE userLock
  BY DEF Fail
<1>2. /\ UNCHANGED session \/ userLock = r
      /\ session' \in [SessionIds -> [state : {"none", "live", "dead"}, late : BOOLEAN]]
  BY DEF Fail, SessionsInv, Sound, SessionsTypeOK, Settled
<1>3. PICK new \in Request : /\ new.pc = "idle" /\ new.link = NoToken
                             /\ req' = [req EXCEPT ![r] = new]
  BY <1>1, StepTypes DEF Steps
<1>4. \A t \in Tokens : \/ tokLock'[t] = tokLock[t] /\ token'[t] = token[t]
                        \/ tokLock[t] \in {r, Free}
  BY <1>1, UnlockedFacts DEF SessionsInv
<1>5. /\ req' \in [Requests -> Request] /\ req'[r] = new
      /\ \A q \in Requests \ {r} : Sound(q)'
  BY <1>1, <1>2, <1>3, <1>4, OthersKeep
<1>6. Sound(r)'
  BY <1>3, <1>5 DEF Sound
<1>7. userLock' \in Requests \cup {Free} /\ tokLock' \in [Tokens -> Requests \cup {Free}]
  BY <1>1, UnlockedFacts DEF SessionsInv, SessionsTypeOK
<1>8. QED  BY <1>1, <1>2, <1>5, <1>6, <1>7 DEF SessionsInv, SessionsTypeOK

------------------------------------------------------------------------------
(* The invariant.                                                          *)

LEMMA InitHolds == SessionsInit => SessionsInv
<1> SUFFICES ASSUME SessionsInit PROVE SessionsInv
  OBVIOUS
<1>1. \A r \in Requests : req[r] = Idle
  BY DEF SessionsInit
<1>2. SessionsTypeOK
  <2>1. account \in [by : Creators \cup {"none"}, gen : 0..MaxResets,
                     failed : 0..MaxFailed, locked : BOOLEAN]
    <3>1. 0 \in 0..MaxResets /\ 0 \in 0..MaxFailed
      BY SessionsAssumption
    <3>2. PICK l \in BOOLEAN : account = [by |-> "none", gen |-> 0, failed |-> 0, locked |-> l]
      BY DEF SessionsInit
    <3>3. QED  BY <3>1, <3>2
  <2>2. session \in [SessionIds -> [state : {"none", "live", "dead"}, late : BOOLEAN]]
    <3>1. [state |-> "none", late |-> FALSE] \in [state : {"none", "live", "dead"}, late : BOOLEAN]
      OBVIOUS
    <3>2. QED  BY <3>1 DEF SessionsInit
  <2>3. QED  BY <2>1, <2>2, IdleFacts DEF SessionsInit, SessionsTypeOK
<1>3. \A q \in Requests : Sound(q)
  BY <1>1, IdleFacts DEF Sound
<1>4. QED  BY <1>2, <1>3 DEF SessionsInv

LEMMA StepKeeps ==
  ASSUME SessionsInv, [SessionsNext]_sessionsVars
  PROVE  SessionsInv'
<1>1. ASSUME NEW r \in Requests,
             \/ \E right \in BOOLEAN : Login(r, right)
             \/ Refuse(r) \/ Accept(r)
             \/ \E s \in SessionIds : Open(r, s)
      PROVE  SessionsInv'
  BY <1>1, LoginKeeps, OpenKeeps
<1>2. ASSUME NEW r \in Requests,
             \/ Register(r) \/ Ask(r)
             \/ \E d \in Identities : Discord(r, d) \/ DiscordLink(r, d) \/ DiscordProvision(r, d)
             \/ Insert(r) \/ Create(r)
      PROVE  SessionsInv'
  BY <1>2, BeginKeeps, InsertKeeps, CreateKeeps
<1>3. ASSUME NEW r \in Requests,
             \/ Consume(r) \/ \E t \in Tokens : Issue(r, t) \/ Present(r, t)
             \/ AdminReset(r)
      PROVE  SessionsInv'
  BY <1>3, LinkKeeps, PresentKeeps
<1>4. ASSUME NEW r \in Requests, Password(r) \/ Sweep(r) \/ CommitReset(r) \/ Fail(r)
      PROVE  SessionsInv'
  BY <1>4, PasswordKeeps, SweepKeeps, CommitKeeps, FailKeeps
<1>5. CASE \/ \E s \in SessionIds : EndSession(s)
           \/ \E t \in Tokens : TokenExpires(t)
           \/ LockExpires
           \/ UNCHANGED sessionsVars
  BY <1>5, TimeKeeps
<1>6. QED  BY <1>1, <1>2, <1>3, <1>4, <1>5 DEF SessionsNext

(* Only the COMMIT of a reset raises the password's generation.            *)
LEMMA ResetOnly ==
  ASSUME SessionsInv, [SessionsNext]_sessionsVars, account'.gen > account.gen
  PROVE  \E r \in Requests : CommitReset(r)
<1>1. account.gen \in Nat
  BY SessionsAssumption DEF SessionsInv, SessionsTypeOK
<1>2. account'.gen # account.gen
  BY <1>1
<1>3. QED
  BY <1>2 DEF SessionsNext, sessionsVars, SessionsInv, SessionsTypeOK, Login, Refuse, Accept, Open, Register,
     Discord, DiscordLink, DiscordProvision, Insert, Create, Ask, Consume, Issue, Present,
     AdminReset, Password, Sweep, Fail, EndSession, TokenExpires, LockExpires

------------------------------------------------------------------------------
(* Theorems.                                                               *)

(* The invariant holds in every state of every behaviour.                  *)
THEOREM InvHolds == SessionsSpec => []SessionsInv
<1>1. SessionsInv /\ [SessionsNext]_sessionsVars => SessionsInv'
  BY StepKeeps
<1>2. QED  BY InitHolds, <1>1, PTL DEF SessionsSpec

(* Every state is well typed: each statement of a login, a registration or *)
(* a reset finds what it reads (sessions.ts:88-700).                       *)
THEOREM SessionsTypeCorrect == SessionsSpec => []SessionsTypeOK
  BY InvHolds, PTL DEF SessionsInv

(* A session that survives a reset opened after its sweep, for any number  *)
(* of sessions and requests (sessions.ts:468-510).                         *)
THEOREM ResetEnds == SessionsSpec => ResetEndsSessions
<1>1. SessionsInv /\ [SessionsNext]_sessionsVars =>
        [account'.gen > account.gen =>
           \A s \in Live : session'[s].state = "live" => session[s].late]_sessionsVars
  <2> SUFFICES ASSUME SessionsInv, [SessionsNext]_sessionsVars, account'.gen > account.gen,
                      NEW s \in Live, session'[s].state = "live"
               PROVE  session[s].late
    OBVIOUS
  <2>1. PICK r \in Requests : CommitReset(r)
    BY ResetOnly
  <2>2. s \in req[r].swept \/ session[s].late
    BY <2>1 DEF SessionsInv, Sound, CommitReset
  <2>3. s \notin req[r].swept
    BY <2>1 DEF CommitReset, Settled, Live
  <2>4. QED  BY <2>2, <2>3
<1>2. QED  BY InvHolds, <1>1, PTL DEF SessionsSpec, ResetEndsSessions

(* A spent link never changes the password (sessions.ts:451-456, 472-473). *)
THEOREM SpentLinks == SessionsSpec => SpentLinksChangeNothing
<1>1. SessionsInv /\ [SessionsNext]_sessionsVars =>
        [\A r \in Requests, t \in Tokens :
           account'.gen > account.gen /\ req[r].link = t /\ req'[r] # req[r] =>
             token[t] # "consumed"]_sessionsVars
  <2> SUFFICES ASSUME SessionsInv, [SessionsNext]_sessionsVars, account'.gen > account.gen,
                      NEW r \in Requests, NEW t \in Tokens, req[r].link = t,
                      req'[r] # req[r]
               PROVE  token[t] # "consumed"
    OBVIOUS
  <2>1. PICK q \in Requests : CommitReset(q)
    BY ResetOnly
  <2>2. q = r
    BY <2>1 DEF CommitReset, Finish, SessionsInv, SessionsTypeOK
  <2>3. QED  BY <2>1, <2>2 DEF CommitReset, SessionsInv, Sound
<1>2. QED  BY InvHolds, <1>1, PTL DEF SessionsSpec, SpentLinksChangeNothing

(* A lock ends by time, by a login under way or by a reset, never by a     *)
(* late failure (sessions.ts:223-247).                                     *)
THEOREM LockOutlives == SessionsSpec => LockOutlivesFailures
<1>1. SessionsInv /\ [SessionsNext]_sessionsVars =>
        [account.locked /\ ~account'.locked =>
           \/ UNCHANGED req
           \/ \E r \in Requests : req[r].pc \in {"accept", "commit"} /\ req'[r] # req[r]]_sessionsVars
  <2> SUFFICES ASSUME SessionsInv, [SessionsNext]_sessionsVars, account.locked, ~account'.locked
               PROVE  \/ UNCHANGED req
                      \/ \E r \in Requests :
                           req[r].pc \in {"accept", "commit"} /\ req'[r] # req[r]
    OBVIOUS
  <2>1. ASSUME NEW r \in Requests, Accept(r)
        PROVE  req[r].pc = "accept" /\ req'[r] # req[r]
    BY <2>1 DEF Accept, Goto, SessionsInv, SessionsTypeOK, Request
  <2>2. ASSUME NEW r \in Requests, CommitReset(r)
        PROVE  req[r].pc = "commit" /\ req'[r] # req[r]
    BY <2>2, IdleFacts DEF CommitReset, Finish, SessionsInv, SessionsTypeOK
  <2>3. ASSUME NEW r \in Requests, Refuse(r) PROVE FALSE
    BY <2>3 DEF Refuse, SessionsInv, SessionsTypeOK
  <2>4. ASSUME NEW r \in Requests, Create(r) PROVE FALSE
    BY <2>4 DEF Create, SessionsInv, SessionsTypeOK
  <2>5. CASE LockExpires
    BY <2>5 DEF LockExpires
  <2>6. CASE UNCHANGED account
    BY <2>6
  <2>7. QED
    BY <2>1, <2>2, <2>3, <2>4, <2>5, <2>6 DEF SessionsNext, sessionsVars, Login, Open, Register, Discord,
       DiscordLink, DiscordProvision, Insert, Ask, Consume, Issue, Present, AdminReset,
       Password, Sweep, Fail, EndSession, TokenExpires
<1>2. QED  BY InvHolds, <1>1, PTL DEF SessionsSpec, LockOutlivesFailures

(* The account stays with whoever created it, whatever raced on the email  *)
(* (sessions.ts:100-114 and 605-661).                                      *)
THEOREM StaysTheirs == SessionsSpec => AccountStaysTheirs
<1>1. SessionsInv /\ [SessionsNext]_sessionsVars =>
        [Exists => /\ account'.by = account.by
                   /\ linked' # linked => \E r \in Requests :
                        req[r].pc = "idle" /\ req'[r].who \in linked']_sessionsVars
  <2> SUFFICES ASSUME SessionsInv, [SessionsNext]_sessionsVars, Exists
               PROVE  /\ account'.by = account.by
                      /\ linked' # linked => \E r \in Requests :
                           req[r].pc = "idle" /\ req'[r].who \in linked'
    OBVIOUS
  <2>1. ASSUME NEW r \in Requests, Create(r) PROVE FALSE
    BY <2>1 DEF Create, SessionsInv, Sound
  <2>2. account'.by = account.by
    BY <2>1 DEF SessionsNext, sessionsVars, SessionsInv, SessionsTypeOK, Login, Refuse, Accept, Open, Register,
       Discord, DiscordLink, DiscordProvision, Insert, Ask, Consume, Issue, Present,
       AdminReset, Password, Sweep, CommitReset, Fail, EndSession, TokenExpires, LockExpires
  <2>3. \/ UNCHANGED linked
        \/ \E r \in Requests, d \in Identities : DiscordLink(r, d)
    BY <2>1 DEF SessionsNext, sessionsVars, Login, Refuse, Accept, Open, Register,
       Discord, DiscordProvision, Insert, Ask, Consume, Issue, Present,
       AdminReset, Password, Sweep, CommitReset, Fail, EndSession, TokenExpires, LockExpires
  <2>4. ASSUME NEW r \in Requests, NEW d \in Identities, DiscordLink(r, d)
        PROVE  req[r].pc = "idle" /\ req'[r].who \in linked'
    <3>1. "open" \in Steps /\ d \in Creators /\ Start(r, "open", d) /\ linked' = {d}
      BY <2>4 DEF Steps, Creators, DiscordLink
    <3>2. PICK new \in Request : new.who = d /\ req' = [req EXCEPT ![r] = new]
      BY <3>1, StepTypes
    <3>3. req'[r].who = d
      BY <3>2 DEF SessionsInv, SessionsTypeOK
    <3>4. QED  BY <3>1, <3>3 DEF Start
  <2>5. QED  BY <2>2, <2>3, <2>4
<1>2. QED  BY InvHolds, <1>1, PTL DEF SessionsSpec, AccountStaysTheirs
==============================================================================

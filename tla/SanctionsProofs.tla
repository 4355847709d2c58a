--------------------------- MODULE SanctionsProofs ---------------------------
(***************************************************************************)
(* Proofs about Sanctions.  The inductive invariant has three parts, one   *)
(* for the bans and the locks of the requests that decide on them, one for *)
(* the appeals, one for the shared network; a step that does not concern a *)
(* part keeps it by one of the lemmas BansKeep, AppealsKeep, NetworkKeeps. *)
(***************************************************************************)
EXTENDS Sanctions, FiniteSetTheorems, TLAPS

Reviewing == {"find", "displace", "settle", "commit"}
Outcomes  == {"ACTIVE", "KICKED", "DISMISSED"}

(* The rows a request has written.                                         *)
Holds(q, b) ==
  \/ b \in req[q].lifted
  \/ req[q].pc = "commit" /\ req[q].to # "none" /\ b = req[q].ban

Locked(q) ==
  /\ \A b \in Bans : lock[b] = q <=> Holds(q, b)
  /\ req[q].lifted \subseteq Active

(* What a request knows of its ban, for each step: the row it is about to  *)
(* commit is one it has locked as new or PENDING, and a review that found  *)
(* the sanction settled never sees it PENDING again.                       *)
BanSound(q) ==
  LET b == req[q].ban
      s == req[q].to
  IN
  /\ req[q].pc \notin {"settle", "commit"} => req[q].lifted = {}
  /\ req[q].pc \in Reviewing => b \in Bans
  /\ req[q].pc \in Reviewing /\ req[q].lifted # {} => s \in {"ACTIVE", "none"}
  /\ req[q].pc \in {"find", "displace"} => s = "ACTIVE"
  /\ req[q].pc \in {"find", "displace", "settle"} => status[b] # "none" /\ s \in Outcomes
  /\ req[q].pc = "displace" => req[q].found \in Bans
  /\ req[q].pc = "commit" =>
       \/ s = "none" /\ status[b] \notin {"none", "PENDING"}
       \/ s = "ACTIVE" /\ status[b] = "none"
       \/ s \in Outcomes /\ status[b] = "PENDING"

(* One request at most is about to make a ban ACTIVE, and it has lifted    *)
(* the one there was.                                                      *)
Activating(q) == req[q].pc = "commit" /\ req[q].to = "ACTIVE"

ActivatingAlone ==
  \A q \in Requests : Activating(q) =>
    /\ Active \subseteq req[q].lifted
    /\ \A p \in Requests \ {q} : ~Activating(p)

BansInv ==
  /\ \A q \in Requests : BanSound(q) /\ Locked(q)
  /\ ActivatingAlone /\ OneActiveBan

(* A request that appeals has read a ban that was ACTIVE, one that decides *)
(* has locked its appeal PENDING; a ban under appeal was ACTIVE.           *)
AppealSound(q) ==
  /\ req[q].pc = "submit" =>
       req[q].found \in Bans /\ status[req[q].found] \in {"ACTIVE", "LIFTED"}
  /\ req[q].pc = "resolve" =>
       /\ req[q].appeal \in Appeals /\ req[q].decision \in {"APPROVED", "REJECTED"}
       /\ appLock[req[q].appeal] = q /\ appeal[req[q].appeal].status = "PENDING"

Appealed ==
  \A a \in Appeals : appeal[a].status # "none" =>
    appeal[a].ban \in Bans /\ status[appeal[a].ban] \in {"ACTIVE", "LIFTED"}

AppealsInv ==
  /\ \A q \in Requests : AppealSound(q)
  /\ Appealed /\ ApprovedAppealsHold

(* A request about to count knows whether its organization reports first,  *)
(* and no other is about to count the same one.                            *)
Counting(q) == req[q].pc = "count" /\ req[q].fresh

NetworkInv ==
  /\ \A q \in Requests :
       req[q].pc = "count" => (req[q].fresh <=> req[q].org \notin reporter)
  /\ \A p, q \in Requests :
       Counting(p) /\ Counting(q) /\ req[p].org = req[q].org => p = q
  /\ OrgsCountedOnce

SanctionsInv == TypeOK /\ BansInv /\ AppealsInv /\ NetworkInv

------------------------------------------------------------------------------
(* How a status moves.                                                     *)

Moves(b) ==
  \/ status[b] = "none" /\ status'[b] \in {"PENDING", "ACTIVE"}
  \/ status[b] = "PENDING" /\ status'[b] \in Outcomes
  \/ status[b] = "ACTIVE" /\ status'[b] = "LIFTED"

StatusStep == \A b \in Bans : status'[b] = status[b] \/ Moves(b)

LEMMA IdleFacts ==
  /\ Idle \in Request /\ Idle.pc = "idle" /\ Idle.lifted = {} /\ Idle.to = "none"
  BY SanctionsAssumption DEF Idle, Request, Steps, Statuses, Decisions

(* A transaction that ends holds nothing.                                  *)
LEMMA UnlockedFacts ==
  ASSUME NEW K, NEW locks \in [K -> Requests \cup {Free}], NEW r \in Requests
  PROVE  /\ Unlocked(r, locks) \in [K -> Requests \cup {Free}]
         /\ \A k \in K : Unlocked(r, locks)[k] # r
         /\ \A k \in K, q \in Requests \ {r} : Unlocked(r, locks)[k] = q <=> locks[k] = q
  BY SanctionsAssumption DEF Unlocked

(* A request keeps what it knows of its ban while others move rows it has  *)
(* not locked.                                                             *)
LEMMA KeptBan ==
  ASSUME NEW q \in Requests, BanSound(q), Locked(q), req'[q] = req[q],
         \A b \in Bans : status'[b] = status[b] \/ (Moves(b) /\ lock[b] # q),
         \A b \in Bans : lock'[b] = q <=> lock[b] = q,
         req[q].lifted \subseteq Bans
  PROVE  BanSound(q)' /\ Locked(q)'
<1>1. \A b \in Bans : lock[b] = q => status'[b] = status[b]
  OBVIOUS
<1>2. \A b \in Bans : status[b] # "none" => status'[b] # "none"
  BY DEF Moves, Outcomes
<1>3. \A b \in Bans : status[b] \notin {"none", "PENDING"} =>
                        status'[b] \notin {"none", "PENDING"}
  BY DEF Moves
<1>4. Locked(q)'
  <2>1. \A b \in Bans : Holds(q, b)' <=> Holds(q, b)
    BY DEF Holds
  <2>2. \A b \in req[q].lifted : lock[b] = q /\ status[b] = "ACTIVE"
    BY DEF Locked, Holds, Active
  <2>3. QED  BY <1>1, <2>1, <2>2 DEF Locked, Active
<1>5. BanSound(q)'
  <2>1. req[q].pc = "commit" /\ req[q].to # "none" => status'[req[q].ban] = status[req[q].ban]
    BY <1>1 DEF BanSound, Reviewing, Locked, Holds
  <2>2. QED  BY <1>2, <1>3, <2>1 DEF BanSound, Reviewing
<1>6. QED  BY <1>4, <1>5

LEMMA BansKeep ==
  ASSUME SanctionsInv, UNCHANGED bans,
         \A q \in Requests :
           \/ req'[q] = req[q]
           \/ /\ req[q].pc \notin Reviewing /\ req'[q].pc \notin Reviewing
              /\ req'[q].lifted = {}
  PROVE  BansInv'
<1>1. ASSUME NEW q \in Requests PROVE (BanSound(q) /\ Locked(q))'
  <2>1. CASE req'[q] = req[q]
    BY <2>1, KeptBan DEF SanctionsInv, BansInv, bans, TypeOK, Request
  <2>2. CASE req'[q] # req[q]
    BY <2>2 DEF SanctionsInv, BansInv, bans, BanSound, Locked, Holds, Reviewing
  <2>3. QED  BY <2>1, <2>2
<1>2. \A q \in Requests : Activating(q)' => Activating(q) /\ req'[q] = req[q]
  BY DEF Activating, Reviewing
<1>3. ActivatingAlone' /\ OneActiveBan'
  BY <1>2 DEF SanctionsInv, BansInv, bans, ActivatingAlone, OneActiveBan, Active
<1>4. QED  BY <1>1, <1>3 DEF BansInv

LEMMA AppealsKeep ==
  ASSUME SanctionsInv, UNCHANGED appeal, StatusStep,
         \A q \in Requests :
           req'[q].pc \in {"submit", "resolve"} =>
             req'[q] = req[q] /\ \A a \in Appeals : appLock[a] = q => appLock'[a] = q
  PROVE  AppealsInv'
<1>1. \A q \in Requests : AppealSound(q)'
  BY DEF SanctionsInv, AppealsInv, AppealSound, StatusStep, Moves
<1>2. Appealed' /\ ApprovedAppealsHold'
  BY DEF SanctionsInv, AppealsInv, Appealed, ApprovedAppealsHold, StatusStep, Moves
<1>3. QED  BY <1>1, <1>2 DEF AppealsInv

LEMMA NetworkKeeps ==
  ASSUME SanctionsInv, UNCHANGED <<reporter, orgCount>>,
         \A q \in Requests : req'[q].pc = "count" => req'[q] = req[q]
  PROVE  NetworkInv'
  BY DEF SanctionsInv, NetworkInv, Counting, OrgsCountedOnce

(* The other requests, when one acts on rows it has locked or nobody has.  *)
LEMMA OthersKeep ==
  ASSUME SanctionsInv, NEW r \in Requests,
         \A q \in Requests \ {r} : req'[q] = req[q],
         \A b \in Bans : status'[b] = status[b] \/ (Moves(b) /\ lock[b] \in {r, Free}),
         \A b \in Bans, q \in Requests \ {r} : lock'[b] = q <=> lock[b] = q
  PROVE  \A q \in Requests \ {r} : BanSound(q)' /\ Locked(q)'
<1> SUFFICES ASSUME NEW q \in Requests \ {r} PROVE BanSound(q)' /\ Locked(q)'
  OBVIOUS
<1>1. \A b \in Bans : status'[b] = status[b] \/ (Moves(b) /\ lock[b] # q)
  BY SanctionsAssumption
<1>2. req[q].lifted \subseteq Bans
  BY DEF SanctionsInv, TypeOK, Request
<1>3. QED  BY <1>1, <1>2, KeptBan DEF SanctionsInv, BansInv

------------------------------------------------------------------------------
(* One lemma per action.                                                   *)

LEMMA BanKeeps ==
  ASSUME SanctionsInv, NEW r \in Requests, NEW b \in Bans, NEW posted \in BOOLEAN,
         Ban(r, b, posted)
  PROVE  SanctionsInv'
<1> DEFINE new == [req[r] EXCEPT !.pc = "commit", !.ban = b, !.to = "ACTIVE",
                                 !.posted = posted]
           shared == [req[r] EXCEPT !.pc = "share"]
<1>1. req \in [Requests -> Request] /\ lock \in [Bans -> Requests \cup {Free}]
      /\ req[r] \in Request /\ req[r].pc = "idle" /\ req[r].lifted = {}
  BY DEF SanctionsInv, TypeOK, Ban, BansInv, BanSound
<1>2. /\ new \in Request /\ new.pc = "commit" /\ new.ban = b /\ new.to = "ACTIVE"
      /\ new.lifted = {} /\ shared \in Request /\ shared.pc = "share" /\ shared.lifted = {}
  BY <1>1 DEF Request, Steps, Statuses
<1>3. CASE Active = {}
  <2>1. /\ lock' = [lock EXCEPT ![b] = r] /\ req' = [req EXCEPT ![r] = new]
        /\ status' = status
    BY <1>3 DEF Ban
  <2> HIDE DEF new, shared
  <2>2. /\ req' \in [Requests -> Request] /\ req'[r] = new
        /\ \A q \in Requests \ {r} : req'[q] = req[q]
        /\ lock' \in [Bans -> Requests \cup {Free}] /\ lock'[b] = r
        /\ \A c \in Bans \ {b} : lock'[c] = lock[c]
    BY <1>1, <1>2, <2>1
  <2>3. lock[b] = Free /\ status[b] = "none" /\ IndexFree(r)
    BY DEF Ban
  <2>4. \A q \in Requests \ {r} : BanSound(q)' /\ Locked(q)'
    BY <2>1, <2>2, <2>3, OthersKeep, SanctionsAssumption
  <2>5. \A c \in Bans : lock[c] # r
    BY <1>1 DEF SanctionsInv, BansInv, Locked, Holds
  <2>6. BanSound(r)' /\ Locked(r)'
    BY <1>2, <2>1, <2>2, <2>3, <2>5 DEF BanSound, Locked, Holds, Reviewing
  <2>7. ActivatingAlone' /\ OneActiveBan'
    BY <1>3, <2>1, <2>2, <2>3 DEF ActivatingAlone, Activating, OneActiveBan, Active, IndexFree
  <2>8. BansInv'
    BY <2>4, <2>6, <2>7 DEF BansInv
  <2>9. AppealsInv'
    BY <1>2, <2>1, <2>2, AppealsKeep DEF Ban, appeals, StatusStep
  <2>10. NetworkInv'
    BY <1>2, <2>2, NetworkKeeps DEF Ban, told
  <2>11. QED
    BY <2>1, <2>2, <2>8, <2>9, <2>10 DEF SanctionsInv, TypeOK, Ban, appeals, told
<1>4. CASE Active # {}
  <2>1. req' = [req EXCEPT ![r] = shared] /\ UNCHANGED <<bans, appeals, told>>
    BY <1>4 DEF Ban, Goto, bans
  <2> HIDE DEF new, shared
  <2>2. /\ req' \in [Requests -> Request] /\ req'[r] = shared
        /\ \A q \in Requests \ {r} : req'[q] = req[q]
    BY <1>1, <1>2, <2>1
  <2>3. BansInv'
    BY <1>1, <1>2, <2>1, <2>2, BansKeep DEF Reviewing
  <2>4. AppealsInv' /\ NetworkInv'
    BY <1>2, <2>1, <2>2, AppealsKeep, NetworkKeeps DEF bans, appeals, told, StatusStep
  <2>5. QED
    BY <2>1, <2>2, <2>3, <2>4 DEF SanctionsInv, TypeOK, bans, appeals, told
<1>5. QED  BY <1>3, <1>4

(* Proposing and lifting: one statement on a row nobody has written.       *)
LEMMA RowKeeps ==
  ASSUME SanctionsInv, NEW b \in Bans, Propose(b) \/ Lift(b)
  PROVE  SanctionsInv'
<1>1. /\ lock[b] = Free /\ UNCHANGED <<lock, appeals, told, req>>
      /\ status' \in [Bans -> Statuses] /\ Moves(b)
      /\ \A c \in Bans \ {b} : status'[c] = status[c]
      /\ status'[b] # "ACTIVE"
  BY DEF Propose, Lift, Moves, SanctionsInv, TypeOK, Statuses
<1>2. \A c \in Bans : status'[c] = status[c] \/ (Moves(c) /\ lock[c] = Free)
  BY <1>1
<1>3. ASSUME NEW q \in Requests PROVE BanSound(q)' /\ Locked(q)'
  <2>1. req[q].lifted \subseteq Bans
    BY DEF SanctionsInv, TypeOK, Request
  <2>2. \A c \in Bans : status'[c] = status[c] \/ (Moves(c) /\ lock[c] # q)
    BY <1>2, SanctionsAssumption
  <2>3. QED  BY <1>1, <2>1, <2>2, KeptBan DEF SanctionsInv, BansInv
<1>4. ActivatingAlone' /\ OneActiveBan'
  BY <1>1 DEF SanctionsInv, BansInv, ActivatingAlone, Activating, OneActiveBan, Active
<1>5. BansInv'
  BY <1>3, <1>4 DEF BansInv
<1>6. AppealsInv' /\ NetworkInv'
  BY <1>1, <1>2, AppealsKeep, NetworkKeeps DEF StatusStep, appeals, told
<1>7. QED
  BY <1>1, <1>5, <1>6 DEF SanctionsInv, TypeOK, appeals, told

(* A step of a review that writes nothing yet.                             *)
LEMMA ReadKeeps ==
  ASSUME SanctionsInv, NEW r \in Requests, NEW new \in Request,
         req' = [req EXCEPT ![r] = new], UNCHANGED <<bans, appeals, told>>,
         req[r].pc \in {"idle", "find", "displace"}, new.lifted = {},
         new.pc \in {"find", "displace", "settle"}, new.ban \in Bans,
         new.to \in Outcomes, new.pc \in {"find", "displace"} => new.to = "ACTIVE",
         status[new.ban] # "none", new.pc = "displace" => new.found \in Bans
  PROVE  SanctionsInv'
<1>1. /\ req' \in [Requests -> Request] /\ req'[r] = new
      /\ \A q \in Requests \ {r} : req'[q] = req[q]
  BY DEF SanctionsInv, TypeOK
<1>2. \A q \in Requests \ {r} : BanSound(q)' /\ Locked(q)'
  BY <1>1, OthersKeep DEF bans
<1>3. \A c \in Bans : lock[c] # r
  BY DEF SanctionsInv, BansInv, BanSound, Locked, Holds
<1>4. BanSound(r)' /\ Locked(r)'
  BY <1>1, <1>3 DEF BanSound, Locked, Holds, bans
<1>5. ActivatingAlone' /\ OneActiveBan'
  BY <1>1 DEF SanctionsInv, BansInv, ActivatingAlone, Activating, OneActiveBan, Active, bans
<1>6. BansInv'
  BY <1>2, <1>4, <1>5 DEF BansInv
<1>7. AppealsInv' /\ NetworkInv'
  BY <1>1, AppealsKeep, NetworkKeeps DEF StatusStep, bans, appeals, told
<1>8. QED
  BY <1>1, <1>6, <1>7 DEF SanctionsInv, TypeOK, bans, appeals, told

LEMMA LoadKeeps ==
  ASSUME SanctionsInv, NEW r \in Requests, NEW b \in Bans, NEW s \in Outcomes,
         Load(r, b, s)
  PROVE  SanctionsInv'
<1> DEFINE new == [req[r] EXCEPT !.pc = IF s = "ACTIVE" THEN "find" ELSE "settle",
                                 !.ban = b, !.to = s, !.tells = Feedback(b, s)]
<1>1. req[r] \in Request /\ req[r].pc = "idle" /\ req[r].lifted = {}
      /\ status[b] = "PENDING" /\ req' = [req EXCEPT ![r] = new]
      /\ UNCHANGED <<bans, appeals, told>>
  BY DEF SanctionsInv, TypeOK, BansInv, BanSound, Load
<1>2. /\ new \in Request /\ new.ban = b /\ new.to = s /\ new.lifted = {}
      /\ new.pc = IF s = "ACTIVE" THEN "find" ELSE "settle"
  <2>1. Feedback(b, s) \in SUBSET (Bans \X Verdicts)
    BY DEF Feedback, Verdicts
  <2>2. QED  BY <1>1, <2>1 DEF Request, Steps, Statuses, Outcomes
<1> HIDE DEF new
<1>3. QED  BY <1>1, <1>2, ReadKeeps

LEMMA FindKeeps ==
  ASSUME SanctionsInv, NEW r \in Requests, Find(r)
  PROVE  SanctionsInv'
<1>1. /\ req[r] \in Request /\ req[r].pc = "find" /\ req[r].lifted = {}
      /\ req[r].ban \in Bans /\ req[r].to = "ACTIVE" /\ status[req[r].ban] # "none"
      /\ UNCHANGED <<bans, appeals, told>>
  BY DEF SanctionsInv, TypeOK, BansInv, BanSound, Find, Reviewing
<1>2. CASE Active = {} /\ Goto(r, "settle")
  <2> DEFINE new == [req[r] EXCEPT !.pc = "settle"]
  <2>1. /\ new \in Request /\ new.pc = "settle" /\ new.ban = req[r].ban
        /\ new.to = "ACTIVE" /\ new.lifted = {}
    BY <1>1 DEF Request, Steps
  <2>2. req' = [req EXCEPT ![r] = new]
    BY <1>2 DEF Goto
  <2> HIDE DEF new
  <2>3. QED  BY <1>1, <2>1, <2>2, ReadKeeps DEF Outcomes
<1>3. ASSUME NEW b \in Active,
             req' = [req EXCEPT ![r] = [@ EXCEPT !.pc = "displace", !.found = b]]
      PROVE  SanctionsInv'
  <2> DEFINE new == [req[r] EXCEPT !.pc = "displace", !.found = b]
  <2>1. /\ new \in Request /\ new.pc = "displace" /\ new.ban = req[r].ban
        /\ new.to = "ACTIVE" /\ new.lifted = {} /\ new.found \in Bans
    BY <1>1, <1>3 DEF Request, Steps, Active
  <2>2. req' = [req EXCEPT ![r] = new]
    BY <1>3
  <2> HIDE DEF new
  <2>3. QED  BY <1>1, <2>1, <2>2, ReadKeeps DEF Outcomes
<1>4. QED  BY <1>2, <1>3 DEF Find

(* The parts a step of the review's transaction does not concern.          *)
LEMMA ReviewRest ==
  ASSUME SanctionsInv, NEW r \in Requests, StatusStep, UNCHANGED <<appeals, told>>,
         req'[r].pc \notin {"submit", "resolve", "count"},
         \A q \in Requests \ {r} : req'[q] = req[q]
  PROVE  AppealsInv' /\ NetworkInv'
  BY AppealsKeep, NetworkKeeps DEF appeals, told

LEMMA DisplaceKeeps ==
  ASSUME SanctionsInv, NEW r \in Requests, Displace(r)
  PROVE  SanctionsInv'
<1> DEFINE b == req[r].found
           new == [req[r] EXCEPT !.pc = "settle", !.lifted = {b}]
           missed == [req[r] EXCEPT !.pc = "settle"]
<1>1. /\ req \in [Requests -> Request] /\ lock \in [Bans -> Requests \cup {Free}]
      /\ req[r] \in Request /\ req[r].pc = "displace" /\ req[r].lifted = {}
      /\ req[r].ban \in Bans /\ req[r].to = "ACTIVE" /\ status[req[r].ban] # "none"
      /\ b \in Bans /\ lock[b] = Free /\ UNCHANGED <<status, appeals, told>>
  BY DEF SanctionsInv, TypeOK, BansInv, BanSound, Displace, Reviewing
<1>2. /\ new \in Request /\ new.pc = "settle" /\ new.ban = req[r].ban
      /\ new.to = "ACTIVE" /\ new.lifted = {b}
      /\ missed \in Request /\ missed.pc = "settle" /\ missed.ban = req[r].ban
      /\ missed.to = "ACTIVE" /\ missed.lifted = {}
  BY <1>1 DEF Request, Steps
<1>3. CASE status[b] = "ACTIVE"
  <2>1. lock' = [lock EXCEPT ![b] = r] /\ req' = [req EXCEPT ![r] = new]
    BY <1>3 DEF Displace
  <2> HIDE DEF new, missed, b
  <2>2. /\ req' \in [Requests -> Request] /\ req'[r] = new
        /\ \A q \in Requests \ {r} : req'[q] = req[q]
        /\ lock' \in [Bans -> Requests \cup {Free}] /\ lock'[b] = r
        /\ \A c \in Bans \ {b} : lock'[c] = lock[c]
    BY <1>1, <1>2, <2>1
  <2>3. \A q \in Requests \ {r} : BanSound(q)' /\ Locked(q)'
    BY <1>1, <2>2, OthersKeep, SanctionsAssumption
  <2>4. \A c \in Bans : lock[c] # r
    BY <1>1 DEF SanctionsInv, BansInv, Locked, Holds
  <2>5. BanSound(r)' /\ Locked(r)'
    BY <1>1, <1>2, <1>3, <2>2, <2>4 DEF BanSound, Locked, Holds, Active, Reviewing, Outcomes
  <2>6. ActivatingAlone' /\ OneActiveBan'
    BY <1>1, <1>2, <2>2 DEF SanctionsInv, BansInv, ActivatingAlone, Activating,
       OneActiveBan, Active
  <2>7. BansInv'
    BY <2>3, <2>5, <2>6 DEF BansInv
  <2>8. AppealsInv' /\ NetworkInv'
    BY <1>1, <1>2, <2>2, ReviewRest DEF StatusStep
  <2>9. QED
    BY <1>1, <2>2, <2>7, <2>8 DEF SanctionsInv, TypeOK, appeals, told
<1>4. CASE status[b] # "ACTIVE"
  <2>1. req' = [req EXCEPT ![r] = missed] /\ UNCHANGED bans
    BY <1>1, <1>4 DEF Displace, Goto, bans
  <2> HIDE DEF new, missed, b
  <2>2. QED  BY <1>1, <1>2, <2>1, ReadKeeps DEF Outcomes
<1>5. QED  BY <1>3, <1>4

(* A request gives back its locks without writing anything.                *)
LEMMA GiveUp ==
  ASSUME SanctionsInv, NEW r \in Requests, lock' = Unlocked(r, lock), Finish(r),
         UNCHANGED <<status, appeal, told>>,
         appLock' = appLock \/ appLock' = Unlocked(r, appLock)
  PROVE  SanctionsInv'
<1>1. /\ req' \in [Requests -> Request] /\ req'[r] = Idle
      /\ \A q \in Requests \ {r} : req'[q] = req[q]
  BY IdleFacts DEF SanctionsInv, TypeOK, Finish
<1>2. /\ lock' \in [Bans -> Requests \cup {Free}] /\ \A c \in Bans : lock'[c] # r
      /\ \A c \in Bans, q \in Requests \ {r} : lock'[c] = q <=> lock[c] = q
  BY UnlockedFacts DEF SanctionsInv, TypeOK
<1>3. /\ appLock' \in [Appeals -> Requests \cup {Free}]
      /\ \A a \in Appeals, q \in Requests \ {r} : appLock'[a] = q <=> appLock[a] = q
  BY UnlockedFacts DEF SanctionsInv, TypeOK
<1>4. \A q \in Requests \ {r} : BanSound(q)' /\ Locked(q)'
  BY <1>1, <1>2, OthersKeep
<1>5. BanSound(r)' /\ Locked(r)'
  BY <1>1, <1>2, IdleFacts DEF BanSound, Locked, Holds, Reviewing
<1>6. ActivatingAlone' /\ OneActiveBan'
  BY <1>1, IdleFacts DEF SanctionsInv, BansInv, ActivatingAlone, Activating,
     OneActiveBan, Active
<1>7. BansInv'
  BY <1>4, <1>5, <1>6 DEF BansInv
<1>8. AppealsInv'
  BY <1>1, <1>3, IdleFacts, AppealsKeep DEF StatusStep
<1>9. NetworkInv'
  BY <1>1, IdleFacts, NetworkKeeps DEF told
<1>10. QED
  BY <1>1, <1>2, <1>3, <1>7, <1>8, <1>9 DEF SanctionsInv, TypeOK, told

LEMMA SettleKeeps ==
  ASSUME SanctionsInv, NEW r \in Requests, Settle(r)
  PROVE  SanctionsInv'
<1> DEFINE b == req[r].ban
           new == [req[r] EXCEPT !.pc = "commit"]
           late == [req[r] EXCEPT !.pc = "commit", !.to = "none"]
<1>1. /\ req \in [Requests -> Request] /\ lock \in [Bans -> Requests \cup {Free}]
      /\ req[r] \in Request /\ req[r].pc = "settle" /\ req[r].to \in Outcomes
      /\ req[r].lifted # {} => req[r].to = "ACTIVE"
      /\ b \in Bans /\ status[b] # "none" /\ lock[b] \in {r, Free}
      /\ UNCHANGED <<status, appeals, told>>
  BY DEF SanctionsInv, TypeOK, BansInv, BanSound, Settle, Reviewing, Outcomes
<1>2. /\ new \in Request /\ new.pc = "commit" /\ new.ban = b
      /\ new.to = req[r].to /\ new.lifted = req[r].lifted
      /\ late \in Request /\ late.pc = "commit" /\ late.ban = b
      /\ late.to = "none" /\ late.lifted = req[r].lifted
  BY <1>1 DEF Request, Steps, Statuses
<1>3. BanSound(r) /\ Locked(r)
  BY DEF SanctionsInv, BansInv
<1>4. CASE status[b] # "PENDING"
  <2>1. lock' = lock /\ req' = [req EXCEPT ![r] = late]
    BY <1>4 DEF Settle
  <2> HIDE DEF new, late
  <2>2. /\ req' \in [Requests -> Request] /\ req'[r] = late
        /\ \A q \in Requests \ {r} : req'[q] = req[q]
    BY <1>1, <1>2, <2>1
  <2>3. \A q \in Requests \ {r} : BanSound(q)' /\ Locked(q)'
    BY <1>1, <2>1, <2>2, OthersKeep
  <2>4. BanSound(r)' /\ Locked(r)'
    BY <1>1, <1>2, <1>3, <1>4, <2>1, <2>2 DEF BanSound, Locked, Holds, Active, Reviewing
  <2>5. ActivatingAlone' /\ OneActiveBan'
    BY <1>1, <1>2, <2>2 DEF SanctionsInv, BansInv, ActivatingAlone, Activating,
       OneActiveBan, Active
  <2>6. AppealsInv' /\ NetworkInv'
    BY <1>1, <1>2, <2>2, ReviewRest DEF StatusStep
  <2>7. QED
    BY <1>1, <2>1, <2>2, <2>3, <2>4, <2>5, <2>6 DEF SanctionsInv, BansInv, TypeOK,
       appeals, told
<1>f. status[b] = "PENDING" => lock[b] = Free
  BY <1>1, <1>3 DEF Locked, Holds, Active
<1>5. CASE status[b] = "PENDING" /\ req[r].to = "ACTIVE" /\ Active \ req[r].lifted # {}
  <2>1. lock' = Unlocked(r, lock) /\ Finish(r)
    BY <1>5 DEF Settle
  <2>2. QED  BY <1>1, <2>1, GiveUp DEF appeals
<1>6. CASE status[b] = "PENDING" /\ ~(req[r].to = "ACTIVE" /\ Active \ req[r].lifted # {})
  <2>1. /\ lock' = [lock EXCEPT ![b] = r] /\ req' = [req EXCEPT ![r] = new]
        /\ req[r].to = "ACTIVE" => IndexFree(r)
    BY <1>6 DEF Settle, Goto
  <2> HIDE DEF new, late
  <2>2. /\ req' \in [Requests -> Request] /\ req'[r] = new
        /\ \A q \in Requests \ {r} : req'[q] = req[q]
        /\ lock' \in [Bans -> Requests \cup {Free}] /\ lock'[b] = r
        /\ \A c \in Bans \ {b} : lock'[c] = lock[c]
    BY <1>1, <1>2, <2>1
  <2>3. \A q \in Requests \ {r} : BanSound(q)' /\ Locked(q)'
    BY <1>1, <1>6, <1>f, <2>2, OthersKeep, SanctionsAssumption
  <2>4. BanSound(r)' /\ Locked(r)'
    <3>1. BanSound(r)'
      BY <1>1, <1>2, <1>6, <2>2 DEF BanSound, Reviewing, Outcomes
    <3>2. \A c \in Bans : Holds(r, c)' <=> c \in req[r].lifted \/ c = b
      BY <1>1, <1>2, <2>2 DEF Holds, Outcomes
    <3>3. \A c \in Bans : Holds(r, c) <=> c \in req[r].lifted
      BY <1>1 DEF Holds
    <3>4. Locked(r)'
      BY <1>1, <1>2, <1>3, <2>2, <3>2, <3>3 DEF Locked, Active
    <3>5. QED  BY <3>1, <3>4
  <2>5. ActivatingAlone'
    BY <1>1, <1>2, <1>6, <2>1, <2>2 DEF SanctionsInv, BansInv, ActivatingAlone,
       Activating, Active, IndexFree
  <2>6. OneActiveBan'
    BY <1>1 DEF SanctionsInv, BansInv, OneActiveBan, Active
  <2>7. AppealsInv' /\ NetworkInv'
    BY <1>1, <1>2, <2>2, ReviewRest DEF StatusStep
  <2>8. QED
    BY <1>1, <2>2, <2>3, <2>4, <2>5, <2>6, <2>7 DEF SanctionsInv, BansInv, TypeOK,
       appeals, told
<1>7. QED  BY <1>4, <1>5, <1>6

(* What COMMIT does to each row: those lifted end, the request's own moves *)
(* if it was still to be decided.                                          *)
LEMMA CommitFacts ==
  ASSUME SanctionsInv, NEW r \in Requests, Commit(r)
  PROVE  /\ req[r].pc = "commit" /\ BanSound(r) /\ Locked(r)
         /\ status' \in [Bans -> Statuses]
         /\ \A b \in Bans : status'[b] = status[b] \/ (Moves(b) /\ lock[b] = r)
         /\ \A b \in Bans : status'[b] = "ACTIVE" <=>
              \/ status[b] = "ACTIVE" /\ b \notin req[r].lifted
              \/ b = req[r].ban /\ req[r].to = "ACTIVE"
<1>1. /\ req[r].pc = "commit" /\ BanSound(r) /\ Locked(r)
      /\ req[r].lifted \subseteq Active /\ req[r].ban \in Bans
      /\ req[r] \in Request /\ status \in [Bans -> Statuses]
  BY DEF SanctionsInv, TypeOK, BansInv, Locked, Commit, BanSound, Reviewing
<1>2. \A b \in Bans :
        status'[b] = IF b \in req[r].lifted THEN "LIFTED"
                     ELSE IF b = req[r].ban /\ req[r].to # "none" THEN req[r].to
                     ELSE status[b]
  BY DEF Commit
<1>3. status' \in [Bans -> Statuses]
  BY <1>1 DEF Commit, Statuses, Request
<1>4. ASSUME NEW b \in req[r].lifted
      PROVE  Moves(b) /\ lock[b] = r /\ status[b] = "ACTIVE" /\ status'[b] = "LIFTED"
  BY <1>1, <1>2 DEF Moves, Locked, Holds, Active
<1>5. CASE req[r].to = "none"
  <2>1. \A b \in Bans : b \notin req[r].lifted => status'[b] = status[b]
    BY <1>2, <1>5
  <2>2. QED  BY <1>1, <1>3, <1>4, <1>5, <2>1
<1>6. CASE req[r].to # "none"
  <2>1. /\ status[req[r].ban] \in {"none", "PENDING"} /\ req[r].ban \notin req[r].lifted
        /\ Moves(req[r].ban) /\ lock[req[r].ban] = r
        /\ status'[req[r].ban] = req[r].to
    <3>1. \/ req[r].to = "ACTIVE" /\ status[req[r].ban] = "none"
          \/ req[r].to \in Outcomes /\ status[req[r].ban] = "PENDING"
      BY <1>1, <1>6 DEF BanSound
    <3>2. req[r].ban \notin req[r].lifted
      BY <1>1, <3>1 DEF Active
    <3>3. status'[req[r].ban] = req[r].to
      BY <1>1, <1>2, <1>6, <3>2
    <3>4. lock[req[r].ban] = r
      BY <1>1, <1>6 DEF Locked, Holds
    <3>5. QED  BY <3>1, <3>2, <3>3, <3>4 DEF Moves
  <2>2. \A b \in Bans : b \notin req[r].lifted /\ b # req[r].ban => status'[b] = status[b]
    BY <1>2
  <2>3. QED  BY <1>1, <1>3, <1>4, <2>1, <2>2
<1>7. QED  BY <1>5, <1>6

LEMMA CommitKeeps ==
  ASSUME SanctionsInv, NEW r \in Requests, Commit(r)
  PROVE  SanctionsInv'
<1> DEFINE shared == [Idle EXCEPT !.pc = "share"]
<1>1. /\ shared \in Request /\ shared.pc = "share" /\ shared.lifted = {}
  BY IdleFacts DEF Request, Steps
<1>2. PICK new \in {Idle, shared} : req' = [req EXCEPT ![r] = new]
  BY DEF Commit, Finish
<1>3. new \in Request /\ new.pc \in {"idle", "share"} /\ new.lifted = {}
  BY <1>1, <1>2, IdleFacts
<1> HIDE DEF shared
<1>4. /\ req' \in [Requests -> Request] /\ req'[r] = new
      /\ \A q \in Requests \ {r} : req'[q] = req[q]
  BY <1>2, <1>3 DEF SanctionsInv, TypeOK
<1>5. /\ lock' \in [Bans -> Requests \cup {Free}] /\ \A c \in Bans : lock'[c] # r
      /\ \A c \in Bans, q \in Requests \ {r} : lock'[c] = q <=> lock[c] = q
  BY UnlockedFacts DEF SanctionsInv, TypeOK, Commit
<1>6. \A q \in Requests \ {r} : BanSound(q)' /\ Locked(q)'
  BY <1>4, <1>5, CommitFacts, OthersKeep
<1>7. BanSound(r)' /\ Locked(r)'
  BY <1>3, <1>4, <1>5 DEF BanSound, Locked, Holds, Reviewing
<1>8. ActivatingAlone' /\ OneActiveBan'
  <2>1. CASE req[r].to = "ACTIVE"
    <3>1. /\ Active \subseteq req[r].lifted
          /\ \A q \in Requests \ {r} : ~Activating(q)
      BY <2>1, CommitFacts DEF SanctionsInv, BansInv, ActivatingAlone, Activating
    <3>2. \A b \in Active' : b = req[r].ban
      BY <3>1, CommitFacts DEF Active
    <3>3. \A q \in Requests : ~Activating(q)'
      BY <1>3, <1>4, <3>1 DEF Activating
    <3>4. QED  BY <3>2, <3>3 DEF ActivatingAlone, OneActiveBan
  <2>2. CASE req[r].to # "ACTIVE"
    <3>1. Active' \subseteq Active
      BY <2>2, CommitFacts DEF Active
    <3>2. \A q \in Requests : Activating(q)' => Activating(q) /\ req'[q] = req[q]
      BY <1>3, <1>4 DEF Activating
    <3>3. QED
      BY <3>1, <3>2 DEF SanctionsInv, BansInv, ActivatingAlone, OneActiveBan
  <2>3. QED  BY <2>1, <2>2
<1>9. BansInv'
  BY <1>6, <1>7, <1>8 DEF BansInv
<1>10. StatusStep /\ UNCHANGED <<appeals, shares, reporter, orgCount>>
  BY CommitFacts DEF StatusStep, Commit
<1>11. AppealsInv' /\ NetworkInv'
  BY <1>3, <1>4, <1>10, AppealsKeep, NetworkKeeps DEF appeals
<1>12. feedback' \subseteq Bans \X Verdicts
  BY DEF Commit, SanctionsInv, TypeOK, Request
<1>13. QED
  BY <1>4, <1>5, <1>9, <1>10, <1>11, <1>12, CommitFacts DEF SanctionsInv, TypeOK, appeals

------------------------------------------------------------------------------
(* Appeals.                                                                *)

(* The player's request has read an ACTIVE ban.                            *)
LEMMA SubmitKeeps ==
  ASSUME SanctionsInv, NEW r \in Requests, Submit(r)
  PROVE  SanctionsInv'
<1>1. PICK b \in Active :
        req' = [req EXCEPT ![r] = [@ EXCEPT !.pc = "submit", !.found = b]]
  BY DEF Submit
<1> DEFINE new == [req[r] EXCEPT !.pc = "submit", !.found = b]
<1>2. /\ req[r] \in Request /\ req[r].pc = "idle" /\ req[r].lifted = {}
      /\ b \in Bans /\ status[b] = "ACTIVE" /\ req' = [req EXCEPT ![r] = new]
      /\ UNCHANGED <<bans, appeals, told>>
  BY <1>1 DEF SanctionsInv, TypeOK, BansInv, BanSound, Submit, Active
<1>3. new \in Request /\ new.pc = "submit" /\ new.found = b /\ new.lifted = {}
  BY <1>2 DEF Request, Steps
<1> HIDE DEF new
<1>4. /\ req' \in [Requests -> Request] /\ req'[r] = new
      /\ \A q \in Requests \ {r} : req'[q] = req[q]
  BY <1>2, <1>3 DEF SanctionsInv, TypeOK
<1>5. BansInv'
  BY <1>2, <1>3, <1>4, BansKeep DEF Reviewing
<1>6. \A q \in Requests : AppealSound(q)'
  BY <1>2, <1>3, <1>4 DEF SanctionsInv, AppealsInv, AppealSound, bans, appeals
<1>7. Appealed' /\ ApprovedAppealsHold'
  BY <1>2 DEF SanctionsInv, AppealsInv, Appealed, ApprovedAppealsHold, bans, appeals
<1>8. NetworkInv'
  BY <1>2, <1>3, <1>4, NetworkKeeps DEF told
<1>9. QED
  BY <1>2, <1>4, <1>5, <1>6, <1>7, <1>8 DEF SanctionsInv, AppealsInv, TypeOK, bans,
     appeals, told

(* The appeal is inserted for a ban that is still ACTIVE, or was lifted.   *)
LEMMA InsertKeeps ==
  ASSUME SanctionsInv, NEW r \in Requests, NEW a \in Appeals, InsertAppeal(r, a)
  PROVE  SanctionsInv'
<1> DEFINE b == req[r].found
<1>1. /\ req[r].pc = "submit" /\ b \in Bans /\ status[b] \in {"ACTIVE", "LIFTED"}
      /\ appeal[a].status = "none" /\ UNCHANGED <<bans, appLock, told>>
      /\ appeal' = [appeal EXCEPT ![a] = [ban |-> b, status |-> "PENDING"]]
  BY DEF InsertAppeal, SanctionsInv, AppealsInv, AppealSound
<1>2. /\ appeal' \in [Appeals -> [ban : Bans \cup {NoBan}, status : Decisions]]
      /\ appeal'[a].ban = b /\ appeal'[a].status = "PENDING"
      /\ \A c \in Appeals \ {a} : appeal'[c] = appeal[c]
  BY <1>1 DEF SanctionsInv, TypeOK, Decisions
<1>3. /\ req' \in [Requests -> Request] /\ req'[r] = Idle
      /\ \A q \in Requests \ {r} : req'[q] = req[q]
  BY IdleFacts DEF SanctionsInv, TypeOK, Finish, InsertAppeal
<1>4. BansInv'
  BY <1>1, <1>3, IdleFacts, BansKeep DEF Reviewing
<1>5. \A q \in Requests : AppealSound(q)'
  BY <1>1, <1>2, <1>3, IdleFacts DEF SanctionsInv, AppealsInv, AppealSound, bans
<1>6. Appealed' /\ ApprovedAppealsHold'
  BY <1>1, <1>2 DEF SanctionsInv, AppealsInv, Appealed, ApprovedAppealsHold, bans
<1>7. NetworkInv'
  BY <1>1, <1>3, IdleFacts, NetworkKeeps DEF told
<1>8. QED
  BY <1>1, <1>2, <1>3, <1>4, <1>5, <1>6, <1>7 DEF SanctionsInv, AppealsInv, TypeOK,
     bans, told

LEMMA DecideKeeps ==
  ASSUME SanctionsInv, NEW r \in Requests, NEW a \in Appeals,
         NEW d \in {"APPROVED", "REJECTED"}, Decide(r, a, d)
  PROVE  SanctionsInv'
<1> DEFINE new == [req[r] EXCEPT !.pc = "resolve", !.appeal = a, !.decision = d]
<1>1. /\ req[r] \in Request /\ req[r].pc = "idle" /\ req[r].lifted = {}
      /\ appLock[a] = Free /\ appeal[a].status = "PENDING"
      /\ appLock' = [appLock EXCEPT ![a] = r] /\ req' = [req EXCEPT ![r] = new]
      /\ UNCHANGED <<bans, appeal, told>>
  BY DEF SanctionsInv, TypeOK, BansInv, BanSound, Decide
<1>2. /\ new \in Request /\ new.pc = "resolve" /\ new.appeal = a /\ new.decision = d
      /\ new.lifted = {}
  BY <1>1 DEF Request, Steps, Decisions
<1> HIDE DEF new
<1>3. /\ req' \in [Requests -> Request] /\ req'[r] = new
      /\ \A q \in Requests \ {r} : req'[q] = req[q]
      /\ appLock' \in [Appeals -> Requests \cup {Free}] /\ appLock'[a] = r
      /\ \A c \in Appeals \ {a} : appLock'[c] = appLock[c]
  BY <1>1, <1>2 DEF SanctionsInv, TypeOK
<1>4. BansInv'
  BY <1>1, <1>2, <1>3, BansKeep DEF Reviewing
<1>5. \A q \in Requests : AppealSound(q)'
  <2>1. /\ AppealSound(r) /\ \A q \in Requests \ {r} : AppealSound(q)
        /\ r # Free /\ UNCHANGED <<status, appeal>>
    BY <1>1, SanctionsAssumption DEF SanctionsInv, AppealsInv, bans
  <2>2. AppealSound(r)'
    BY <1>1, <1>2, <1>3, <2>1 DEF AppealSound
  <2>3. ASSUME NEW q \in Requests \ {r} PROVE AppealSound(q)'
    BY <1>1, <1>3, <2>1, <2>3, SanctionsAssumption DEF AppealSound
  <2>4. QED  BY <2>2, <2>3
<1>6. Appealed' /\ ApprovedAppealsHold'
  BY <1>1 DEF SanctionsInv, AppealsInv, Appealed, ApprovedAppealsHold, bans
<1>7. NetworkInv'
  BY <1>1, <1>2, <1>3, NetworkKeeps DEF told
<1>8. QED
  BY <1>1, <1>3, <1>4, <1>5, <1>6, <1>7 DEF SanctionsInv, AppealsInv, TypeOK, bans, told

(* The decision: the ban it lifts is one nobody has written.               *)
LEMMA ResolveFacts ==
  ASSUME SanctionsInv, NEW r \in Requests, Resolve(r)
  PROVE  LET a == req[r].appeal
             b == appeal[a].ban
         IN
         /\ req[r].pc = "resolve" /\ a \in Appeals /\ b \in Bans
         /\ appLock[a] = r /\ appeal[a].status = "PENDING"
         /\ req[r].decision \in {"APPROVED", "REJECTED"}
         /\ status[b] \in {"ACTIVE", "LIFTED"}
         /\ appeal' \in [Appeals -> [ban : Bans \cup {NoBan}, status : Decisions]]
         /\ appeal'[a].ban = b /\ appeal'[a].status = req[r].decision
         /\ \A c \in Appeals \ {a} : appeal'[c] = appeal[c]
         /\ status' \in [Bans -> Statuses]
         /\ \A c \in Bans : status'[c] = status[c] \/ (Moves(c) /\ lock[c] = Free)
         /\ req[r].decision = "APPROVED" => status'[b] = "LIFTED"
         /\ req[r].decision = "REJECTED" => status' = status
         /\ \A c \in Bans : status'[c] # status[c] => status'[c] = "LIFTED"
<1> DEFINE a == req[r].appeal
           b == appeal[a].ban
<1>1. /\ req[r].pc = "resolve" /\ a \in Appeals
      /\ appLock[a] = r /\ appeal[a].status = "PENDING"
      /\ req[r].decision \in {"APPROVED", "REJECTED"}
  BY DEF SanctionsInv, AppealsInv, AppealSound, Resolve
<1>2. b \in Bans /\ status[b] \in {"ACTIVE", "LIFTED"}
  BY <1>1 DEF SanctionsInv, AppealsInv, Appealed
<1>3. appeal' = [appeal EXCEPT ![a].status = req[r].decision]
  BY DEF Resolve
<1>4. appeal \in [Appeals -> [ban : Bans \cup {NoBan}, status : Decisions]]
      /\ status \in [Bans -> Statuses]
  BY DEF SanctionsInv, TypeOK
<1>5. CASE req[r].decision = "APPROVED"
  <2>1. /\ lock[b] = Free
        /\ status' = [status EXCEPT ![b] = IF @ = "ACTIVE" THEN "LIFTED" ELSE @]
    BY <1>5 DEF Resolve
  <2>2. QED
    BY <1>1, <1>2, <1>3, <1>4, <1>5, <2>1 DEF Moves, Decisions, Statuses
<1>6. CASE req[r].decision = "REJECTED"
  <2>1. status' = status
    BY <1>6 DEF Resolve
  <2>2. QED
    BY <1>1, <1>2, <1>3, <1>4, <1>6, <2>1 DEF Decisions
<1>7. QED  BY <1>1, <1>5, <1>6

LEMMA ResolveKeeps ==
  ASSUME SanctionsInv, NEW r \in Requests, Resolve(r)
  PROVE  SanctionsInv'
<1>1. /\ req' \in [Requests -> Request] /\ req'[r] = Idle
      /\ \A q \in Requests \ {r} : req'[q] = req[q]
      /\ UNCHANGED <<lock, told>>
  BY IdleFacts DEF SanctionsInv, TypeOK, Finish, Resolve
<1>2. /\ appLock' \in [Appeals -> Requests \cup {Free}]
      /\ \A a \in Appeals, q \in Requests \ {r} : appLock'[a] = q <=> appLock[a] = q
  BY UnlockedFacts DEF SanctionsInv, TypeOK, Resolve
<1>3. \A q \in Requests \ {r} : BanSound(q)' /\ Locked(q)'
  BY <1>1, ResolveFacts, OthersKeep
<1>4. BanSound(r)' /\ Locked(r)'
  <2>1. \A c \in Bans : lock[c] # r
    BY ResolveFacts DEF SanctionsInv, BansInv, BanSound, Locked, Holds
  <2>2. QED  BY <1>1, <2>1, IdleFacts DEF BanSound, Locked, Holds, Reviewing
<1>5. ActivatingAlone' /\ OneActiveBan'
  <2>1. Active' \subseteq Active
    BY ResolveFacts DEF Active
  <2>2. \A q \in Requests : Activating(q)' => Activating(q) /\ req'[q] = req[q]
    BY <1>1, IdleFacts DEF Activating
  <2>3. QED
    BY <2>1, <2>2 DEF SanctionsInv, BansInv, ActivatingAlone, OneActiveBan
<1>6. BansInv'
  BY <1>3, <1>4, <1>5 DEF BansInv
<1>7. \A q \in Requests : AppealSound(q)'
  BY <1>1, <1>2, ResolveFacts, IdleFacts DEF SanctionsInv, AppealsInv, AppealSound
<1>8. Appealed' /\ ApprovedAppealsHold'
  BY ResolveFacts DEF SanctionsInv, AppealsInv, Appealed, ApprovedAppealsHold, Moves
<1>9. NetworkInv'
  BY <1>1, IdleFacts, NetworkKeeps DEF told
<1>10. QED
  BY <1>1, <1>2, <1>6, <1>7, <1>8, <1>9, ResolveFacts DEF SanctionsInv, AppealsInv,
     TypeOK, told

------------------------------------------------------------------------------
(* The shared network.                                                     *)

(* A step of a request that decides on nothing.                            *)
LEMMA ShareStep ==
  ASSUME SanctionsInv, NEW r \in Requests, NEW new \in Request,
         req' = [req EXCEPT ![r] = new], UNCHANGED <<bans, appeals>>,
         req[r].pc \in {"idle", "share", "report", "count"},
         new.pc \in {"idle", "share", "report", "count"}, new.lifted = {}
  PROVE  /\ BansInv' /\ AppealsInv' /\ req' \in [Requests -> Request]
         /\ req'[r] = new /\ \A q \in Requests \ {r} : req'[q] = req[q]
<1>1. /\ req' \in [Requests -> Request] /\ req'[r] = new
      /\ \A q \in Requests \ {r} : req'[q] = req[q]
  BY DEF SanctionsInv, TypeOK
<1>2. BansInv'
  BY <1>1, BansKeep DEF Reviewing
<1>3. AppealsInv'
  BY <1>1, AppealsKeep DEF StatusStep, bans, appeals
<1>4. QED  BY <1>1, <1>2, <1>3

LEMMA OptInKeeps ==
  ASSUME SanctionsInv, NEW o \in Orgs, OptIn(o)
  PROVE  SanctionsInv'
<1>1. shares' \subseteq Orgs /\ UNCHANGED <<bans, appeals, feedback, reporter, orgCount, req>>
  BY DEF OptIn, SanctionsInv, TypeOK
<1>2. BansInv'
  BY <1>1, BansKeep
<1>3. AppealsInv'
  BY <1>1, AppealsKeep DEF StatusStep, bans, appeals
<1>4. NetworkInv'
  BY <1>1, NetworkKeeps
<1>5. QED
  BY <1>1, <1>2, <1>3, <1>4 DEF SanctionsInv, TypeOK, bans, appeals

(* Towards the network: a ban elsewhere, and whether the organization      *)
(* shares its bans.                                                        *)
LEMMA ShareKeeps ==
  ASSUME SanctionsInv, NEW r \in Requests,
         (\E o \in Orgs : BanElsewhere(r, o)) \/ Share(r)
  PROVE  SanctionsInv'
<1>1. /\ req[r] \in Request /\ req[r].pc \in {"idle", "share"} /\ req[r].lifted = {}
      /\ UNCHANGED <<bans, appeals, told>>
  BY DEF SanctionsInv, TypeOK, BansInv, BanSound, BanElsewhere, Share
<1>2. PICK new \in Request :
        /\ req' = [req EXCEPT ![r] = new] /\ new.lifted = {}
        /\ new.pc \in {"idle", "share", "report"}
  <2>1. CASE \E o \in Orgs : BanElsewhere(r, o)
    <3>1. PICK o \in Orgs : BanElsewhere(r, o)
      BY <2>1
    <3> DEFINE new == [req[r] EXCEPT !.pc = "share", !.org = o]
    <3>2. new \in Request /\ new.lifted = {} /\ new.pc = "share"
      BY <1>1 DEF Request, Steps
    <3>3. req' = [req EXCEPT ![r] = new]
      BY <3>1 DEF BanElsewhere
    <3>4. QED  BY <3>2, <3>3
  <2>2. CASE Share(r) /\ req[r].org \in shares
    <3> DEFINE new == [req[r] EXCEPT !.pc = "report"]
    <3>1. new \in Request /\ new.lifted = {} /\ new.pc = "report"
      BY <1>1 DEF Request, Steps
    <3>2. req' = [req EXCEPT ![r] = new]
      BY <2>2 DEF Share, Goto
    <3>3. QED  BY <3>1, <3>2
  <2>3. CASE Share(r) /\ req[r].org \notin shares
    BY <2>3, IdleFacts DEF Share, Finish
  <2>4. QED  BY <2>1, <2>2, <2>3
<1>3. /\ BansInv' /\ AppealsInv' /\ req' \in [Requests -> Request]
      /\ req'[r] = new /\ \A q \in Requests \ {r} : req'[q] = req[q]
  BY <1>1, <1>2, ShareStep
<1>4. NetworkInv'
  BY <1>1, <1>2, <1>3, NetworkKeeps DEF told
<1>5. QED
  BY <1>1, <1>3, <1>4 DEF SanctionsInv, TypeOK, bans, appeals, told

LEMMA ReportKeeps ==
  ASSUME SanctionsInv, NEW r \in Requests, Report(r)
  PROVE  SanctionsInv'
<1> DEFINE new == [req[r] EXCEPT !.pc = "count", !.fresh = req[r].org \notin reporter]
<1>1. /\ req[r] \in Request /\ req[r].pc = "report" /\ req[r].lifted = {}
      /\ UNCHANGED <<bans, appeals, told>> /\ req' = [req EXCEPT ![r] = new]
  BY DEF SanctionsInv, TypeOK, BansInv, BanSound, Report
<1>2. /\ new \in Request /\ new.lifted = {} /\ new.pc = "count" /\ new.org = req[r].org
      /\ new.fresh = (req[r].org \notin reporter)
  BY <1>1 DEF Request, Steps
<1> HIDE DEF new
<1>3. /\ BansInv' /\ AppealsInv' /\ req' \in [Requests -> Request]
      /\ req'[r] = new /\ \A q \in Requests \ {r} : req'[q] = req[q]
  BY <1>1, <1>2, ShareStep
<1>4. \A q \in Requests : ~(Counting(q) /\ req[q].org = req[r].org)
  BY DEF Report, Counting
<1>5. reporter' = reporter /\ orgCount' = orgCount
  BY <1>1 DEF told
<1>6. \A q \in Requests : req'[q].pc = "count" =>
        (req'[q].fresh <=> req'[q].org \notin reporter')
  <2>1. req'[r].fresh <=> req'[r].org \notin reporter'
    BY <1>2, <1>3, <1>5
  <2>2. ASSUME NEW q \in Requests \ {r}, req[q].pc = "count"
        PROVE  req[q].fresh <=> req[q].org \notin reporter
    BY <2>2 DEF SanctionsInv, NetworkInv
  <2>3. QED  BY <1>3, <1>5, <2>1, <2>2, Zenon
<1>7. \A p, q \in Requests :
        (Counting(p) /\ Counting(q) /\ req[p].org = req[q].org)' => p = q
  <2>1. \A q \in Requests \ {r} : Counting(q)' <=> Counting(q)
    BY <1>3 DEF Counting
  <2>2. req'[r].org = req[r].org
    BY <1>2, <1>3
  <2>3. QED
    BY <1>3, <1>4, <2>1, <2>2 DEF SanctionsInv, NetworkInv
<1>8. NetworkInv'
  BY <1>5, <1>6, <1>7 DEF SanctionsInv, NetworkInv, OrgsCountedOnce
<1>9. QED
  BY <1>1, <1>3, <1>8 DEF SanctionsInv, TypeOK, bans, appeals, told

LEMMA CountKeeps ==
  ASSUME SanctionsInv, NEW r \in Requests, Count(r)
  PROVE  SanctionsInv'
<1> DEFINE o == req[r].org
<1>1. /\ req[r].pc = "count" /\ o \in Orgs
      /\ req[r].fresh <=> o \notin reporter
      /\ req' = [req EXCEPT ![r] = Idle] /\ reporter' = reporter \cup {o}
      /\ orgCount' = IF orgCount = 0 \/ req[r].fresh THEN orgCount + 1 ELSE orgCount
      /\ UNCHANGED <<bans, appeals, feedback, shares>>
  BY DEF SanctionsInv, TypeOK, NetworkInv, Count, Finish, Request
<1>2. /\ BansInv' /\ AppealsInv' /\ req' \in [Requests -> Request]
      /\ req'[r] = Idle /\ \A q \in Requests \ {r} : req'[q] = req[q]
  <2>1. req[r].pc = "count" /\ req' = [req EXCEPT ![r] = Idle] /\ UNCHANGED <<bans, appeals>>
    BY <1>1
  <2>2. QED  BY <2>1, IdleFacts, ShareStep
<1>3. /\ IsFiniteSet(reporter) /\ reporter \subseteq Orgs
      /\ orgCount = Cardinality(reporter) /\ orgCount \in Nat
  <2>1. IsFiniteSet(reporter)
    BY FS_Subset, SanctionsAssumption DEF SanctionsInv, TypeOK
  <2>2. QED  BY <2>1 DEF SanctionsInv, TypeOK, NetworkInv, OrgsCountedOnce
<1>4. orgCount' = Cardinality(reporter')
  <2>1. CASE o \in reporter
    <3>1. orgCount # 0
      BY <1>3, <2>1, FS_EmptySet
    <3>2. ~req[r].fresh
      BY <1>1, <2>1
    <3>3. orgCount' = orgCount
      BY <1>1, <3>1, <3>2, Zenon
    <3>4. reporter' = reporter
      BY <1>1, <2>1
    <3>5. QED  BY <1>3, <3>3, <3>4
  <2>2. CASE o \notin reporter
    BY <1>1, <1>3, <2>2, FS_AddElement
  <2>3. QED  BY <2>1, <2>2
<1>5. \A q \in Requests \ {r} : Counting(q) /\ req[r].fresh => req[q].org # o
  BY <1>1 DEF SanctionsInv, NetworkInv, Counting
<1>6. \A q \in Requests \ {r} :
        req[q].pc = "count" => (req[q].fresh <=> req[q].org \notin reporter')
  BY <1>1, <1>5 DEF SanctionsInv, NetworkInv, Counting
<1>7. NetworkInv'
  BY <1>2, <1>4, <1>6, IdleFacts DEF SanctionsInv, NetworkInv, Counting, OrgsCountedOnce
<1>8. orgCount' \in Nat /\ reporter' \subseteq Orgs
  BY <1>1, <1>3
<1>9. QED
  BY <1>1, <1>2, <1>7, <1>8 DEF SanctionsInv, TypeOK, bans, appeals

------------------------------------------------------------------------------
(* The invariant and the steps.                                            *)

LEMMA InitHolds == Init => SanctionsInv
<1> SUFFICES ASSUME Init PROVE SanctionsInv
  OBVIOUS
<1>1. /\ \A r \in Requests : req[r] = Idle
      /\ req \in [Requests -> Request]
  BY IdleFacts DEF Init
<1>2. TypeOK
  BY <1>1, SanctionsAssumption DEF Init, TypeOK, Statuses, Decisions
<1>3. BansInv
  BY <1>1, IdleFacts, SanctionsAssumption DEF Init, BansInv, BanSound, Locked, Holds,
     Reviewing, ActivatingAlone, Activating, OneActiveBan, Active
<1>4. AppealsInv
  BY <1>1, IdleFacts DEF Init, AppealsInv, AppealSound, Appealed, ApprovedAppealsHold
<1>5. NetworkInv
  BY <1>1, IdleFacts, FS_EmptySet DEF Init, NetworkInv, Counting, OrgsCountedOnce
<1>6. QED  BY <1>2, <1>3, <1>4, <1>5 DEF SanctionsInv

(* What a request's step does to the rows: nothing, unless it commits,     *)
(* resolves an appeal, or is the one statement of a proposal or a lift.    *)
LEMMA StepKeeps ==
  ASSUME SanctionsInv, [Next]_vars
  PROVE  /\ SanctionsInv'
         /\ \/ UNCHANGED status
            \/ \E r \in Requests : Commit(r) \/ Resolve(r)
            \/ \E b \in Bans : Propose(b) \/ Lift(b)
<1>1. ASSUME NEW r \in Requests,
             \/ \E b \in Bans : \E posted \in BOOLEAN : Ban(r, b, posted)
             \/ \E b \in Bans : \E s \in {"ACTIVE", "KICKED", "DISMISSED"} : Load(r, b, s)
      PROVE  SanctionsInv' /\ UNCHANGED status
  BY <1>1, BanKeeps, LoadKeeps DEF Outcomes, Ban, Load, bans
<1>2. ASSUME NEW r \in Requests, Find(r) \/ Displace(r) \/ Settle(r)
      PROVE  SanctionsInv' /\ UNCHANGED status
  BY <1>2, FindKeeps, DisplaceKeeps, SettleKeeps DEF Find, Displace, Settle, bans
<1>3. ASSUME NEW r \in Requests,
             \/ Submit(r)
             \/ \E a \in Appeals : InsertAppeal(r, a)
             \/ \E a \in Appeals, d \in {"APPROVED", "REJECTED"} : Decide(r, a, d)
      PROVE  SanctionsInv' /\ UNCHANGED status
  BY <1>3, SubmitKeeps, InsertKeeps, DecideKeeps DEF Submit, InsertAppeal, Decide, bans
<1>4. ASSUME NEW r \in Requests,
             (\E o \in Orgs : BanElsewhere(r, o)) \/ Share(r) \/ Report(r) \/ Count(r)
      PROVE  SanctionsInv' /\ UNCHANGED status
  BY <1>4, ShareKeeps, ReportKeeps, CountKeeps DEF BanElsewhere, Share, Report, Count, bans
<1>5. ASSUME NEW r \in Requests, Fail(r)
      PROVE  SanctionsInv' /\ UNCHANGED status
  BY <1>5, GiveUp DEF Fail
<1>6. ASSUME \E o \in Orgs : OptIn(o)
      PROVE  SanctionsInv' /\ UNCHANGED status
  BY <1>6, OptInKeeps DEF OptIn, bans
<1>7. CASE UNCHANGED vars
  <2>1. BansInv'
    BY <1>7, BansKeep DEF vars
  <2>2. AppealsInv' /\ NetworkInv'
    BY <1>7, AppealsKeep, NetworkKeeps DEF vars, StatusStep, bans, appeals, told
  <2>3. QED
    BY <1>7, <2>1, <2>2 DEF SanctionsInv, TypeOK, vars, bans, appeals, told
<1>8. QED
  BY <1>1, <1>2, <1>3, <1>4, <1>5, <1>6, <1>7, CommitKeeps, ResolveKeeps, RowKeeps
     DEF Next

LEMMA StatusMoves ==
  ASSUME SanctionsInv, [Next]_vars
  PROVE  StatusStep
  BY StepKeeps, CommitFacts, ResolveFacts DEF StatusStep, Propose, Lift, Moves,
     SanctionsInv, TypeOK

------------------------------------------------------------------------------
(* Theorems.                                                               *)

(* The invariant holds in every state of every behaviour.                  *)
THEOREM InvHolds == Spec => []SanctionsInv
<1>1. SanctionsInv /\ [Next]_vars => SanctionsInv'
  BY StepKeeps
<1>2. QED  BY InitHolds, <1>1, PTL DEF Spec

(* Every state is well typed: a review, an appeal and a report find what   *)
(* they read at each statement (routes.ts:2585-2823).                      *)
THEOREM TypeCorrect == Spec => []TypeOK
  BY InvHolds, PTL DEF SanctionsInv

(* The identifier never has two ACTIVE bans, for any number of requests    *)
(* (0004_anticheat.sql:138-142, routes.ts:2596-2601).                      *)
THEOREM OneBan == Spec => []OneActiveBan
  BY InvHolds, PTL DEF SanctionsInv, BansInv

(* An approved appeal leaves its ban without effect for good               *)
(* (routes.ts:2756-2764).                                                  *)
THEOREM ApprovedHold == Spec => []ApprovedAppealsHold
  BY InvHolds, PTL DEF SanctionsInv, AppealsInv

(* The network counts an organization once, whatever reports overlap       *)
(* (routes.ts:2796-2812).                                                  *)
THEOREM CountedOnce == Spec => []OrgsCountedOnce
  BY InvHolds, PTL DEF SanctionsInv, NetworkInv

(* One review settles a sanction and an ended ban never comes back         *)
(* (routes.ts:2565-2654).                                                  *)
THEOREM ReviewsFinal == Spec => ReviewsAreFinal
<1>1. SanctionsInv /\ [Next]_vars =>
        [\A b \in Bans : status'[b] # status[b] =>
           \/ status[b] = "none"
           \/ status[b] = "PENDING" /\ status'[b] \in {"ACTIVE", "KICKED", "DISMISSED"}
           \/ status[b] = "ACTIVE" /\ status'[b] = "LIFTED"]_vars
  BY StatusMoves DEF StatusStep, Moves, Outcomes
<1>2. QED  BY InvHolds, <1>1, PTL DEF Spec, ReviewsAreFinal

(* A decided appeal stays decided (routes.ts:2742-2754).                   *)
THEOREM DecidedOnce == Spec => AppealsDecidedOnce
<1>1. SanctionsInv /\ [Next]_vars =>
        [\A a \in Appeals : appeal[a].status \in {"APPROVED", "REJECTED"} =>
           appeal'[a] = appeal[a]]_vars
  <2> SUFFICES ASSUME SanctionsInv, [Next]_vars, NEW a \in Appeals,
                      appeal[a].status \in {"APPROVED", "REJECTED"}
               PROVE  appeal'[a] = appeal[a]
    OBVIOUS
  <2>1. CASE \E r \in Requests, c \in Appeals : InsertAppeal(r, c)
    BY <2>1 DEF InsertAppeal, SanctionsInv, TypeOK
  <2>2. CASE \E r \in Requests : Resolve(r)
    BY <2>2, ResolveFacts
  <2>3. CASE UNCHANGED appeal
    BY <2>3
  <2>4. QED
    BY <2>1, <2>2, <2>3 DEF Next, vars, appeals, Ban, Load, Find, Displace, Settle,
       Commit, Submit, Decide, BanElsewhere, Share, Report, Count, Fail, Propose, Lift, OptIn
<1>2. QED  BY InvHolds, <1>1, PTL DEF Spec, AppealsDecidedOnce

(* The identifier loses its ban by a lift, an approved appeal, or a        *)
(* confirmation whose own sanction was settled since it was read           *)
(* (routes.ts:2591-2606).                                                  *)
THEOREM EndsOnPurpose == Spec => BanEndsOnPurpose
<1>1. SanctionsInv /\ [Next]_vars =>
        [Active # {} /\ Active' = {} =>
           \/ UNCHANGED req
           \/ \E r \in Requests :
                /\ req'[r] # req[r]
                /\ \/ req[r].pc = "resolve" /\ req[r].decision = "APPROVED"
                   \/ req[r].pc = "commit" /\ status[req[r].ban] # "PENDING"]_vars
  <2> SUFFICES ASSUME SanctionsInv, [Next]_vars, Active # {}, Active' = {}
               PROVE  \/ UNCHANGED req
                      \/ \E r \in Requests :
                           /\ req'[r] # req[r]
                           /\ \/ req[r].pc = "resolve" /\ req[r].decision = "APPROVED"
                              \/ req[r].pc = "commit" /\ status[req[r].ban] # "PENDING"
    OBVIOUS
  <2>1. CASE UNCHANGED status
    BY <2>1 DEF Active
  <2>2. CASE \E b \in Bans : Propose(b) \/ Lift(b)
    BY <2>2 DEF Propose, Lift
  <2>3. ASSUME NEW r \in Requests, Resolve(r), ~UNCHANGED status
        PROVE  req'[r] # req[r] /\ req[r].pc = "resolve" /\ req[r].decision = "APPROVED"
    BY <2>3, ResolveFacts, IdleFacts DEF Resolve, Finish, SanctionsInv, TypeOK
  <2>4. ASSUME NEW r \in Requests, Commit(r)
        PROVE  req'[r] # req[r] /\ req[r].pc = "commit" /\ status[req[r].ban] # "PENDING"
    <3>1. req[r].pc = "commit" /\ req'[r].pc \in {"idle", "share"}
      BY <2>4, IdleFacts DEF Commit, Finish, SanctionsInv, TypeOK, Request
    <3>2. PICK b \in Active : b \in Bans /\ status'[b] # "ACTIVE"
      BY DEF Active
    <3>3. b \in req[r].lifted
      BY <2>4, <3>2, CommitFacts DEF Active
    <3>4. req[r].to \in {"ACTIVE", "none"} /\ req[r].ban \in Bans
      BY <2>4, <3>1, <3>3, CommitFacts DEF BanSound, Reviewing
    <3>5. req[r].to # "ACTIVE"
      BY <2>4, <3>4, CommitFacts DEF Active
    <3>6. QED
      BY <2>4, <3>1, <3>4, <3>5, CommitFacts DEF BanSound, Outcomes
  <2>5. QED  BY <2>1, <2>2, <2>3, <2>4, StepKeeps
<1>2. QED  BY InvHolds, <1>1, PTL DEF Spec, BanEndsOnPurpose
==============================================================================

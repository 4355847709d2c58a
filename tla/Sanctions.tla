------------------------------ MODULE Sanctions ------------------------------
(***************************************************************************)
(* The bans of one organization on one player identifier and perimeter:    *)
(* those of the anticheat's alerts and of administrators, the review of    *)
(* pending sanctions, appeals, and the shared ban network (api/routes.ts;  *)
(* agent-gateway/service.ts, alerts).                                      *)
(*                                                                         *)
(* Transactions are modelled by statements under READ COMMITTED: a         *)
(* statement picks the rows committed when it starts, waits for those that *)
(* another transaction has written and examines them again.  What a        *)
(* transaction writes shows at COMMIT.                                     *)
(***************************************************************************)
EXTENDS Integers, FiniteSets

CONSTANTS
  Bans,      \* identifiers newId('ban') can draw
  Detected,  \* those of sanctions that name a detector
  Appeals,   \* appeals players can submit
  Orgs,      \* organizations reporting the identifier to the network
  Us,        \* the organization whose bans are modelled
  Requests,  \* requests in flight
  Free,      \* a row no transaction has written
  NoBan,     \* absence of a ban
  NoAppeal   \* absence of an appeal

ASSUME SanctionsAssumption ==
  /\ NoBan \notin Bans /\ NoAppeal \notin Appeals /\ Free \notin Requests
  /\ Detected \subseteq Bans
  /\ Us \in Orgs /\ IsFiniteSet(Orgs)

VARIABLES
  status,    \* bans: committed status of each, "none" without a row
  lock,      \* the transaction that has written each ban, or Free
  appeal,    \* ban_appeals: the ban and the decision
  appLock,   \* the transaction that has locked each appeal, or Free
  feedback,  \* detection_feedback: the verdicts the anticheat learns of a ban
  shares,    \* organizations with share_bans
  reporter,  \* global_ban_reporters of the identifier
  orgCount,  \* global_ban_signals.org_count of the identifier, 0 without a row
  req        \* the requests

bans    == <<status, lock>>
appeals == <<appeal, appLock>>
told    == <<feedback, shares, reporter, orgCount>>
vars    == <<bans, appeals, told, req>>

Statuses  == {"none", "PENDING", "ACTIVE", "LIFTED", "KICKED", "DISMISSED"}
Decisions == {"none", "PENDING", "APPROVED", "REJECTED"}

Verdicts  == {"confirmed", "false_positive"}

Steps == {"idle", "find", "displace", "settle", "commit", "submit", "resolve",
          "share", "report", "count"}

(* A request: its step, the ban it decides on and the status it gives it,  *)
(* the verdict it tells the detector, the ACTIVE ban of the identifier it  *)
(* found and the one it has lifted, whether it is an administrator's       *)
(* POST /api/bans; its appeal and decision; the organization it reports    *)
(* for, and whether that is a new reporter.                                *)
Request ==
  [pc : Steps, ban : Bans \cup {NoBan}, to : Statuses, tells : SUBSET (Bans \X Verdicts),
   found : Bans \cup {NoBan}, lifted : SUBSET Bans, posted : BOOLEAN,
   appeal : Appeals \cup {NoAppeal}, decision : Decisions, org : Orgs, fresh : BOOLEAN]

Idle == [pc |-> "idle", ban |-> NoBan, to |-> "none", tells |-> {}, found |-> NoBan,
         lifted |-> {}, posted |-> FALSE, appeal |-> NoAppeal, decision |-> "none",
         org |-> Us, fresh |-> FALSE]

TypeOK ==
  /\ status \in [Bans -> Statuses]
  /\ lock \in [Bans -> Requests \cup {Free}]
  /\ appeal \in [Appeals -> [ban : Bans \cup {NoBan}, status : Decisions]]
  /\ appLock \in [Appeals -> Requests \cup {Free}]
  /\ feedback \subseteq Bans \X Verdicts
  /\ shares \subseteq Orgs /\ reporter \subseteq Orgs
  /\ orgCount \in Nat
  /\ req \in [Requests -> Request]

Init ==
  /\ status = [b \in Bans |-> "none"]
  /\ lock = [b \in Bans |-> Free]
  /\ appeal = [a \in Appeals |-> [ban |-> NoBan, status |-> "none"]]
  /\ appLock = [a \in Appeals |-> Free]
  /\ feedback = {} /\ shares = {} /\ reporter = {} /\ orgCount = 0
  /\ req = [r \in Requests |-> Idle]

Goto(r, step) == req' = [req EXCEPT ![r].pc = step]
Finish(r)     == req' = [req EXCEPT ![r] = Idle]

Unlocked(r, locks) == [k \in DOMAIN locks |-> IF locks[k] = r THEN Free ELSE locks[k]]

Active == {b \in Bans : status[b] = "ACTIVE"}

(* Faulty variant: no unique index.                                        *)
IndexUnchecked(r) == TRUE

(* bans_active_identifier_idx: a statement that makes a row ACTIVE waits   *)
(* while another transaction does, or has written the one there is.        *)
IndexFree(r) ==
  /\ \A b \in Active : lock[b] \in {r, Free}
  /\ \A q \in Requests \ {r} : req[q].pc = "commit" => req[q].to # "ACTIVE"

------------------------------------------------------------------------------
(* New bans.                                                               *)

(* An alert of severity CRITICAL, resent or not, or POST /api/bans: a ban, *)
(* unless the identifier has one, which the POST updates and the alert     *)
(* leaves alone (ON CONFLICT).                                             *)
Ban(r, b, posted) ==
  /\ req[r].pc = "idle" /\ status[b] = "none" /\ lock[b] = Free /\ IndexFree(r)
  /\ IF Active = {}
     THEN /\ lock' = [lock EXCEPT ![b] = r]
          /\ req' = [req EXCEPT ![r] = [@ EXCEPT !.pc = "commit", !.ban = b,
                                                 !.to = "ACTIVE", !.posted = posted]]
     ELSE posted /\ Goto(r, "share") /\ UNCHANGED lock
  /\ UNCHANGED <<status, appeals, told>>

(* An alert of another severity, or POST /api/bans with pending, proposes  *)
(* a sanction.  The alert's NOT EXISTS skips a proposal of the same        *)
(* detector it sees; POST never looks, so several may be PENDING.          *)
Propose(b) ==
  /\ status[b] = "none" /\ lock[b] = Free
  /\ status' = [status EXCEPT ![b] = "PENDING"]
  /\ UNCHANGED <<lock, appeals, told, req>>

------------------------------------------------------------------------------
(* Review of a pending sanction: confirm, kick, false positive.            *)

(* reviewFeedback: what a review tells the detector behind the sanction.   *)
Feedback(b, s) ==
  IF b \in Detected THEN {<<b, IF s = "DISMISSED" THEN "false_positive" ELSE "confirmed">>}
                    ELSE {}

(* loadPendingBan does not lock the row; 404 when it is not PENDING.       *)
Load(r, b, s) ==
  /\ req[r].pc = "idle" /\ status[b] = "PENDING"
  /\ req' = [req EXCEPT ![r] = [@ EXCEPT !.pc = IF s = "ACTIVE" THEN "find" ELSE "settle",
                                         !.ban = b, !.to = s, !.tells = Feedback(b, s)]]
  /\ UNCHANGED <<bans, appeals, told>>

(* confirm's UPDATE that lifts the identifier's ACTIVE ban picks it...     *)
Find(r) ==
  /\ req[r].pc = "find"
  /\ \/ Active = {} /\ Goto(r, "settle")
     \/ \E b \in Active :
          req' = [req EXCEPT ![r] = [@ EXCEPT !.pc = "displace", !.found = b]]
  /\ UNCHANGED <<bans, appeals, told>>

(* Faulty variant: the lift is committed before the confirmation.          *)
DisplaceAtOnce(r) ==
  /\ req[r].pc = "displace" /\ lock[req[r].found] = Free
  /\ status' = [status EXCEPT ![req[r].found] = "LIFTED"]
  /\ Goto(r, "settle")
  /\ UNCHANGED <<lock, appeals, told>>

(* ... then writes it if it still is.                                      *)
Displace(r) ==
  LET b == req[r].found IN
  /\ req[r].pc = "displace" /\ lock[b] = Free
  /\ IF status[b] = "ACTIVE"
     THEN /\ lock' = [lock EXCEPT ![b] = r]
          /\ req' = [req EXCEPT ![r] = [@ EXCEPT !.pc = "settle", !.lifted = {b}]]
     ELSE Goto(r, "settle") /\ UNCHANGED lock
  /\ UNCHANGED <<status, appeals, told>>

(* Faulty variant: the UPDATE does not ask for PENDING again.              *)
SettleBlind(r) ==
  LET b == req[r].ban IN
  /\ req[r].pc = "settle" /\ lock[b] \in {r, Free}
  /\ req[r].to = "ACTIVE" => IndexFree(r)
  /\ IF req[r].to = "ACTIVE" /\ Active \ req[r].lifted # {}
     THEN lock' = Unlocked(r, lock) /\ Finish(r)
     ELSE lock' = [lock EXCEPT ![b] = r] /\ Goto(r, "commit")
  /\ UNCHANGED <<status, appeals, told>>

(* The UPDATE of the sanction itself: nothing when it is no longer         *)
(* PENDING, which the handler does not notice; an error and a rollback     *)
(* when the identifier has another ACTIVE ban by now.  The INSERT into     *)
(* detection_feedback follows in either case, and shows at COMMIT.         *)
Settle(r) ==
  LET b == req[r].ban IN
  /\ req[r].pc = "settle" /\ lock[b] \in {r, Free}
  /\ IF status[b] # "PENDING"
     THEN /\ req' = [req EXCEPT ![r] = [@ EXCEPT !.pc = "commit", !.to = "none"]]
          /\ UNCHANGED lock
     ELSE /\ req[r].to = "ACTIVE" => IndexFree(r)
          /\ IF req[r].to = "ACTIVE" /\ Active \ req[r].lifted # {}
             THEN lock' = Unlocked(r, lock) /\ Finish(r)
             ELSE lock' = [lock EXCEPT ![b] = r] /\ Goto(r, "commit")
  /\ UNCHANGED <<status, appeals, told>>

(* COMMIT of a new ban or a review.                                        *)
Commit(r) ==
  /\ req[r].pc = "commit"
  /\ status' = [b \in Bans |-> IF b \in req[r].lifted THEN "LIFTED"
                               ELSE IF b = req[r].ban /\ req[r].to # "none" THEN req[r].to
                               ELSE status[b]]
  /\ lock' = Unlocked(r, lock)
  /\ feedback' = feedback \cup req[r].tells
  /\ IF req[r].posted THEN req' = [req EXCEPT ![r] = [Idle EXCEPT !.pc = "share"]]
     ELSE Finish(r)
  /\ UNCHANGED <<appeals, shares, reporter, orgCount>>

(* POST /api/bans/:id/lift.                                                *)
Lift(b) ==
  /\ status[b] = "ACTIVE" /\ lock[b] = Free
  /\ status' = [status EXCEPT ![b] = "LIFTED"]
  /\ UNCHANGED <<lock, appeals, told, req>>

------------------------------------------------------------------------------
(* Appeals.                                                                *)

(* POST /api/appeals reads the identifier's ACTIVE ban without locking it; *)
(* an identifier without one gets the same answer and no appeal.           *)
Submit(r) ==
  /\ req[r].pc = "idle"
  /\ \E b \in Active :
       req' = [req EXCEPT ![r] = [@ EXCEPT !.pc = "submit", !.found = b]]
  /\ UNCHANGED <<bans, appeals, told>>

(* ... and inserts the appeal for it, which may have been lifted since.    *)
InsertAppeal(r, a) ==
  /\ req[r].pc = "submit" /\ appeal[a].status = "none"
  /\ appeal' = [appeal EXCEPT ![a] = [ban |-> req[r].found, status |-> "PENDING"]]
  /\ Finish(r)
  /\ UNCHANGED <<bans, appLock, told>>

(* POST /api/appeals/:id/resolve: SELECT ... FOR UPDATE; 404 without the   *)
(* appeal, 409 when it is decided.                                         *)
Decide(r, a, d) ==
  /\ req[r].pc = "idle" /\ appLock[a] = Free /\ appeal[a].status = "PENDING"
  /\ appLock' = [appLock EXCEPT ![a] = r]
  /\ req' = [req EXCEPT ![r] = [@ EXCEPT !.pc = "resolve", !.appeal = a, !.decision = d]]
  /\ UNCHANGED <<bans, appeal, told>>

(* The decision, and the UPDATE that lifts the ban of an approved appeal   *)
(* if it is still ACTIVE.                                                  *)
Resolve(r) ==
  LET a == req[r].appeal
      b == appeal[a].ban
  IN
  /\ req[r].pc = "resolve"
  /\ appeal' = [appeal EXCEPT ![a].status = req[r].decision]
  /\ IF req[r].decision = "APPROVED"
     THEN /\ lock[b] = Free
          /\ status' = [status EXCEPT ![b] = IF @ = "ACTIVE" THEN "LIFTED" ELSE @]
     ELSE UNCHANGED status
  /\ appLock' = Unlocked(r, appLock)
  /\ Finish(r)
  /\ UNCHANGED <<lock, told>>

------------------------------------------------------------------------------
(* The shared ban network.                                                 *)

(* POST /api/network/optin.                                                *)
OptIn(o) ==
  /\ shares' = IF o \in shares THEN shares \ {o} ELSE shares \cup {o}
  /\ UNCHANGED <<bans, appeals, feedback, reporter, orgCount, req>>

(* POST /api/bans of another organization, for the same identifier: its    *)
(* bans are its own, only the contribution matters here.                   *)
BanElsewhere(r, o) ==
  /\ o # Us /\ req[r].pc = "idle"
  /\ req' = [req EXCEPT ![r] = [@ EXCEPT !.pc = "share", !.org = o]]
  /\ UNCHANGED <<bans, appeals, told>>

(* contributeSharedBan, started without being awaited once the ban is      *)
(* committed: orgSharesBans.                                               *)
Share(r) ==
  /\ req[r].pc = "share"
  /\ IF req[r].org \in shares THEN Goto(r, "report") ELSE Finish(r)
  /\ UNCHANGED <<bans, appeals, told>>

(* INSERT INTO global_ban_reporters ... ON CONFLICT DO NOTHING.            *)
Report(r) ==
  /\ req[r].pc = "report"
  /\ \A q \in Requests : ~(req[q].pc = "count" /\ req[q].fresh /\ req[q].org = req[r].org)
  /\ req' = [req EXCEPT ![r] = [@ EXCEPT !.pc = "count", !.fresh = req[r].org \notin reporter]]
  /\ UNCHANGED <<bans, appeals, told>>

(* The upsert of global_ban_signals, and COMMIT.                           *)
Count(r) ==
  /\ req[r].pc = "count"
  /\ reporter' = reporter \cup {req[r].org}
  /\ orgCount' = IF orgCount = 0 \/ req[r].fresh THEN orgCount + 1 ELSE orgCount
  /\ Finish(r)
  /\ UNCHANGED <<bans, appeals, feedback, shares>>

------------------------------------------------------------------------------
(* A statement fails, or the API restarts: what is uncommitted is undone.  *)
Fail(r) ==
  /\ req[r].pc # "idle"
  /\ lock' = Unlocked(r, lock) /\ appLock' = Unlocked(r, appLock)
  /\ Finish(r)
  /\ UNCHANGED <<status, appeal, told>>

Next ==
  \/ \E r \in Requests :
       \/ \E b \in Bans :
            \/ \E posted \in BOOLEAN : Ban(r, b, posted)
            \/ \E s \in {"ACTIVE", "KICKED", "DISMISSED"} : Load(r, b, s)
       \/ Find(r) \/ Displace(r) \/ Settle(r) \/ Commit(r)
       \/ Submit(r)
       \/ \E a \in Appeals :
            \/ InsertAppeal(r, a)
            \/ \E d \in {"APPROVED", "REJECTED"} : Decide(r, a, d)
       \/ Resolve(r)
       \/ \E o \in Orgs : BanElsewhere(r, o)
       \/ Share(r) \/ Report(r) \/ Count(r)
       \/ Fail(r)
  \/ \E b \in Bans : Propose(b) \/ Lift(b)
  \/ \E o \in Orgs : OptIn(o)

Spec == Init /\ [][Next]_vars

------------------------------------------------------------------------------
(* Properties.                                                             *)

(* A sanction is decided once: whatever reviews read it PENDING together,  *)
(* one settles it, and a ban that ended never comes back                   *)
(* (routes.ts:2565-2654).                                                  *)
ReviewsAreFinal ==
  [][\A b \in Bans : status'[b] # status[b] =>
       \/ status[b] = "none"
       \/ status[b] = "PENDING" /\ status'[b] \in {"ACTIVE", "KICKED", "DISMISSED"}
       \/ status[b] = "ACTIVE" /\ status'[b] = "LIFTED"]_vars

(* An identifier loses its ban by a lift, by an approved appeal, or to a   *)
(* confirmation that takes its place - or would, had another request not   *)
(* settled its sanction since it was read (routes.ts:2591-2606).           *)
BanEndsOnPurpose ==
  [][Active # {} /\ Active' = {} =>
       \/ UNCHANGED req
       \/ \E r \in Requests :
            /\ req'[r] # req[r]
            /\ \/ req[r].pc = "resolve" /\ req[r].decision = "APPROVED"
               \/ req[r].pc = "commit" /\ status[req[r].ban] # "PENDING"]_vars

(* The identifier never has two ACTIVE bans, although no review locks what *)
(* it reads (0004_anticheat.sql:138-142, routes.ts:2596-2601).             *)
OneActiveBan == \A b, c \in Active : b = c

(* A decided appeal stays decided (routes.ts:2742-2754).                   *)
AppealsDecidedOnce ==
  [][\A a \in Appeals : appeal[a].status \in {"APPROVED", "REJECTED"} =>
       appeal'[a] = appeal[a]]_vars

(* An approved appeal leaves its ban without effect for good, although     *)
(* the player's request read it before it was lifted and reviews that read *)
(* it earlier may still be under way (routes.ts:2688-2704, 2756-2764).     *)
ApprovedAppealsHold ==
  \A a \in Appeals : appeal[a].status = "APPROVED" => status[appeal[a].ban] = "LIFTED"

(* The network counts an organization once, however its reports overlap    *)
(* (routes.ts:2796-2812).                                                  *)
OrgsCountedOnce == orgCount = Cardinality(reporter)

(* routes.ts:2542-2544: each decision records a feedback, from which the   *)
(* anticheat calibrates its thresholds: of a settled sanction, its own.    *)
FeedbackFollowsDecision ==
  \A f \in feedback :
    f[2] = "false_positive" <=> status[f[1]] = "DISMISSED"

(* routes.ts:2591-2595: the former ban is lifted and the confirmed one     *)
(* becomes the active sanction.                                            *)
ConfirmationTakesOver ==
  [][\A r \in Requests : req[r].pc = "commit" /\ req'[r] # req[r] /\ Active # {} =>
       Active' # {}]_vars
==============================================================================

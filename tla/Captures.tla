------------------------------- MODULE Captures -------------------------------
(***************************************************************************)
(* The captures one organization asks of its players' game rendering: the  *)
(* request of a member, the single upload its token allows, the listing,   *)
(* the deletion and the retention (api/routes.ts, api/upload.ts).          *)
(*                                                                         *)
(* The command that carries the request to the agent is one of             *)
(* CommandQueue; the player's client uploads what it wants, or nothing.    *)
(* A row a transaction has locked makes other writers wait; what it writes *)
(* shows at COMMIT.                                                        *)
(***************************************************************************)
EXTENDS Integers, FiniteSets

CONSTANTS
  Ids,           \* identifiers newId('cap') can draw
  Members,       \* members with command.issue
  Images,        \* pictures parseUpload accepts
  Requests,      \* requests in flight
  Free,          \* a row no transaction has locked
  None,          \* absence of a capture, member or image
  MaxPerMinute,  \* requests a member may make in a minute
  Retained       \* captures kept per organization

ASSUME CapturesAssumption ==
  /\ None \notin Ids \cup Members \cup Images /\ Free \notin Requests
  /\ MaxPerMinute \in Nat \ {0} /\ Retained \in Nat \ {0}
  /\ IsFiniteSet(Ids) /\ IsFiniteSet(Requests)

VARIABLES
  capture,  \* evidence_captures
  older,    \* which was asked for before which: created_at, now() at BEGIN
  lock,     \* the transaction that has locked each row, or Free
  req       \* the requests

vars == <<capture, older, lock, req>>

Row == [status : {"none", "PENDING", "RECEIVED"}, by : Members \cup {None},
        recent : BOOLEAN, live : BOOLEAN, image : Images \cup {None}]

NoRow == [status |-> "none", by |-> None, recent |-> FALSE, live |-> FALSE, image |-> None]

Steps == {"idle", "count", "trim", "delete", "insert", "select", "store"}

(* A request: its step, its capture and the member asking for it, how many *)
(* it counted, the rows its retention picked; or the image it uploads and  *)
(* whether it came in time.                                                *)
Request ==
  [pc : Steps, id : Ids \cup {None}, by : Members \cup {None}, victims : SUBSET Ids,
   counted : SUBSET Ids, image : Images \cup {None}, inTime : BOOLEAN]

Idle == [pc |-> "idle", id |-> None, by |-> None, victims |-> {}, counted |-> {},
         image |-> None, inTime |-> FALSE]

TypeOK ==
  /\ capture \in [Ids -> Row]
  /\ older \subseteq Ids \X Ids
  /\ lock \in [Ids -> Requests \cup {Free}]
  /\ req \in [Requests -> Request]

Init ==
  /\ capture = [c \in Ids |-> NoRow] /\ older = {}
  /\ lock = [c \in Ids |-> Free] /\ req = [r \in Requests |-> Idle]

Finish(r) == req' = [req EXCEPT ![r] = Idle]

Released(r) == [c \in Ids |-> IF lock[c] = r THEN Free ELSE lock[c]]

Stored    == {c \in Ids : capture[c].status # "none"}
Recent(m) == {c \in Stored : capture[c].by = m /\ capture[c].recent}

(* Rows with n or more newer ones.                                         *)
Newer(c)  == {d \in Stored : <<c, d>> \in older}
Beyond(n) == {c \in Stored : Cardinality(Newer(c)) >= n}

(* The captures transactions under way are about to insert.                *)
Asking(r) == req[r].pc \in {"count", "trim", "delete", "insert"}
Pending   == {req[r].id : r \in {q \in Requests : Asking(q)}}

Without(gone) == {p \in older : p[1] \notin gone /\ p[2] \notin gone}
Forget(c)     == older' = Without({c})

------------------------------------------------------------------------------
(* POST /api/servers/:id/capture, one transaction.                         *)

Ask(r, m, c) ==
  /\ req[r].pc = "idle" /\ c \notin Stored
  /\ \A q \in Requests : req[q].id # c
  /\ older' = older \cup {<<d, c>> : d \in Stored \cup Pending}
  /\ req' = [req EXCEPT ![r] = [Idle EXCEPT !.pc = "count", !.id = c, !.by = m]]
  /\ UNCHANGED <<capture, lock>>

(* Faulty variant: as many as the limit are let through, and one more.     *)
CountPast(r) ==
  LET mine == Recent(req[r].by) IN
  /\ req[r].pc = "count"
  /\ IF Cardinality(mine) > MaxPerMinute
     THEN Finish(r) /\ Forget(req[r].id)
     ELSE /\ req' = [req EXCEPT ![r] = [@ EXCEPT !.pc = "trim", !.counted = mine]]
          /\ UNCHANGED older
  /\ UNCHANGED <<capture, lock>>

(* The member's captures of the last minute: 429 at the limit.             *)
Count(r) ==
  LET mine == Recent(req[r].by) IN
  /\ req[r].pc = "count"
  /\ IF Cardinality(mine) >= MaxPerMinute
     THEN Finish(r) /\ Forget(req[r].id)
     ELSE /\ req' = [req EXCEPT ![r] = [@ EXCEPT !.pc = "trim", !.counted = mine]]
          /\ UNCHANGED older
  /\ UNCHANGED <<capture, lock>>

(* Faulty variant: retention looks at the age alone.                       *)
TrimOld(r) ==
  /\ req[r].pc = "trim"
  /\ \E old \in SUBSET {c \in Stored : ~capture[c].recent /\ ~capture[c].live} :
       req' = [req EXCEPT ![r] = [@ EXCEPT !.pc = "delete", !.victims = old]]
  /\ UNCHANGED <<capture, older, lock>>

(* Retention: the rows picked when the DELETE starts (those of over thirty *)
(* days are left to it as well, see Age), ...                              *)
Trim(r) ==
  /\ req[r].pc = "trim"
  /\ \E old \in SUBSET {c \in Stored : ~capture[c].recent /\ ~capture[c].live} :
       req' = [req EXCEPT ![r] = [@ EXCEPT !.pc = "delete", !.victims = Beyond(Retained) \cup old]]
  /\ UNCHANGED <<capture, older, lock>>

(* ... deleted once no other transaction holds them.                       *)
Purge(r) ==
  LET gone == req[r].victims \cap Stored IN
  /\ req[r].pc = "delete" /\ \A c \in gone : lock[c] = Free
  /\ lock' = [c \in Ids |-> IF c \in gone THEN r ELSE lock[c]]
  /\ req' = [req EXCEPT ![r] = [@ EXCEPT !.pc = "insert", !.victims = gone]]
  /\ UNCHANGED <<capture, older>>

(* The capture and its command are inserted, and COMMIT.                   *)
Insert(r) ==
  /\ req[r].pc = "insert"
  /\ capture' = [c \in Ids |->
       CASE c \in req[r].victims -> NoRow
         [] c = req[r].id -> [status |-> "PENDING", by |-> req[r].by, recent |-> TRUE,
                              live |-> TRUE, image |-> None]
         [] OTHER -> capture[c]]
  /\ older' = Without(req[r].victims)
  /\ lock' = Released(r) /\ Finish(r)

------------------------------------------------------------------------------
(* POST /api/evidence/upload/:org/:id, with the capture's token.           *)

(* BEGIN: now() is the time of it.  An image that is none, a client over   *)
(* its rate or a malformed token is refused before.                        *)
Upload(r, c, x) ==
  /\ req[r].pc = "idle" /\ c \in Stored
  /\ req' = [req EXCEPT ![r] = [Idle EXCEPT !.pc = "select", !.id = c, !.image = x,
                                            !.inTime = capture[c].live]]
  /\ UNCHANGED <<capture, older, lock>>

(* Faulty variant: the SELECT does not lock the row.                       *)
SelectUnlocked(r) ==
  LET c == req[r].id IN
  /\ req[r].pc = "select"
  /\ IF capture[c].status = "PENDING" /\ req[r].inTime
     THEN req' = [req EXCEPT ![r].pc = "store"] ELSE Finish(r)
  /\ UNCHANGED <<capture, older, lock>>

(* SELECT ... FOR UPDATE: 404 unless the row is PENDING and lives.         *)
Select(r) ==
  LET c == req[r].id IN
  /\ req[r].pc = "select" /\ lock[c] = Free
  /\ IF capture[c].status = "PENDING" /\ req[r].inTime
     THEN lock' = [lock EXCEPT ![c] = r] /\ req' = [req EXCEPT ![r].pc = "store"]
     ELSE Finish(r) /\ UNCHANGED lock
  /\ UNCHANGED <<capture, older>>

(* UPDATE, and COMMIT.                                                     *)
Store(r) ==
  LET c == req[r].id IN
  /\ req[r].pc = "store" /\ lock[c] \in {r, Free}
  /\ capture' = IF c \in Stored
                THEN [capture EXCEPT ![c] = [@ EXCEPT !.status = "RECEIVED", !.image = req[r].image]]
                ELSE capture
  /\ lock' = Released(r) /\ Finish(r)
  /\ UNCHANGED older

------------------------------------------------------------------------------
(* DELETE /api/captures/:id.                                               *)
Delete(c) ==
  /\ c \in Stored /\ lock[c] = Free
  /\ capture' = [capture EXCEPT ![c] = NoRow] /\ Forget(c)
  /\ UNCHANGED <<lock, req>>

(* A minute passes over a capture, then its token's five, in the order of  *)
(* their creation; only after both may it be thirty days old.              *)
Age(c) ==
  /\ c \in Stored
  /\ \E flag \in {"recent", "live"} :
       /\ capture[c][flag] /\ flag = "live" => ~capture[c].recent
       /\ \A d \in Stored : <<d, c>> \in older => ~capture[d][flag]
       /\ capture' = [capture EXCEPT ![c][flag] = FALSE]
  /\ UNCHANGED <<older, lock, req>>

(* A statement fails, or the API restarts: ROLLBACK.                       *)
Fail(r) ==
  /\ req[r].pc # "idle"
  /\ IF Asking(r) THEN Forget(req[r].id) ELSE UNCHANGED older
  /\ lock' = Released(r) /\ Finish(r)
  /\ UNCHANGED capture

Next ==
  \/ \E r \in Requests :
       \/ \E m \in Members, c \in Ids : Ask(r, m, c)
       \/ Count(r) \/ Trim(r) \/ Purge(r) \/ Insert(r)
       \/ \E c \in Ids, x \in Images : Upload(r, c, x)
       \/ Select(r) \/ Store(r) \/ Fail(r)
  \/ \E c \in Ids : Delete(c) \/ Age(c)

Spec == Init /\ [][Next]_vars

------------------------------------------------------------------------------
(* Properties.                                                             *)

(* A token brings in one image: whatever uploads overlap, what has been    *)
(* received stays what it is until it is deleted (upload.ts:131-151).      *)
ReceivedOnce ==
  [][\A c \in Ids : capture[c].status = "RECEIVED" =>
       capture'[c].image \in {capture[c].image, None}]_vars

(* Retention holds up to the requests in flight: each deletes what it sees *)
(* beyond the limit before it adds one (routes.ts:1780-1798).              *)
RetentionHolds == Cardinality(Stored) <= Retained + Cardinality(Requests)

(* A member's requests in flight pass the limit of a minute by one each,   *)
(* except the last of them (routes.ts:1772-1778).                          *)
RateOvershootBounded ==
  \A m \in Members : Cardinality(Recent(m)) <= MaxPerMinute + Cardinality(Requests) - 1

(* A member passes the limit of a minute only with requests that counted   *)
(* before another of theirs was committed (routes.ts:1772-1778).           *)
RateOnlyPassedByARace ==
  [][\A m \in Members :
       Cardinality(Recent(m)') > MaxPerMinute /\ Cardinality(Recent(m)') > Cardinality(Recent(m)) =>
         \E r \in Requests : /\ req[r].pc = "insert" /\ req[r].by = m /\ req'[r] # req[r]
                             /\ Recent(m) \ req[r].counted # {}]_vars
==============================================================================

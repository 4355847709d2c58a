---------------------------- MODULE CommandQueue ----------------------------
(***************************************************************************)
(* The commands of one game server: queued by the dashboard                *)
(* (api/routes.ts), handed out to the agent at each poll (claimCommands)   *)
(* and settled by the results it reports (commandResults), in              *)
(* agent-gateway/service.ts.                                               *)
(*                                                                         *)
(* Here the transactions are not atomic: each statement is a step, a row   *)
(* written by an open transaction stays locked until it commits or rolls   *)
(* back, and the others see the version committed last (READ COMMITTED).   *)
(* now() is the time at which a transaction began.                         *)
(***************************************************************************)
EXTENDS Integers, Sequences, FiniteSets

CONSTANTS
  Commands,    \* command ids newId('cmd') can draw
  Polls,       \* GET /v1/agents/commands in flight
  Reports,     \* POST /v1/agents/commands/results in flight
  Free,        \* a row no open transaction has locked
  Outcomes,    \* results the agent may report
  Limit,       \* commands per poll (MAX_COMMANDS_PER_POLL, or ?limit=)
  Ttls,        \* ttl_seconds the dashboard may ask for
  IssueLag,    \* longest time an INSERT waits between its now() and COMMIT
  MaxResults,  \* bound: results in one report (50 in the code)
  MaxClock,    \* bound of time
  MaxFaults    \* bound: failures other than deadlocks

Requests == Polls \cup Reports

ASSUME QueueAssumption ==
  /\ Free \notin Requests
  /\ Polls \cap Reports = {}
  /\ Outcomes \subseteq {"COMPLETED", "FAILED", "REJECTED", "DUPLICATE"}
  /\ Limit \in Nat \ {0}
  /\ Ttls \subseteq Nat \ {0}
  /\ IssueLag \in Nat /\ MaxResults \in Nat /\ MaxClock \in Nat /\ MaxFaults \in Nat

VARIABLES
  clock,      \* the database's clock
  row,        \* agent_commands: committed status and result of each command
  latest,     \* the same with the writes of the open transactions
  lock,       \* the transaction holding the row, or Free
  created,    \* created_at
  expires,    \* expires_at
  pc,         \* step of each request
  at,         \* now() of each poll's transaction
  todo,       \* rows its first UPDATE has still to visit
  batch,      \* rows its second UPDATE claimed
  results,    \* the report's payload: sequence of [id, status]
  pos,        \* next result of the loop
  acked,      \* ids the report's transaction settled and has not published
  received,   \* commands the agent has received
  announced,  \* command.acknowledged events that reached Redis
  faults

tableVars  == <<row, latest, lock, created, expires>>
pollVars   == <<at, todo, batch>>
reportVars == <<results, pos, acked>>
vars == <<clock, row, latest, lock, created, expires, pc, at, todo, batch,
          results, pos, acked, received, announced, faults>>

Live == {"PENDING", "SENT"}
Settled == {"ACKNOWLEDGED", "FAILED"}
Version(st, res) == [st |-> st, res |-> res]
Versions == [st : {"none", "EXPIRED"} \cup Live \cup Settled, res : Outcomes \cup {"none"}]

Results == [id : Commands, status : Outcomes]

TypeOK ==
  /\ clock \in 0..MaxClock
  /\ row \in [Commands -> Versions]
  /\ latest \in [Commands -> Versions]
  /\ lock \in [Commands -> Requests \cup {Free}]
  /\ created \in [Commands -> 0..MaxClock]
  /\ expires \in [Commands -> 0..MaxClock]
  /\ pc \in [Requests -> {"idle", "expire", "commit", "reply", "update", "publish"}]
  /\ at \in [Polls -> 0..MaxClock]
  /\ todo \in [Polls -> SUBSET Commands]
  /\ batch \in [Polls -> SUBSET Commands]
  /\ results \in [Reports -> Seq(Results)]
  /\ pos \in [Reports -> Nat]
  /\ acked \in [Reports -> SUBSET Commands]
  /\ received \subseteq Commands
  /\ announced \subseteq Commands \X Outcomes
  /\ faults \in 0..MaxFaults

Init ==
  /\ clock = 0
  /\ row = [c \in Commands |-> Version("none", "none")]
  /\ latest = row
  /\ lock = [c \in Commands |-> Free]
  /\ created = [c \in Commands |-> 0]
  /\ expires = [c \in Commands |-> 0]
  /\ pc = [r \in Requests |-> "idle"]
  /\ at = [p \in Polls |-> 0]
  /\ todo = [p \in Polls |-> {}]
  /\ batch = [p \in Polls |-> {}]
  /\ results = [r \in Reports |-> <<>>]
  /\ pos = [r \in Reports |-> 1]
  /\ acked = [r \in Reports |-> {}]
  /\ received = {}
  /\ announced = {}
  /\ faults = 0

------------------------------------------------------------------------------
(* Transactions and row locks.                                             *)

Goto(r, step) == pc' = [pc EXCEPT ![r] = step]

(* r writes version v in the rows of S and keeps them locked.              *)
Write(r, S, v) ==
  /\ lock' = [c \in Commands |-> IF c \in S THEN r ELSE lock[c]]
  /\ latest' = [c \in Commands |-> IF c \in S THEN v ELSE latest[c]]

Unlock(r) == lock' = [c \in Commands |-> IF lock[c] = r THEN Free ELSE lock[c]]

Commit(r) ==
  /\ row' = [c \in Commands |-> IF lock[c] = r THEN latest[c] ELSE row[c]]
  /\ Unlock(r)
  /\ UNCHANGED latest

(* A statement of r on row c waits for another transaction's lock; once it *)
(* has ended the condition is evaluated again on the committed row.        *)
Available(r, c) == lock[c] \in {r, Free}

(* What r's statements read of row c.                                      *)
Seen(r, c) == IF lock[c] = r THEN latest[c] ELSE row[c]

(* The command the next turn of r's loop updates.                          *)
NextId(r) == results[r][pos[r]].id

(* Transactions r's current statement is waiting for.                      *)
WaitsFor(r) ==
  IF pc[r] = "expire" /\ \A c \in todo[r] : ~Available(r, c)
  THEN {lock[c] : c \in todo[r]}
  ELSE IF pc[r] = "update" /\ pos[r] <= Len(results[r])
  THEN IF row[NextId(r)].st \in Live /\ ~Available(r, NextId(r))
       THEN {lock[NextId(r)]} ELSE {}
  ELSE {}

(* r belongs to a set of transactions that wait for one another.           *)
InDeadlock(r) ==
  \E D \in SUBSET Requests :
    /\ r \in D
    /\ \A d \in D : /\ WaitsFor(d) \cap D # {}
                    /\ \E w \in D : d \in WaitsFor(w)

------------------------------------------------------------------------------
(* Dashboard.                                                              *)

(* POST commands, spectate and capture: INSERT ... now() + ttl.  An INSERT *)
(* refused because the server is deleted leaves nothing behind.            *)
Issue(c) ==
  /\ row[c].st = "none"
  /\ \E t \in 0..clock, ttl \in Ttls :
       /\ clock - t <= IssueLag /\ t + ttl <= MaxClock
       /\ created' = [created EXCEPT ![c] = t]
       /\ expires' = [expires EXCEPT ![c] = t + ttl]
  /\ row' = [row EXCEPT ![c] = Version("PENDING", "none")]
  /\ latest' = [latest EXCEPT ![c] = Version("PENDING", "none")]
  /\ UNCHANGED <<clock, lock, pc, pollVars, reportVars, received, announced, faults>>

------------------------------------------------------------------------------
(* claimCommands.                                                          *)

(* BEGIN, and the rows its first UPDATE finds.                             *)
BeginPoll(p) ==
  /\ pc[p] = "idle"
  /\ Goto(p, "expire")
  /\ at' = [at EXCEPT ![p] = clock]
  /\ todo' = [todo EXCEPT ![p] =
       {c \in Commands : row[c].st \in Live /\ expires[c] <= clock}]
  /\ UNCHANGED <<clock, tableVars, batch, reportVars, received, announced, faults>>

(* Faulty variant: the row is not examined again after waiting for it.     *)
ExpireRowUnchecked(p, c) ==
  /\ pc[p] = "expire" /\ c \in todo[p] /\ Available(p, c)
  /\ Write(p, {c}, Version("EXPIRED", "none"))
  /\ todo' = [todo EXCEPT ![p] = @ \ {c}]
  /\ UNCHANGED <<clock, row, created, expires, pc, at, batch, reportVars, received,
                 announced, faults>>

(* UPDATE ... SET status = 'EXPIRED', row by row.                          *)
ExpireRow(p, c) ==
  /\ pc[p] = "expire" /\ c \in todo[p] /\ Available(p, c)
  /\ Write(p, IF row[c].st \in Live THEN {c} ELSE {}, Version("EXPIRED", "none"))
  /\ todo' = [todo EXCEPT ![p] = @ \ {c}]
  /\ UNCHANGED <<clock, row, created, expires, pc, at, batch, reportVars, received,
                 announced, faults>>

(* Faulty variant: the rows others have locked are not skipped.            *)
ClaimableLocked(p) ==
  {c \in Commands : row[c].st \in Live /\ expires[c] > at[p]}

(* What FOR UPDATE SKIP LOCKED can return to p.                            *)
Claimable(p) ==
  {c \in Commands : /\ row[c].st \in Live
                    /\ expires[c] > at[p]
                    /\ lock[c] = Free}

(* The batches ORDER BY created_at LIMIT can select; equal times leave the *)
(* choice to the database.                                                 *)
Oldest(S) ==
  {B \in SUBSET S : /\ \/ Cardinality(B) = Limit
                       \/ Cardinality(B) < Limit /\ B = S
                    /\ \A c \in B, d \in S \ B : created[c] <= created[d]}

Claim(p) ==
  /\ pc[p] = "expire" /\ todo[p] = {}
  /\ \E B \in Oldest(Claimable(p)) :
       /\ batch' = [batch EXCEPT ![p] = B]
       /\ Write(p, B, Version("SENT", "none"))
  /\ Goto(p, "commit")
  /\ UNCHANGED <<clock, row, created, expires, at, todo, reportVars, received,
                 announced, faults>>

CommitPoll(p) ==
  /\ pc[p] = "commit"
  /\ Commit(p)
  /\ Goto(p, "reply")
  /\ UNCHANGED <<clock, created, expires, pollVars, reportVars, received, announced,
                 faults>>

(* The signed answer reaches the agent, or is lost.                        *)
Reply(p) ==
  /\ pc[p] = "reply"
  /\ received' \in {received, received \cup batch[p]}
  /\ batch' = [batch EXCEPT ![p] = {}]
  /\ Goto(p, "idle")
  /\ UNCHANGED <<clock, tableVars, at, todo, reportVars, announced, faults>>

------------------------------------------------------------------------------
(* commandResults.                                                         *)

StatusOf(o) == IF o = "FAILED" THEN "FAILED" ELSE "ACKNOWLEDGED"

(* payload.results.find((candidate) => candidate.id === id)?.status        *)
Reported(rs, c) ==
  rs[CHOOSE i \in DOMAIN rs : rs[i].id = c /\ \A j \in 1..(i - 1) : rs[j].id # c].status

(* The agent reports results for commands it received, possibly again,     *)
(* late, or twice in one payload.                                          *)
BeginReport(r) ==
  /\ pc[r] = "idle"
  /\ \E n \in 1..MaxResults :
       \E rs \in [1..n -> [id : received, status : Outcomes]] :
         results' = [results EXCEPT ![r] = rs]
  /\ pos' = [pos EXCEPT ![r] = 1]
  /\ acked' = [acked EXCEPT ![r] = {}]
  /\ Goto(r, "update")
  /\ UNCHANGED <<clock, tableVars, pollVars, received, announced, faults>>

(* One turn of the loop: UPDATE ... WHERE status IN ('PENDING', 'SENT').   *)
UpdateRow(r) ==
  /\ pc[r] = "update" /\ pos[r] <= Len(results[r])
  /\ LET c == NextId(r)
         o == results[r][pos[r]].status
         open == Seen(r, c).st \in Live
     IN /\ open => Available(r, c)
        /\ Write(r, IF open THEN {c} ELSE {}, Version(StatusOf(o), o))
        /\ acked' = [acked EXCEPT ![r] = IF open THEN @ \cup {c} ELSE @]
  /\ pos' = [pos EXCEPT ![r] = @ + 1]
  /\ UNCHANGED <<clock, row, created, expires, pc, pollVars, results, received,
                 announced, faults>>

CommitReport(r) ==
  /\ pc[r] = "update" /\ pos[r] > Len(results[r])
  /\ Commit(r)
  /\ Goto(r, "publish")
  /\ UNCHANGED <<clock, created, expires, pollVars, reportVars, received, announced,
                 faults>>

(* One event per settled command; Redis may lose it and nobody is told.    *)
Publish(r) ==
  /\ pc[r] = "publish"
  /\ \E c \in acked[r] :
       /\ announced' \in {announced, announced \cup {<<c, Reported(results[r], c)>>}}
       /\ acked' = [acked EXCEPT ![r] = @ \ {c}]
  /\ UNCHANGED <<clock, tableVars, pc, pollVars, results, pos, received, faults>>

Answer(r) ==
  /\ pc[r] = "publish" /\ acked[r] = {}
  /\ results' = [results EXCEPT ![r] = <<>>]
  /\ pos' = [pos EXCEPT ![r] = 1]
  /\ Goto(r, "idle")
  /\ UNCHANGED <<clock, tableVars, pollVars, acked, received, announced, faults>>

------------------------------------------------------------------------------
(* Failures: a statement fails, the connection drops or the API restarts.  *)
(* withTenant rolls back; past COMMIT only the answer and the remaining    *)
(* events are lost.                                                        *)

(* Faulty variant: the connection returns to the pool without a ROLLBACK.  *)
RollbackForgotten(r) ==
  /\ pc[r] # "idle"
  /\ Goto(r, "idle")
  /\ todo' = [p \in Polls |-> IF p = r THEN {} ELSE todo[p]]
  /\ batch' = [p \in Polls |-> IF p = r THEN {} ELSE batch[p]]
  /\ results' = [s \in Reports |-> IF s = r THEN <<>> ELSE results[s]]
  /\ pos' = [s \in Reports |-> IF s = r THEN 1 ELSE pos[s]]
  /\ acked' = [s \in Reports |-> IF s = r THEN {} ELSE acked[s]]
  /\ UNCHANGED <<clock, tableVars, at, received, announced>>

Rollback(r) ==
  /\ pc[r] # "idle"
  /\ Unlock(r)
  /\ latest' = [c \in Commands |-> IF lock[c] = r THEN row[c] ELSE latest[c]]
  /\ Goto(r, "idle")
  /\ todo' = [p \in Polls |-> IF p = r THEN {} ELSE todo[p]]
  /\ batch' = [p \in Polls |-> IF p = r THEN {} ELSE batch[p]]
  /\ results' = [s \in Reports |-> IF s = r THEN <<>> ELSE results[s]]
  /\ pos' = [s \in Reports |-> IF s = r THEN 1 ELSE pos[s]]
  /\ acked' = [s \in Reports |-> IF s = r THEN {} ELSE acked[s]]
  /\ UNCHANGED <<clock, row, created, expires, at, received, announced>>

Fail(r) ==
  /\ faults < MaxFaults
  /\ faults' = faults + 1
  /\ Rollback(r)

(* The database aborts one transaction of a cycle of waits.                *)
BreakDeadlock(r) ==
  /\ InDeadlock(r)
  /\ Rollback(r)
  /\ UNCHANGED faults

Tick ==
  /\ clock < MaxClock
  /\ clock' = clock + 1
  /\ UNCHANGED <<tableVars, pc, pollVars, reportVars, received, announced, faults>>

PollStep(p) ==
  \/ \E c \in Commands : ExpireRow(p, c)
  \/ Claim(p)
  \/ CommitPoll(p)
  \/ Reply(p)

ReportStep(r) ==
  \/ UpdateRow(r)
  \/ CommitReport(r)
  \/ Publish(r)
  \/ Answer(r)

Next ==
  \/ Tick
  \/ \E c \in Commands : Issue(c)
  \/ \E p \in Polls : BeginPoll(p) \/ PollStep(p)
  \/ \E r \in Reports : BeginReport(r) \/ ReportStep(r)
  \/ \E r \in Requests : Fail(r) \/ BreakDeadlock(r)

Spec == Init /\ [][Next]_vars

(* Time passes, the agent keeps polling, statements whose rows are free    *)
(* end, a transaction waiting for a row has it before those that come      *)
(* later (PostgreSQL queues the waiters of a lock), and the database       *)
(* breaks deadlocks (deadlock_timeout).                                    *)
Fairness ==
  /\ WF_vars(Tick)
  /\ \A p \in Polls : /\ WF_vars(BeginPoll(p)) /\ WF_vars(PollStep(p))
                      /\ \A c \in Commands : SF_vars(ExpireRow(p, c))
  /\ \A r \in Reports : /\ WF_vars(ReportStep(r))
                        /\ \A c \in Commands : SF_vars(UpdateRow(r) /\ NextId(r) = c)
  /\ WF_vars(\E r \in Requests : BreakDeadlock(r))

FairSpec == Spec /\ Fairness

------------------------------------------------------------------------------
(* Properties.                                                             *)

(* A batch is handed out by one poll at a time, and no report or expiry    *)
(* settles one of its commands before the poll commits: the agent is never *)
(* given a command the table has already closed (service.ts:607-622,       *)
(* FOR UPDATE SKIP LOCKED).                                                *)
ClaimHolds ==
  \A p \in Polls : pc[p] = "commit" =>
    \A c \in batch[p] : /\ row[c].st \in Live
                        /\ \A q \in Polls \ {p} : pc[q] = "commit" => c \notin batch[q]

(* What the dashboard is told of a command is what the table says, even    *)
(* when one payload names a command twice or two reports of it overlap     *)
(* (service.ts:656-695).                                                   *)
AnnouncedIsStored ==
  \A e \in announced : row[e[1]] = Version(StatusOf(e[2]), e[2])

(* A command settled by one report is settled, and so announced, by no     *)
(* other, whatever the agent resends (service.ts:668-669, 686).            *)
AnnouncedOnce ==
  \A r \in Reports : \A c \in acked[r] :
    /\ \A o \in Outcomes : <<c, o>> \notin announced
    /\ \A s \in Reports \ {r} : c \notin acked[s]

(* The queue implements CommandLifecycle: final verdicts, no early expiry, *)
(* one truthful announcement, across overlapping transactions.             *)
Lifecycle == INSTANCE CommandLifecycle WITH Statuses <- [o \in Outcomes |-> StatusOf(o)]
ImplementsLifecycle == Lifecycle!Spec

(* A command does not stay open for ever while the agent polls: it is      *)
(* settled or expires, whatever locks, deadlocks and lost answers it meets *)
(* (service.ts:592-600).                                                   *)
EventuallySettled ==
  \A c \in Commands : row[c].st = "PENDING" ~> row[c].st \notin Live

(* No poll and no report waits for ever for the rows of another: locks are *)
(* released at the end of every transaction (lib/db.ts:67-99).             *)
EveryRequestEnds == \A r \in Requests : pc[r] # "idle" ~> pc[r] = "idle"

(* api/routes.ts:1584: the agent will fetch the command at its next poll.  *)
NextPollDelivers ==
  [][\A p \in Polls : pc[p] = "expire" /\ pc'[p] = "commit" =>
       \A c \in Commands :
         row[c].st = "PENDING" /\ lock[c] = Free /\ expires[c] > clock => c \in batch'[p]]_vars
==============================================================================

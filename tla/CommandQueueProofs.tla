------------------------- MODULE CommandQueueProofs -------------------------
(***************************************************************************)
(* Proofs about CommandQueue.  The inductive invariant says what a locked  *)
(* row means: it is still open in the table, one transaction holds it, and *)
(* its uncommitted version is an expiry that is due, a delivery, or the    *)
(* verdict the holder will announce.                                       *)
(***************************************************************************)
EXTENDS CommandQueue, SequenceTheorems, TLAPS

(* The version r's report gives to command c.                              *)
Verdict(r, c) ==
  Version(StatusOf(Reported(results[r], c)), Reported(results[r], c))

StepsOK ==
  /\ \A p \in Polls : pc[p] \in {"idle", "expire", "commit", "reply"}
  /\ \A r \in Reports : pc[r] \in {"idle", "update", "publish"} /\ pos[r] >= 1

FreeRows == \A c \in Commands : lock[c] = Free => latest[c] = row[c]

LockedRows == \A c \in Commands : lock[c] # Free => row[c].st \in Live

PollLocks ==
  \A p \in Polls, c \in Commands : lock[c] = p =>
    /\ pc[p] \in {"expire", "commit"}
    /\ \/ latest[c] = Version("SENT", "none")
       \/ latest[c] = Version("EXPIRED", "none") /\ expires[c] <= at[p]

PollTodo ==
  \A p \in Polls :
    /\ at[p] <= clock
    /\ pc[p] = "expire" => \A c \in todo[p] : expires[c] <= at[p] /\ row[c].st # "none"

BatchHeld ==
  \A p \in Polls : \A c \in batch[p] :
    /\ row[c].st # "none"
    /\ pc[p] = "commit" => lock[c] = p

KnownIssued ==
  /\ \A c \in received : row[c].st # "none"
  /\ \A r \in Reports : \A i \in 1..Len(results[r]) : row[results[r][i].id].st # "none"

ReportLocks ==
  \A r \in Reports, c \in Commands : lock[c] = r => pc[r] = "update" /\ c \in acked[r]

AckedVerdict ==
  \A r \in Reports : \A c \in acked[r] :
    /\ Reported(results[r], c) \in Outcomes
    /\ pc[r] # "idle"
    /\ pc[r] = "update" => lock[c] = r /\ latest[c] = Verdict(r, c)
    /\ pc[r] = "publish" => row[c] = Verdict(r, c)

PassedClosed ==
  \A r \in Reports : pc[r] = "update" =>
    \A i \in 1..Len(results[r]) : i < pos[r] =>
      results[r][i].id \in acked[r] \/ row[results[r][i].id].st \notin Live

QueueInv ==
  /\ TypeOK /\ StepsOK /\ FreeRows /\ LockedRows /\ PollLocks /\ PollTodo /\ BatchHeld
  /\ KnownIssued /\ ReportLocks /\ AckedVerdict /\ PassedClosed
  /\ AnnouncedIsStored /\ AnnouncedOnce

(* The result the loop reaches first for a command is the one that         *)
(* payload.results.find returns.                                           *)
LEMMA FirstReported ==
  ASSUME NEW rs \in Seq(Results), NEW i \in 1..Len(rs),
         \A j \in 1..(i - 1) : rs[j].id # rs[i].id
  PROVE  Reported(rs, rs[i].id) = rs[i].status
<1> DEFINE First(k) == rs[k].id = rs[i].id /\ \A j \in 1..(k - 1) : rs[j].id # rs[i].id
<1>1. DOMAIN rs = 1..Len(rs)
  OBVIOUS
<1>2. First(i)
  OBVIOUS
<1>3. ASSUME NEW k \in 1..Len(rs), First(k)
      PROVE  k = i
  <2>1. ~(k < i)
    BY <1>3
  <2>2. ~(i < k)
    BY <1>3
  <2>3. QED  BY <2>1, <2>2
<1>4. (CHOOSE k \in DOMAIN rs : First(k)) = i
  BY <1>1, <1>2, <1>3
<1>5. QED
  BY <1>4 DEF Reported

LEMMA ResultTypes ==
  ASSUME TypeOK, NEW r \in Reports
  PROVE  /\ results[r] \in Seq(Results) /\ Len(results[r]) \in Nat
         /\ \A i \in 1..Len(results[r]) :
              results[r][i].id \in Commands /\ results[r][i].status \in Outcomes
<1>1. results[r] \in Seq(Results)
  BY DEF TypeOK
<1>2. \A i \in 1..Len(results[r]) : results[r][i] \in Results
  BY <1>1, ElementOfSeq
<1>3. QED  BY <1>1, <1>2, LenProperties DEF Results

LEMMA VersionFacts ==
  /\ \A s, v : Version(s, v).st = s /\ Version(s, v).res = v
  /\ \A o : StatusOf(o) \in Settled
  /\ \A s \in {"none", "EXPIRED"} \cup Live \cup Settled, v \in Outcomes \cup {"none"} :
       Version(s, v) \in Versions
  /\ \A v \in Versions : v = Version(v.st, v.res)
  BY DEF Version, StatusOf, Settled, Versions

LEMMA QueueInvInit == Init => QueueInv
  BY QueueAssumption
  DEF Init, QueueInv, TypeOK, StepsOK, FreeRows, LockedRows, PollLocks, PollTodo,
      BatchHeld, KnownIssued, ReportLocks, AckedVerdict, PassedClosed,
      AnnouncedIsStored, AnnouncedOnce, Requests, Version, Versions, Live

(* Actions that touch neither the rows nor a report in progress.           *)
LEMMA QuietStep ==
  ASSUME QueueInv,
         \/ Tick
         \/ \E p \in Polls : BeginPoll(p) \/ Reply(p)
  PROVE  QueueInv'
<1> USE DEF QueueInv
<1>1. CASE Tick
  <2>1. TypeOK'
    BY <1>1, QueueAssumption DEF Tick, TypeOK, tableVars, pollVars, reportVars
  <2>2. QED
    BY <1>1, <2>1 DEF Tick, TypeOK, StepsOK, FreeRows, LockedRows, PollLocks,
       PollTodo, BatchHeld, KnownIssued, ReportLocks, AckedVerdict, Verdict,
       PassedClosed, AnnouncedIsStored, AnnouncedOnce, tableVars, pollVars, reportVars
<1>2. ASSUME NEW p \in Polls, BeginPoll(p)
      PROVE  QueueInv'
  <2>1. p \in Requests /\ p \notin Reports
    BY QueueAssumption DEF Requests
  <2>2. TypeOK' /\ StepsOK'
    BY <1>2, <2>1 DEF BeginPoll, Goto, TypeOK, StepsOK, tableVars, reportVars
  <2>3. FreeRows' /\ LockedRows' /\ PollLocks' /\ ReportLocks'
    BY <1>2, <2>1 DEF BeginPoll, Goto, TypeOK, FreeRows, LockedRows, PollLocks,
       ReportLocks, Requests, tableVars, reportVars
  <2>4. PollTodo' /\ BatchHeld' /\ KnownIssued'
    BY <1>2, <2>1 DEF BeginPoll, Goto, TypeOK, PollTodo, BatchHeld, KnownIssued, Live,
       tableVars, reportVars
  <2>5. AckedVerdict' /\ PassedClosed' /\ AnnouncedIsStored' /\ AnnouncedOnce'
    BY <1>2, <2>1 DEF BeginPoll, Goto, TypeOK, AckedVerdict, Verdict, PassedClosed,
       AnnouncedIsStored, AnnouncedOnce, Requests, tableVars, reportVars
  <2>6. QED  BY <2>2, <2>3, <2>4, <2>5
<1>3. ASSUME NEW p \in Polls, Reply(p)
      PROVE  QueueInv'
  <2>1. p \in Requests /\ p \notin Reports
    BY QueueAssumption DEF Requests
  <2>2. TypeOK' /\ StepsOK'
    BY <1>3, <2>1 DEF Reply, Goto, TypeOK, StepsOK, tableVars, reportVars
  <2>3. FreeRows' /\ LockedRows' /\ PollLocks' /\ ReportLocks'
    BY <1>3, <2>1 DEF Reply, Goto, TypeOK, FreeRows, LockedRows, PollLocks,
       ReportLocks, Requests, tableVars, reportVars
  <2>4. PollTodo' /\ BatchHeld' /\ KnownIssued'
    BY <1>3, <2>1 DEF Reply, Goto, TypeOK, PollTodo, BatchHeld, KnownIssued,
       tableVars, reportVars
  <2>5. AckedVerdict' /\ PassedClosed' /\ AnnouncedIsStored' /\ AnnouncedOnce'
    BY <1>3, <2>1 DEF Reply, Goto, TypeOK, AckedVerdict, Verdict, PassedClosed,
       AnnouncedIsStored, AnnouncedOnce, Requests, tableVars, reportVars
  <2>6. QED  BY <2>2, <2>3, <2>4, <2>5
<1>4. QED  BY <1>1, <1>2, <1>3

LEMMA IssueStep ==
  ASSUME QueueInv, NEW k \in Commands, Issue(k)
  PROVE  QueueInv'
<1> USE DEF QueueInv
<1>1. lock[k] = Free /\ row[k].st = "none"
  BY DEF Issue, LockedRows, Live
<1>2. TypeOK'
  <2>1. Version("PENDING", "none") \in Versions
    BY VersionFacts DEF Live
  <2>2. row' \in [Commands -> Versions] /\ latest' \in [Commands -> Versions]
    BY <2>1 DEF Issue, TypeOK
  <2>3. created' \in [Commands -> 0..MaxClock] /\ expires' \in [Commands -> 0..MaxClock]
    <3>1. PICK t \in 0..clock, ttl \in Ttls :
            /\ t + ttl <= MaxClock
            /\ created' = [created EXCEPT ![k] = t]
            /\ expires' = [expires EXCEPT ![k] = t + ttl]
      BY DEF Issue
    <3>2. t \in 0..MaxClock /\ t + ttl \in 0..MaxClock
      BY <3>1, QueueAssumption DEF TypeOK
    <3>3. QED  BY <3>1, <3>2 DEF TypeOK
  <2>4. QED
    BY <2>2, <2>3 DEF Issue, TypeOK, pollVars, reportVars
<1>3. /\ row'[k] = Version("PENDING", "none") /\ latest'[k] = row'[k]
      /\ \A c \in Commands \ {k} :
           row'[c] = row[c] /\ latest'[c] = latest[c] /\ expires'[c] = expires[c]
  BY DEF Issue, TypeOK
<1>4. StepsOK' /\ FreeRows' /\ LockedRows' /\ PollLocks' /\ ReportLocks'
  BY <1>1, <1>3, QueueAssumption
  DEF Issue, TypeOK, StepsOK, FreeRows, LockedRows, PollLocks, ReportLocks, Requests,
      pollVars, reportVars
<1>5. PollTodo' /\ BatchHeld' /\ KnownIssued'
  <2>1. \A r \in Reports : \A i \in 1..Len(results[r]) : results[r][i].id \in Commands
    BY ResultTypes
  <2>2. QED
    BY <1>1, <1>3, <2>1 DEF Issue, TypeOK, PollTodo, BatchHeld, KnownIssued, Version,
       pollVars, reportVars
<1>6. AckedVerdict' /\ AnnouncedIsStored' /\ AnnouncedOnce'
  <2>1. \A r \in Reports : k \notin acked[r]
    <3>1. \A r \in Reports : r # Free
      BY QueueAssumption DEF Requests
    <3>2. QED
      BY <1>1, <3>1, VersionFacts DEF AckedVerdict, Verdict, StepsOK, Settled
  <2>2. \A e \in announced : e[1] \in Commands \ {k}
    <3>1. \A e \in announced : e[1] \in Commands
      BY DEF TypeOK
    <3>2. \A e \in announced : row[e[1]].st \in Settled
      BY VersionFacts DEF AnnouncedIsStored
    <3>3. QED  BY <1>1, <3>1, <3>2 DEF Settled
  <2>3. QED
    BY <1>3, <2>1, <2>2 DEF Issue, TypeOK, AckedVerdict, Verdict, AnnouncedIsStored,
       AnnouncedOnce, pollVars, reportVars
<1>7. PassedClosed'
  <2>1. \A r \in Reports : \A i \in 1..Len(results[r]) : results[r][i].id \in Commands \ {k}
    BY <1>1, ResultTypes DEF KnownIssued
  <2>2. QED
    BY <1>3, <2>1 DEF Issue, PassedClosed, pollVars, reportVars
<1>8. QED  BY <1>2, <1>4, <1>5, <1>6, <1>7

(* What Write changes.                                                     *)
LEMMA WriteFacts ==
  ASSUME TypeOK, NEW r \in Requests, NEW S \in SUBSET Commands, NEW v \in Versions,
         Write(r, S, v)
  PROVE  /\ lock' \in [Commands -> Requests \cup {Free}]
         /\ latest' \in [Commands -> Versions]
         /\ \A c \in S : lock'[c] = r /\ latest'[c] = v
         /\ \A c \in Commands \ S : lock'[c] = lock[c] /\ latest'[c] = latest[c]
  BY DEF Write, TypeOK

LEMMA ExpireStep ==
  ASSUME QueueInv, NEW p \in Polls, NEW k \in Commands, ExpireRow(p, k)
  PROVE  QueueInv'
<1> USE DEF QueueInv
<1> DEFINE S == IF row[k].st \in Live THEN {k} ELSE {}
           v == Version("EXPIRED", "none")
<1>1. p \in Requests /\ p \notin Reports /\ p # Free
  BY QueueAssumption DEF Requests
<1>2. pc[p] = "expire" /\ expires[k] <= at[p] /\ lock[k] \in {p, Free}
  BY DEF ExpireRow, PollTodo, Available
<1>3. v \in Versions /\ S \subseteq {k} /\ \A c \in S : row[c].st \in Live
  BY VersionFacts
<1>4. Write(p, S, v)
  BY DEF ExpireRow
<1> HIDE DEF S, v
<1>5. /\ lock' \in [Commands -> Requests \cup {Free}]
      /\ latest' \in [Commands -> Versions]
      /\ \A c \in S : c = k /\ lock'[c] = p /\ latest'[c] = v
      /\ \A c \in Commands \ S : lock'[c] = lock[c] /\ latest'[c] = latest[c]
  BY <1>1, <1>3, <1>4, WriteFacts
<1>6. TypeOK' /\ StepsOK'
  BY <1>5 DEF ExpireRow, TypeOK, StepsOK, reportVars
<1>7. FreeRows' /\ LockedRows' /\ ReportLocks'
  BY <1>1, <1>2, <1>3, <1>5 DEF ExpireRow, FreeRows, LockedRows, ReportLocks, reportVars
<1>8. PollLocks'
  BY <1>1, <1>2, <1>3, <1>5 DEF ExpireRow, PollLocks, v
<1>9. PollTodo' /\ BatchHeld' /\ KnownIssued'
  <2>1. PollTodo'
    <3>1. \A q \in Polls : todo'[q] \subseteq todo[q]
      BY DEF ExpireRow, TypeOK
    <3>2. UNCHANGED <<clock, row, expires, pc, at>>
      BY DEF ExpireRow
    <3>3. QED  BY <3>1, <3>2 DEF PollTodo
  <2>2. BatchHeld'
    <3>1. UNCHANGED <<row, pc, batch>> /\ \A q \in Polls : batch[q] \subseteq Commands
      BY DEF ExpireRow, TypeOK
    <3>2. \A q \in Polls : q # Free
      BY QueueAssumption DEF Requests
    <3>3. QED  BY <1>2, <1>3, <1>5, <3>1, <3>2 DEF BatchHeld
  <2>3. KnownIssued'
    BY DEF ExpireRow, KnownIssued, reportVars
  <2>4. QED  BY <2>1, <2>2, <2>3
<1>10. AckedVerdict' /\ PassedClosed' /\ AnnouncedIsStored' /\ AnnouncedOnce'
  <2>1. AckedVerdict'
    <3>1. UNCHANGED <<row, pc, results, acked>>
      BY DEF ExpireRow, reportVars
    <3>2. \A r \in Reports : \A c \in acked[r] :
            pc[r] = "update" => lock'[c] = lock[c] /\ latest'[c] = latest[c]
      <4>1. \A r \in Reports : r # p /\ r # Free
        BY QueueAssumption DEF Requests
      <4>2. QED  BY <1>2, <1>3, <1>5, <4>1 DEF AckedVerdict, TypeOK
    <3>3. QED  BY <3>1, <3>2 DEF AckedVerdict, Verdict
  <2>2. PassedClosed'
    BY DEF ExpireRow, PassedClosed, reportVars
  <2>3. QED
    BY <2>1, <2>2 DEF ExpireRow, AnnouncedIsStored, AnnouncedOnce, reportVars
<1>11. QED  BY <1>6, <1>7, <1>8, <1>9, <1>10

LEMMA ClaimStep ==
  ASSUME QueueInv, NEW p \in Polls, Claim(p)
  PROVE  QueueInv'
<1> USE DEF QueueInv
<1> DEFINE v == Version("SENT", "none")
<1>1. p \in Requests /\ p \notin Reports /\ p # Free
  BY QueueAssumption DEF Requests
<1>2. PICK B \in Oldest(Claimable(p)) :
        batch' = [batch EXCEPT ![p] = B] /\ Write(p, B, v)
  BY DEF Claim
<1>3. /\ B \subseteq Commands
      /\ \A c \in B : row[c].st \in Live /\ lock[c] = Free
  BY <1>2 DEF Oldest, Claimable
<1>4. v \in Versions
  BY VersionFacts DEF Live
<1> HIDE DEF v
<1>5. /\ lock' \in [Commands -> Requests \cup {Free}]
      /\ latest' \in [Commands -> Versions]
      /\ \A c \in B : lock'[c] = p /\ latest'[c] = v
      /\ \A c \in Commands \ B : lock'[c] = lock[c] /\ latest'[c] = latest[c]
  BY <1>1, <1>2, <1>3, <1>4, WriteFacts
<1>6. pc[p] = "expire" /\ pc' = [pc EXCEPT ![p] = "commit"]
  BY DEF Claim, Goto
<1>7. TypeOK' /\ StepsOK'
  BY <1>1, <1>2, <1>3, <1>5, <1>6 DEF Claim, TypeOK, StepsOK, reportVars
<1>8. FreeRows' /\ LockedRows' /\ ReportLocks'
  BY <1>1, <1>3, <1>5, <1>6 DEF Claim, FreeRows, LockedRows, ReportLocks, TypeOK,
     reportVars
<1>9. PollLocks'
  BY <1>1, <1>3, <1>5, <1>6 DEF Claim, PollLocks, TypeOK, v
<1>10. PollTodo' /\ BatchHeld' /\ KnownIssued'
  <2>1. PollTodo'
    BY <1>1, <1>6 DEF Claim, PollTodo, TypeOK
  <2>2. BatchHeld'
    <3>1. \A q \in Polls : q # Free
      BY QueueAssumption DEF Requests
    <3>2. row' = row /\ \A q \in Polls \ {p} : batch'[q] = batch[q] /\ pc'[q] = pc[q]
      BY <1>2, <1>6 DEF Claim, TypeOK, Requests
    <3>3. batch'[p] = B /\ \A q \in Polls : batch[q] \subseteq Commands
      BY <1>2 DEF TypeOK
    <3>4. \A c \in batch'[p] : row'[c].st # "none" /\ lock'[c] = p
      BY <1>3, <1>5, <3>2, <3>3 DEF Live
    <3>5. ASSUME NEW q \in Polls \ {p}, NEW c \in batch'[q]
          PROVE  row'[c].st # "none" /\ (pc'[q] = "commit" => lock'[c] = q)
      BY <1>3, <1>5, <3>1, <3>2, <3>3 DEF BatchHeld
    <3>6. QED  BY <3>4, <3>5 DEF BatchHeld
  <2>3. KnownIssued'
    BY DEF Claim, KnownIssued, reportVars
  <2>4. QED  BY <2>1, <2>2, <2>3
<1>11. AckedVerdict' /\ PassedClosed' /\ AnnouncedIsStored' /\ AnnouncedOnce'
  <2>1. AckedVerdict'
    <3>1. UNCHANGED <<row, results, acked>> /\ \A r \in Reports : pc'[r] = pc[r]
      BY <1>1, <1>6 DEF Claim, TypeOK, Requests, reportVars
    <3>2. \A r \in Reports : \A c \in acked[r] :
            pc[r] = "update" => lock'[c] = lock[c] /\ latest'[c] = latest[c]
      <4>1. \A r \in Reports : r # Free
        BY QueueAssumption DEF Requests
      <4>2. QED  BY <1>3, <1>5, <4>1 DEF AckedVerdict, TypeOK
    <3>3. QED  BY <3>1, <3>2 DEF AckedVerdict, Verdict
  <2>2. PassedClosed'
    BY <1>1, <1>6 DEF Claim, PassedClosed, TypeOK, Requests, reportVars
  <2>3. QED
    BY <2>1, <2>2 DEF Claim, AnnouncedIsStored, AnnouncedOnce, reportVars
<1>12. QED  BY <1>7, <1>8, <1>9, <1>10, <1>11

(* What the end of a transaction does to the rows: those it held receive   *)
(* their version and are freed, and a closed row never changes.            *)
LEMMA CommitFacts ==
  ASSUME QueueInv, NEW r \in Requests, Commit(r)
  PROVE  /\ row' \in [Commands -> Versions] /\ lock' \in [Commands -> Requests \cup {Free}]
         /\ latest' = latest
         /\ \A c \in Commands :
              /\ row[c].st \notin Live => row'[c] = row[c]
              /\ row[c].st # "none" => row'[c].st # "none"
              /\ lock[c] = r => lock'[c] = Free /\ row'[c] = latest[c]
              /\ lock[c] # r => lock'[c] = lock[c] /\ row'[c] = row[c]
<1> USE DEF QueueInv
<1>1. /\ row' \in [Commands -> Versions] /\ lock' \in [Commands -> Requests \cup {Free}]
      /\ latest' = latest
      /\ \A c \in Commands :
           /\ lock[c] = r => lock'[c] = Free /\ row'[c] = latest[c]
           /\ lock[c] # r => lock'[c] = lock[c] /\ row'[c] = row[c]
  BY DEF Commit, Unlock, TypeOK
<1>2. \A c \in Commands : lock[c] = r => row[c].st \in Live /\ latest[c].st # "none"
  <2> SUFFICES ASSUME NEW c \in Commands, lock[c] = r
               PROVE  row[c].st \in Live /\ latest[c].st # "none"
    OBVIOUS
  <2>1. row[c].st \in Live
    BY QueueAssumption DEF LockedRows
  <2>2. CASE r \in Polls
    <3>1. latest[c] = Version("SENT", "none") \/ latest[c] = Version("EXPIRED", "none")
      BY <2>2 DEF PollLocks
    <3>2. QED  BY <2>1, <3>1 DEF Version
  <2>3. CASE r \in Reports
    <3>1. latest[c] = Verdict(r, c)
      BY <2>3 DEF ReportLocks, AckedVerdict
    <3>2. QED  BY <2>1, <3>1 DEF Verdict, Version, StatusOf
  <2>4. QED  BY <2>1, <2>2, <2>3 DEF Requests
<1>3. QED  BY <1>1, <1>2

LEMMA CommitPollStep ==
  ASSUME QueueInv, NEW p \in Polls, CommitPoll(p)
  PROVE  QueueInv'
<1> USE DEF QueueInv
<1>1. p \in Requests /\ p \notin Reports /\ p # Free
  BY QueueAssumption DEF Requests
<1>2. /\ row' \in [Commands -> Versions] /\ lock' \in [Commands -> Requests \cup {Free}]
      /\ latest' = latest
      /\ \A c \in Commands :
           /\ row[c].st \notin Live => row'[c] = row[c]
           /\ row[c].st # "none" => row'[c].st # "none"
           /\ lock[c] = p => lock'[c] = Free /\ row'[c] = latest[c]
           /\ lock[c] # p => lock'[c] = lock[c] /\ row'[c] = row[c]
  BY <1>1, CommitFacts DEF CommitPoll
<1>3. /\ pc' = [pc EXCEPT ![p] = "reply"]
      /\ UNCHANGED <<clock, created, expires, at, todo, batch, results, pos, acked,
                     received, announced, faults>>
  BY DEF CommitPoll, Goto, pollVars, reportVars
<1>4. TypeOK' /\ StepsOK'
  BY <1>1, <1>2, <1>3 DEF TypeOK, StepsOK
<1>5. /\ pc'[p] = "reply"
      /\ \A r \in Requests \ {p} : pc'[r] = pc[r]
  BY <1>1, <1>3 DEF TypeOK
<1>6. FreeRows' /\ LockedRows' /\ PollLocks' /\ ReportLocks'
  BY <1>1, <1>2, <1>3, <1>5, QueueAssumption
  DEF FreeRows, LockedRows, PollLocks, ReportLocks, Requests
<1>7. PollTodo' /\ BatchHeld' /\ KnownIssued'
  <2>1. \A q \in Polls : todo[q] \subseteq Commands /\ batch[q] \subseteq Commands
    BY DEF TypeOK
  <2>2. PollTodo'
    BY <1>1, <1>2, <1>3, <1>5, <2>1 DEF PollTodo, Requests
  <2>3. BatchHeld'
    BY <1>1, <1>2, <1>3, <1>5, <2>1 DEF BatchHeld, Requests
  <2>4. KnownIssued'
    BY <1>2, <1>3, ResultTypes DEF KnownIssued, TypeOK
  <2>5. QED  BY <2>2, <2>3, <2>4
<1>8. \A r \in Reports : pc'[r] = pc[r]
  BY <1>1, <1>5 DEF Requests
<1>9. AckedVerdict'
  <2>1. ASSUME NEW r \in Reports, NEW c \in acked[r]
        PROVE  /\ lock[c] = r => lock'[c] = r
               /\ pc[r] = "publish" => row'[c] = row[c]
    <3>1. c \in Commands /\ r # p
      BY <1>1 DEF TypeOK
    <3>2. pc[r] = "publish" => row[c].st \in Settled
      BY VersionFacts DEF AckedVerdict, Verdict
    <3>3. QED  BY <1>2, <3>1, <3>2 DEF Settled, Live
  <2>2. QED  BY <1>2, <1>3, <1>8, <2>1 DEF AckedVerdict, Verdict
<1>10. PassedClosed'
  BY <1>2, <1>3, <1>8, ResultTypes DEF PassedClosed
<1>11. AnnouncedIsStored' /\ AnnouncedOnce'
  <2>1. \A e \in announced : e[1] \in Commands /\ row[e[1]].st \in Settled
    BY VersionFacts DEF AnnouncedIsStored, TypeOK
  <2>2. AnnouncedIsStored'
    BY <1>2, <1>3, <2>1 DEF AnnouncedIsStored, Settled, Live
  <2>3. QED  BY <1>3, <2>2 DEF AnnouncedOnce
<1>12. QED  BY <1>4, <1>6, <1>7, <1>9, <1>10, <1>11

LEMMA CommitReportStep ==
  ASSUME QueueInv, NEW r \in Reports, CommitReport(r)
  PROVE  QueueInv'
<1> USE DEF QueueInv
<1>1. r \in Requests /\ r \notin Polls /\ r # Free
  BY QueueAssumption DEF Requests
<1>2. /\ row' \in [Commands -> Versions] /\ lock' \in [Commands -> Requests \cup {Free}]
      /\ latest' = latest
      /\ \A c \in Commands :
           /\ row[c].st \notin Live => row'[c] = row[c]
           /\ row[c].st # "none" => row'[c].st # "none"
           /\ lock[c] = r => lock'[c] = Free /\ row'[c] = latest[c]
           /\ lock[c] # r => lock'[c] = lock[c] /\ row'[c] = row[c]
  BY <1>1, CommitFacts DEF CommitReport
<1>3. /\ pc[r] = "update" /\ pc' = [pc EXCEPT ![r] = "publish"]
      /\ UNCHANGED <<clock, created, expires, at, todo, batch, results, pos, acked,
                     received, announced, faults>>
  BY DEF CommitReport, Goto, pollVars, reportVars
<1>4. TypeOK' /\ StepsOK'
  BY <1>1, <1>2, <1>3 DEF TypeOK, StepsOK
<1>5. /\ pc'[r] = "publish"
      /\ \A s \in Requests \ {r} : pc'[s] = pc[s]
  BY <1>1, <1>3 DEF TypeOK
<1>6. FreeRows' /\ LockedRows' /\ PollLocks' /\ ReportLocks'
  BY <1>1, <1>2, <1>3, <1>5, QueueAssumption
  DEF FreeRows, LockedRows, PollLocks, ReportLocks, Requests
<1>7. PollTodo' /\ BatchHeld' /\ KnownIssued'
  <2>1. \A q \in Polls : /\ todo[q] \subseteq Commands /\ batch[q] \subseteq Commands
                         /\ q # r /\ pc'[q] = pc[q]
    BY <1>1, <1>5 DEF TypeOK, Requests
  <2>2. PollTodo'
    BY <1>2, <1>3, <2>1 DEF PollTodo
  <2>3. BatchHeld'
    BY <1>2, <1>3, <2>1 DEF BatchHeld
  <2>4. KnownIssued'
    BY <1>2, <1>3, ResultTypes DEF KnownIssued, TypeOK
  <2>5. QED  BY <2>2, <2>3, <2>4
<1>8. \A s \in Reports \ {r} : pc'[s] = pc[s]
  BY <1>5 DEF Requests
<1>9. AckedVerdict'
  <2>1. ASSUME NEW s \in Reports \ {r}, NEW c \in acked[s]
        PROVE  /\ lock[c] = s => lock'[c] = s
               /\ pc[s] = "publish" => row'[c] = row[c]
    <3>1. c \in Commands
      BY DEF TypeOK
    <3>2. pc[s] = "publish" => row[c].st \in Settled
      BY VersionFacts DEF AckedVerdict, Verdict
    <3>3. QED  BY <1>2, <3>1, <3>2 DEF Settled, Live
  <2>2. \A c \in acked[r] : row'[c] = Verdict(r, c)
    BY <1>2, <1>3 DEF AckedVerdict, TypeOK
  <2>3. QED  BY <1>2, <1>3, <1>5, <1>8, <2>1, <2>2 DEF AckedVerdict, Verdict
<1>10. PassedClosed'
  BY <1>2, <1>3, <1>5, <1>8, ResultTypes DEF PassedClosed
<1>11. AnnouncedIsStored' /\ AnnouncedOnce'
  <2>1. \A e \in announced : e[1] \in Commands /\ row[e[1]].st \in Settled
    BY VersionFacts DEF AnnouncedIsStored, TypeOK
  <2>2. AnnouncedIsStored'
    BY <1>2, <1>3, <2>1 DEF AnnouncedIsStored, Settled, Live
  <2>3. QED  BY <1>3, <2>2 DEF AnnouncedOnce
<1>12. QED  BY <1>4, <1>6, <1>7, <1>9, <1>10, <1>11

LEMMA BeginReportStep ==
  ASSUME QueueInv, NEW r \in Reports, BeginReport(r)
  PROVE  QueueInv'
<1> USE DEF QueueInv
<1>1. r \in Requests /\ r \notin Polls
  BY QueueAssumption DEF Requests
<1>0. PICK n \in 1..MaxResults :
        \E rs \in [1..n -> [id : received, status : Outcomes]] :
          results' = [results EXCEPT ![r] = rs]
  BY DEF BeginReport
<1>2. PICK rs \in [1..n -> [id : received, status : Outcomes]] :
        results' = [results EXCEPT ![r] = rs]
  BY <1>0
<1>3. rs \in Seq(Results) /\ Len(rs) = n /\ \A i \in 1..n : rs[i].id \in received
  <2>1. n \in Nat /\ rs \in [1..n -> Results]
    BY QueueAssumption DEF TypeOK, Results
  <2>2. rs \in Seq(Results)
    BY <2>1, SeqDef
  <2>3. QED  BY <2>1, <2>2, LenProperties
<1>4. /\ pc[r] = "idle" /\ pc' = [pc EXCEPT ![r] = "update"]
      /\ pos' = [pos EXCEPT ![r] = 1] /\ acked' = [acked EXCEPT ![r] = {}]
      /\ UNCHANGED <<clock, row, latest, lock, created, expires, at, todo, batch,
                     received, announced, faults>>
  BY DEF BeginReport, Goto, tableVars, pollVars
<1>5. TypeOK' /\ StepsOK'
  BY <1>1, <1>2, <1>3, <1>4 DEF TypeOK, StepsOK
<1>6. /\ results'[r] = rs /\ pos'[r] = 1 /\ acked'[r] = {} /\ pc'[r] = "update"
      /\ \A s \in Reports \ {r} : /\ results'[s] = results[s] /\ pos'[s] = pos[s]
                                  /\ acked'[s] = acked[s] /\ pc'[s] = pc[s]
      /\ \A p \in Polls : pc'[p] = pc[p]
  BY <1>1, <1>2, <1>4 DEF TypeOK, Requests
<1>7. FreeRows' /\ LockedRows' /\ PollLocks' /\ PollTodo' /\ BatchHeld'
  BY <1>4, <1>6 DEF FreeRows, LockedRows, PollLocks, PollTodo, BatchHeld
<1>8. KnownIssued'
  BY <1>3, <1>4, <1>6 DEF KnownIssued
<1>9. ReportLocks' /\ AckedVerdict'
  BY <1>4, <1>6 DEF ReportLocks, AckedVerdict, Verdict
<1>10. PassedClosed'
  BY <1>3, <1>4, <1>6 DEF PassedClosed
<1>11. AnnouncedIsStored' /\ AnnouncedOnce'
  BY <1>4, <1>6 DEF AnnouncedIsStored, AnnouncedOnce
<1>12. QED  BY <1>5, <1>7, <1>8, <1>9, <1>10, <1>11

LEMMA AnswerStep ==
  ASSUME QueueInv, NEW r \in Reports, Answer(r)
  PROVE  QueueInv'
<1> USE DEF QueueInv
<1>1. r \in Requests /\ r \notin Polls
  BY QueueAssumption DEF Requests
<1>2. /\ pc[r] = "publish" /\ acked[r] = {} /\ pc' = [pc EXCEPT ![r] = "idle"]
      /\ results' = [results EXCEPT ![r] = <<>>] /\ pos' = [pos EXCEPT ![r] = 1]
      /\ UNCHANGED <<clock, row, latest, lock, created, expires, at, todo, batch,
                     acked, received, announced, faults>>
  BY DEF Answer, Goto, tableVars, pollVars
<1>3. TypeOK' /\ StepsOK'
  BY <1>1, <1>2 DEF TypeOK, StepsOK
<1>4. /\ results'[r] = <<>> /\ pc'[r] = "idle"
      /\ \A s \in Reports \ {r} : /\ results'[s] = results[s] /\ pos'[s] = pos[s]
                                  /\ pc'[s] = pc[s]
      /\ \A p \in Polls : pc'[p] = pc[p]
  BY <1>1, <1>2 DEF TypeOK, Requests
<1>5. FreeRows' /\ LockedRows' /\ PollLocks' /\ PollTodo' /\ BatchHeld'
  BY <1>2, <1>4 DEF FreeRows, LockedRows, PollLocks, PollTodo, BatchHeld
<1>6. KnownIssued' /\ PassedClosed'
  BY <1>2, <1>4 DEF KnownIssued, PassedClosed
<1>7. ReportLocks' /\ AckedVerdict'
  BY <1>2, <1>4 DEF ReportLocks, AckedVerdict, Verdict
<1>8. AnnouncedIsStored' /\ AnnouncedOnce'
  BY <1>2 DEF AnnouncedIsStored, AnnouncedOnce
<1>9. QED  BY <1>3, <1>5, <1>6, <1>7, <1>8

LEMMA PublishStep ==
  ASSUME QueueInv, NEW r \in Reports, Publish(r)
  PROVE  QueueInv'
<1> USE DEF QueueInv
<1>1. PICK k \in acked[r] :
        /\ announced' \in {announced, announced \cup {<<k, Reported(results[r], k)>>}}
        /\ acked' = [acked EXCEPT ![r] = @ \ {k}]
  BY DEF Publish
<1>2. /\ pc[r] = "publish"
      /\ UNCHANGED <<clock, row, latest, lock, created, expires, pc, at, todo, batch,
                     results, pos, received, faults>>
  BY DEF Publish, tableVars, pollVars
<1>3. /\ k \in Commands /\ Reported(results[r], k) \in Outcomes
      /\ row[k] = Verdict(r, k)
  BY <1>2 DEF AckedVerdict, TypeOK
<1>4. TypeOK' /\ StepsOK'
  BY <1>1, <1>2, <1>3 DEF TypeOK, StepsOK
<1>5. /\ acked'[r] = acked[r] \ {k}
      /\ \A s \in Reports \ {r} : acked'[s] = acked[s]
  BY <1>1 DEF TypeOK
<1>6. FreeRows' /\ LockedRows' /\ PollLocks' /\ PollTodo' /\ BatchHeld' /\ KnownIssued'
  BY <1>2 DEF FreeRows, LockedRows, PollLocks, PollTodo, BatchHeld, KnownIssued
<1>7. ReportLocks' /\ AckedVerdict' /\ PassedClosed'
  BY <1>2, <1>5 DEF ReportLocks, AckedVerdict, Verdict, PassedClosed
<1>8. AnnouncedIsStored'
  BY <1>1, <1>2, <1>3 DEF AnnouncedIsStored, Verdict
<1>9. AnnouncedOnce'
  <2> SUFFICES ASSUME NEW s \in Reports, NEW c \in acked'[s]
               PROVE  /\ \A o \in Outcomes : <<c, o>> \notin announced'
                      /\ \A t \in Reports \ {s} : c \notin acked'[t]
    BY DEF AnnouncedOnce
  <2>1. c \in acked[s] /\ c # k
    BY <1>5 DEF AnnouncedOnce
  <2>2. \A o \in Outcomes : <<c, o>> \notin announced'
    BY <1>1, <2>1 DEF AnnouncedOnce
  <2>3. \A t \in Reports \ {s} : c \notin acked'[t]
    BY <1>5, <2>1 DEF AnnouncedOnce
  <2>4. QED  BY <2>2, <2>3
<1>10. QED  BY <1>4, <1>6, <1>7, <1>8, <1>9

(* The loop settles a command at its first result, and only while the row  *)
(* is open and nobody else holds it.                                       *)
LEMMA UpdateStep ==
  ASSUME QueueInv, NEW r \in Reports, UpdateRow(r)
  PROVE  QueueInv'
<1> USE DEF QueueInv
<1> DEFINE i == pos[r]
           k == NextId(r)
           o == results[r][i].status
           open == Seen(r, k).st \in Live
           S == IF open THEN {k} ELSE {}
           v == Version(StatusOf(o), o)
<1>1. r \in Requests /\ r \notin Polls /\ r # Free /\ \A s \in Requests : s # Free
  BY QueueAssumption DEF Requests
<1>2. i \in 1..Len(results[r]) /\ pc[r] = "update"
  <2>1. i >= 1
    BY DEF QueueInv, StepsOK, TypeOK
  <2>2. QED  BY <2>1, ResultTypes DEF UpdateRow, TypeOK
<1>3. k \in Commands /\ o \in Outcomes
  BY <1>2, ResultTypes DEF NextId
<1>4. /\ open => lock[k] \in {r, Free}
      /\ Write(r, S, v)
      /\ acked' = [acked EXCEPT ![r] = @ \cup S]
      /\ pos' = [pos EXCEPT ![r] = i + 1]
      /\ UNCHANGED <<clock, row, created, expires, pc, at, todo, batch, results,
                     received, announced, faults>>
  BY DEF UpdateRow, Available, pollVars
<1> HIDE DEF open, S
<1>5. S \subseteq {k} /\ \A c \in S : row[c].st \in Live /\ lock[c] = Free
  <2>1. CASE open
    <3>1. lock[k] # r
      <4> SUFFICES ASSUME lock[k] = r PROVE FALSE
        OBVIOUS
      <4>1. latest[k] = Verdict(r, k)
        BY <1>2, <1>3 DEF ReportLocks, AckedVerdict
      <4>2. Seen(r, k).st \in Settled
        BY <4>1 DEF Seen, Verdict, Version, StatusOf, Settled
      <4>3. QED  BY <2>1, <4>2 DEF open, Settled, Live
    <3>2. QED  BY <1>3, <1>4, <2>1, <3>1 DEF open, S, Seen
  <2>2. QED  BY <2>1 DEF S
<1>6. v \in Versions
  BY <1>3, VersionFacts
<1>7. /\ lock' \in [Commands -> Requests \cup {Free}]
      /\ latest' \in [Commands -> Versions]
      /\ \A c \in S : c = k /\ lock'[c] = r /\ latest'[c] = v
      /\ \A c \in Commands \ S : lock'[c] = lock[c] /\ latest'[c] = latest[c]
  <2>1. S \in SUBSET Commands /\ \A c \in S : c = k
    BY <1>3, <1>5
  <2> HIDE DEF v, k
  <2>2. QED  BY <1>1, <1>4, <1>6, <2>1, WriteFacts
<1>8. /\ acked'[r] = acked[r] \cup S /\ pos'[r] = i + 1
      /\ \A s \in Reports \ {r} : acked'[s] = acked[s] /\ pos'[s] = pos[s]
  BY <1>4 DEF TypeOK
<1>9. TypeOK' /\ StepsOK'
  BY <1>2, <1>3, <1>4, <1>5, <1>7 DEF TypeOK, StepsOK
<1>10. FreeRows' /\ LockedRows' /\ PollLocks' /\ ReportLocks'
  <2>1. FreeRows' /\ LockedRows'
    BY <1>1, <1>4, <1>5, <1>7 DEF FreeRows, LockedRows
  <2>2. PollLocks'
    BY <1>1, <1>4, <1>5, <1>7 DEF PollLocks
  <2>3. ReportLocks'
    BY <1>2, <1>4, <1>5, <1>7, <1>8 DEF ReportLocks
  <2>4. QED  BY <2>1, <2>2, <2>3
<1>11. PollTodo' /\ BatchHeld' /\ KnownIssued'
  <2>1. PollTodo' /\ KnownIssued'
    BY <1>4 DEF PollTodo, KnownIssued
  <2>2. \A p \in Polls : p # Free /\ batch[p] \subseteq Commands
    BY <1>1 DEF TypeOK, Requests
  <2>3. BatchHeld'
    BY <1>4, <1>5, <1>7, <2>2 DEF BatchHeld
  <2>4. QED  BY <2>1, <2>3
<1>12. \A s \in Reports : \A c \in acked[s] : c \in Commands \ S
  <2> SUFFICES ASSUME NEW s \in Reports, NEW c \in acked[s], c \in S PROVE FALSE
    BY DEF TypeOK
  <2>1. row[c].st \in Live /\ lock[c] = Free /\ s # Free
    BY <1>1, <1>5 DEF Requests
  <2>2. pc[s] = "publish"
    BY <2>1 DEF AckedVerdict, StepsOK
  <2>3. row[c].st \in Settled
    <3>1. row[c] = Verdict(s, c)
      BY <2>2 DEF AckedVerdict
    <3>2. QED  BY <3>1 DEF Verdict, Version, StatusOf, Settled
  <2>4. QED  BY <2>1, <2>3 DEF Settled, Live
<1>13. AckedVerdict'
  <2>1. ASSUME NEW c \in S
        PROVE  Reported(results[r], c) = o
    <3>1. c = k /\ row[k].st \in Live /\ results[r][i].id = k
      BY <1>5 DEF NextId
    <3>2. \A j \in 1..(i - 1) : results[r][j].id # results[r][i].id
      <4> SUFFICES ASSUME NEW j \in 1..(i - 1), results[r][j].id = k PROVE FALSE
        BY <3>1
      <4>1. j \in 1..Len(results[r]) /\ j < pos[r]
        BY <1>2, ResultTypes
      <4>2. k \in acked[r]
        BY <1>2, <3>1, <4>1 DEF PassedClosed
      <4>3. QED  BY <1>12, <3>1, <4>2
    <3>3. results[r] \in Seq(Results)
      BY DEF TypeOK
    <3>4. QED  BY <1>2, <3>1, <3>2, <3>3, FirstReported
  <2>2. ASSUME NEW c \in S
        PROVE  latest'[c] = Verdict(r, c)'
    BY <1>4, <1>7, <2>1 DEF Verdict
  <2>3. \A s \in Reports : \A c \in acked[s] :
          lock'[c] = lock[c] /\ latest'[c] = latest[c] /\ Verdict(s, c)' = Verdict(s, c)
    BY <1>4, <1>7, <1>12 DEF Verdict
  <2> DEFINE Good(s, c) == /\ Reported(results[s], c) \in Outcomes
                           /\ pc[s] # "idle"
                           /\ pc[s] = "update" => lock'[c] = s /\ latest'[c] = Verdict(s, c)'
                           /\ pc[s] = "publish" => row[c] = Verdict(s, c)'
  <2>4. \A s \in Reports : \A c \in acked[s] : Good(s, c)
    BY <2>3 DEF AckedVerdict
  <2>5. \A c \in S : Good(r, c)
    BY <1>2, <1>3, <1>7, <2>1, <2>2
  <2>6. \A s \in Reports : \A c \in acked'[s] : Good(s, c)
    <3> HIDE DEF Good
    <3> QED  BY <1>8, <2>4, <2>5
  <2>7. QED  BY <1>4, <2>6 DEF AckedVerdict
<1>14. PassedClosed'
  <2> SUFFICES ASSUME NEW s \in Reports, pc[s] = "update",
                      NEW j \in 1..Len(results[s]), j < pos'[s]
               PROVE  results[s][j].id \in acked'[s] \/ row[results[s][j].id].st \notin Live
    BY <1>4 DEF PassedClosed
  <2>1. acked[s] \subseteq acked'[s]
    BY <1>8
  <2>2. CASE j < pos[s]
    BY <2>1, <2>2 DEF PassedClosed
  <2>3. CASE s = r /\ j = i
    <3>1. CASE open
      BY <1>8, <2>3, <3>1 DEF S, NextId
    <3>2. CASE ~open /\ lock[k] = r
      <4>1. k \in acked[r]
        BY <1>3, <3>2 DEF ReportLocks
      <4>2. QED  BY <2>1, <2>3, <4>1 DEF NextId
    <3>3. CASE ~open /\ lock[k] # r
      BY <2>3, <3>3 DEF open, Seen, NextId
    <3>4. QED  BY <3>1, <3>2, <3>3
  <2>4. QED
    BY <1>2, <1>8, <2>2, <2>3, ResultTypes DEF TypeOK
<1>15. AnnouncedIsStored' /\ AnnouncedOnce'
  <2>1. \A c \in S : \A x \in Outcomes : <<c, x>> \notin announced
    <3> SUFFICES ASSUME NEW c \in S, NEW x \in Outcomes, <<c, x>> \in announced
                 PROVE  FALSE
      OBVIOUS
    <3>1. row[c] = Version(StatusOf(x), x)
      BY DEF AnnouncedIsStored
    <3>2. row[c].st \in Settled
      BY <3>1 DEF Version, StatusOf, Settled
    <3>3. QED  BY <1>5, <3>2 DEF Settled, Live
  <2>2. AnnouncedOnce'
    BY <1>4, <1>8, <1>12, <2>1 DEF AnnouncedOnce
  <2>3. QED  BY <1>4, <2>2 DEF AnnouncedIsStored
<1>16. QED  BY <1>9, <1>10, <1>11, <1>13, <1>14, <1>15

LEMMA RollbackStep ==
  ASSUME QueueInv, NEW r \in Requests, Rollback(r), faults' \in 0..MaxFaults
  PROVE  QueueInv'
<1> USE DEF QueueInv
<1>1. /\ \A s \in Requests : s # Free
      /\ \A p \in Polls : p \in Requests /\ p \notin Reports
      /\ \A s \in Reports : s \in Requests
  BY QueueAssumption DEF Requests
<1>2. /\ lock' = [c \in Commands |-> IF lock[c] = r THEN Free ELSE lock[c]]
      /\ latest' = [c \in Commands |-> IF lock[c] = r THEN row[c] ELSE latest[c]]
      /\ pc' = [pc EXCEPT ![r] = "idle"]
      /\ todo' = [p \in Polls |-> IF p = r THEN {} ELSE todo[p]]
      /\ batch' = [p \in Polls |-> IF p = r THEN {} ELSE batch[p]]
      /\ results' = [s \in Reports |-> IF s = r THEN <<>> ELSE results[s]]
      /\ pos' = [s \in Reports |-> IF s = r THEN 1 ELSE pos[s]]
      /\ acked' = [s \in Reports |-> IF s = r THEN {} ELSE acked[s]]
      /\ UNCHANGED <<clock, row, created, expires, at, received, announced>>
  BY DEF Rollback, Unlock, Goto
<1>3. /\ lock' \in [Commands -> Requests \cup {Free}] /\ latest' \in [Commands -> Versions]
      /\ results' \in [Reports -> Seq(Results)]
  BY <1>2 DEF TypeOK
<1>4. TypeOK' /\ StepsOK'
  BY <1>2, <1>3 DEF TypeOK, StepsOK
<1>5. /\ \A c \in Commands : lock[c] = r => lock'[c] = Free /\ latest'[c] = row[c]
      /\ \A c \in Commands : lock[c] # r => lock'[c] = lock[c] /\ latest'[c] = latest[c]
      /\ pc'[r] = "idle"
      /\ \A s \in Requests \ {r} : pc'[s] = pc[s]
      /\ \A p \in Polls \ {r} : todo'[p] = todo[p] /\ batch'[p] = batch[p]
      /\ \A s \in Reports \ {r} :
           results'[s] = results[s] /\ pos'[s] = pos[s] /\ acked'[s] = acked[s]
      /\ r \in Polls => batch'[r] = {} /\ todo'[r] = {}
      /\ r \in Reports => acked'[r] = {} /\ results'[r] = <<>>
  BY <1>2 DEF TypeOK
<1>6. FreeRows' /\ LockedRows' /\ PollLocks' /\ ReportLocks'
  <2>1. FreeRows' /\ LockedRows'
    BY <1>2, <1>5 DEF FreeRows, LockedRows
  <2>2. PollLocks'
    BY <1>1, <1>2, <1>5 DEF PollLocks
  <2>3. ReportLocks'
    BY <1>1, <1>2, <1>5 DEF ReportLocks
  <2>4. QED  BY <2>1, <2>2, <2>3
<1>7. PollTodo' /\ BatchHeld' /\ KnownIssued'
  <2>1. PollTodo'
    BY <1>1, <1>2, <1>5 DEF PollTodo
  <2>2. BatchHeld'
    BY <1>1, <1>2, <1>5 DEF BatchHeld, TypeOK
  <2>3. KnownIssued'
    BY <1>2, <1>5 DEF KnownIssued
  <2>4. QED  BY <2>1, <2>2, <2>3
<1>8. AckedVerdict' /\ PassedClosed'
  <2>1. AckedVerdict'
    BY <1>1, <1>2, <1>5 DEF AckedVerdict, Verdict, TypeOK
  <2>2. PassedClosed'
    BY <1>1, <1>2, <1>5 DEF PassedClosed
  <2>3. QED  BY <2>1, <2>2
<1>9. AnnouncedIsStored' /\ AnnouncedOnce'
  BY <1>2, <1>5 DEF AnnouncedIsStored, AnnouncedOnce
<1>10. QED  BY <1>4, <1>6, <1>7, <1>8, <1>9

LEMMA QueueInvStep == QueueInv /\ [Next]_vars => QueueInv'
<1> SUFFICES ASSUME QueueInv, [Next]_vars PROVE QueueInv'
  OBVIOUS
<1>1. CASE UNCHANGED vars
  BY <1>1 DEF vars, QueueInv, TypeOK, StepsOK, FreeRows, LockedRows, PollLocks,
     PollTodo, BatchHeld, KnownIssued, ReportLocks, AckedVerdict, Verdict, PassedClosed,
     AnnouncedIsStored, AnnouncedOnce
<1>2. CASE Tick \/ \E c \in Commands : Issue(c)
  BY <1>2, QuietStep, IssueStep
<1>3. ASSUME NEW p \in Polls, BeginPoll(p) \/ PollStep(p)
      PROVE  QueueInv'
  BY <1>3, QuietStep, ExpireStep, ClaimStep, CommitPollStep DEF PollStep
<1>4. ASSUME NEW r \in Reports, BeginReport(r) \/ ReportStep(r)
      PROVE  QueueInv'
  BY <1>4, BeginReportStep, UpdateStep, CommitReportStep, PublishStep, AnswerStep
     DEF ReportStep
<1>5. ASSUME NEW r \in Requests, Fail(r) \/ BreakDeadlock(r)
      PROVE  QueueInv'
  <2>1. Rollback(r)
    BY <1>5 DEF Fail, BreakDeadlock
  <2>2. faults' \in 0..MaxFaults
    BY <1>5, QueueAssumption DEF Fail, BreakDeadlock, QueueInv, TypeOK
  <2>3. QED  BY <2>1, <2>2, RollbackStep
<1>6. QED
  BY <1>1, <1>2, <1>3, <1>4, <1>5 DEF Next
------------------------------------------------------------------------------
(* Every reachable state is well typed.                                    *)
THEOREM QueueTypeCorrect == Spec => []TypeOK
  BY QueueInvInit, QueueInvStep, PTL DEF Spec, QueueInv

(* A claimed command stays open, and the poll's own, until the poll        *)
(* commits.                                                                *)
THEOREM ClaimsHold == Spec => []ClaimHolds
<1>1. QueueInv => ClaimHolds
  <2> SUFFICES ASSUME QueueInv, NEW p \in Polls, pc[p] = "commit", NEW c \in batch[p]
               PROVE  /\ row[c].st \in Live
                      /\ \A q \in Polls \ {p} : pc[q] = "commit" => c \notin batch[q]
    BY DEF ClaimHolds
  <2>1. c \in Commands /\ lock[c] = p /\ p # Free
    BY QueueAssumption DEF QueueInv, BatchHeld, TypeOK, Requests
  <2>2. row[c].st \in Live
    BY <2>1 DEF QueueInv, LockedRows
  <2>3. \A q \in Polls \ {p} : pc[q] = "commit" => c \notin batch[q]
    BY <2>1 DEF QueueInv, BatchHeld
  <2>4. QED  BY <2>2, <2>3
<1>2. QED
  BY <1>1, QueueInvInit, QueueInvStep, PTL DEF Spec

(* The dashboard hears the stored outcome.                                 *)
THEOREM TruthfulEvents == Spec => []AnnouncedIsStored
  BY QueueInvInit, QueueInvStep, PTL DEF Spec, QueueInv

(* And hears it once.                                                      *)
THEOREM SingleEvents == Spec => []AnnouncedOnce
  BY QueueInvInit, QueueInvStep, PTL DEF Spec, QueueInv

------------------------------------------------------------------------------
(* Refinement: COMMIT is the step that shows, everything else stutters.    *)

LEMMA CommitPollRefines ==
  ASSUME QueueInv, NEW p \in Polls, CommitPoll(p)
  PROVE  Lifecycle!Poll
<1>1. p \in Requests /\ p # Free
  BY QueueAssumption DEF Requests
<1>2. /\ row' \in [Commands -> Versions]
      /\ \A c \in Commands : /\ lock[c] = p => row'[c] = latest[c]
                             /\ lock[c] # p => row'[c] = row[c]
  BY <1>1, CommitFacts DEF CommitPoll
<1>3. ASSUME NEW c \in Commands, lock[c] = p
      PROVE  /\ row[c].st \in Live
             /\ \/ row'[c] = Version("SENT", "none")
                \/ expires[c] <= clock /\ row'[c] = Version("EXPIRED", "none")
  <2>1. expires[c] \in Nat /\ at[p] \in Nat /\ clock \in Nat
    BY QueueAssumption DEF QueueInv, TypeOK
  <2>2. row[c].st \in Live
    BY <1>1, <1>3 DEF QueueInv, LockedRows
  <2>3. \/ latest[c] = Version("SENT", "none")
        \/ latest[c] = Version("EXPIRED", "none") /\ expires[c] <= at[p]
    BY <1>3 DEF QueueInv, PollLocks
  <2>4. at[p] <= clock
    BY DEF QueueInv, PollTodo
  <2>5. row'[c] = latest[c]
    BY <1>2, <1>3
  <2>6. latest[c] = Version("EXPIRED", "none") /\ expires[c] <= at[p] => expires[c] <= clock
    BY <2>1, <2>4
  <2>7. QED  BY <2>2, <2>3, <2>5, <2>6
<1>4. \A c \in Commands :
        \/ row'[c] = row[c]
        \/ /\ row[c].st \in Lifecycle!Live
           /\ \/ row'[c] = Lifecycle!Version("SENT", "none")
              \/ expires[c] <= clock /\ row'[c] = Lifecycle!Version("EXPIRED", "none")
  BY <1>2, <1>3 DEF Lifecycle!Live, Lifecycle!Version, Live, Version
<1>5. row' = [c \in Commands |-> row'[c]]
  BY <1>2
<1>6. UNCHANGED <<expires, clock, announced>>
  BY DEF CommitPoll
<1>7. QED  BY <1>4, <1>5, <1>6 DEF Lifecycle!Poll

LEMMA CommitReportRefines ==
  ASSUME QueueInv, NEW r \in Reports, CommitReport(r)
  PROVE  Lifecycle!Settle
<1>1. r \in Requests /\ r # Free
  BY QueueAssumption DEF Requests
<1>2. /\ row' \in [Commands -> Versions]
      /\ \A c \in Commands : /\ lock[c] = r => row'[c] = latest[c]
                             /\ lock[c] # r => row'[c] = row[c]
  BY <1>1, CommitFacts DEF CommitReport
<1>3. ASSUME NEW c \in Commands, lock[c] = r
      PROVE  /\ row[c].st \in Live
             /\ \E o \in Outcomes : row'[c] = Version(StatusOf(o), o)
  <2>1. row[c].st \in Live
    BY <1>1, <1>3 DEF QueueInv, LockedRows
  <2>2. Reported(results[r], c) \in Outcomes /\ latest[c] = Verdict(r, c)
    BY <1>3 DEF QueueInv, ReportLocks, AckedVerdict
  <2>3. row'[c] = latest[c]
    BY <1>2, <1>3
  <2>4. \E o \in Outcomes : latest[c] = Version(StatusOf(o), o)
    BY <2>2 DEF Verdict
  <2>5. QED  BY <2>1, <2>3, <2>4
<1>4. \A c \in Commands :
        \/ row'[c] = row[c]
        \/ /\ row[c].st \in Lifecycle!Live
           /\ \E o \in Outcomes :
                row'[c] = Lifecycle!Version([x \in Outcomes |-> StatusOf(x)][o], o)
  BY <1>2, <1>3 DEF Lifecycle!Live, Lifecycle!Version, Live, Version
<1>5. row' = [c \in Commands |-> row'[c]]
  BY <1>2
<1>6. UNCHANGED <<expires, clock, announced>>
  BY DEF CommitReport
<1>7. QED  BY <1>4, <1>5, <1>6 DEF Lifecycle!Settle

LEMMA PublishRefines ==
  ASSUME QueueInv, NEW r \in Reports, Publish(r)
  PROVE  Lifecycle!Next \/ UNCHANGED Lifecycle!vars
<1>1. PICK k \in acked[r] :
        announced' \in {announced, announced \cup {<<k, Reported(results[r], k)>>}}
  BY DEF Publish
<1>2. UNCHANGED <<row, expires, clock>> /\ pc[r] = "publish"
  BY DEF Publish, tableVars
<1>3. k \in Commands /\ Reported(results[r], k) \in Outcomes /\ row[k] = Verdict(r, k)
  BY <1>2 DEF QueueInv, AckedVerdict, TypeOK
<1>4. row[k].res = Reported(results[r], k)
  BY <1>3 DEF Verdict, Version
<1>5. \A o \in Outcomes : <<k, o>> \notin announced
  BY DEF QueueInv, AnnouncedOnce
<1>6. CASE announced' = announced
  BY <1>2, <1>6 DEF Lifecycle!vars
<1>7. CASE announced' = announced \cup {<<k, Reported(results[r], k)>>}
  <2>1. Lifecycle!Announce(k)
    BY <1>2, <1>3, <1>4, <1>5, <1>7 DEF Lifecycle!Announce
  <2>2. QED  BY <1>3, <2>1 DEF Lifecycle!Next
<1>8. QED  BY <1>1, <1>6, <1>7

(* Every execution of the queue is one of CommandLifecycle.                *)
THEOREM Implements == Spec => ImplementsLifecycle
<1>1. Init => Lifecycle!Init
  BY DEF Init, Lifecycle!Init, Version, Lifecycle!Version
<1>2. QueueInv /\ [Next]_vars => [Lifecycle!Next]_(Lifecycle!vars)
  <2> SUFFICES ASSUME QueueInv, [Next]_vars
               PROVE  Lifecycle!Next \/ UNCHANGED Lifecycle!vars
    OBVIOUS
  <2>1. CASE UNCHANGED vars
    BY <2>1 DEF vars, Lifecycle!vars
  <2>2. CASE Tick
    BY <2>2 DEF Tick, tableVars, Lifecycle!Next, Lifecycle!Tick
  <2>3. ASSUME NEW c \in Commands, Issue(c)
        PROVE  Lifecycle!Next
    <3>1. PICK t \in 0..clock, ttl \in Ttls :
            t + ttl <= MaxClock /\ expires' = [expires EXCEPT ![c] = t + ttl]
      BY <2>3 DEF Issue
    <3>2. t + ttl \in 1..MaxClock
      BY <3>1, QueueAssumption DEF QueueInv, TypeOK
    <3>3. Lifecycle!Issue(c)
      BY <2>3, <3>1, <3>2 DEF Issue, Lifecycle!Issue, Version, Lifecycle!Version
    <3>4. QED  BY <3>3 DEF Lifecycle!Next
  <2>4. ASSUME NEW p \in Polls, BeginPoll(p) \/ PollStep(p)
        PROVE  Lifecycle!Next \/ UNCHANGED Lifecycle!vars
    <3>1. CASE CommitPoll(p)
      BY <3>1, CommitPollRefines DEF Lifecycle!Next
    <3>2. CASE ~CommitPoll(p)
      BY <2>4, <3>2 DEF BeginPoll, PollStep, ExpireRow, Claim, Reply, tableVars,
                        Lifecycle!vars
    <3>3. QED  BY <3>1, <3>2
  <2>5. ASSUME NEW r \in Reports, BeginReport(r) \/ ReportStep(r)
        PROVE  Lifecycle!Next \/ UNCHANGED Lifecycle!vars
    <3>1. CASE CommitReport(r)
      BY <3>1, CommitReportRefines DEF Lifecycle!Next
    <3>2. CASE Publish(r)
      BY <3>2, PublishRefines
    <3>3. CASE BeginReport(r) \/ UpdateRow(r) \/ Answer(r)
      BY <3>3 DEF BeginReport, UpdateRow, Answer, tableVars, Lifecycle!vars
    <3>4. QED  BY <2>5, <3>1, <3>2, <3>3 DEF ReportStep
  <2>6. ASSUME NEW r \in Requests, Fail(r) \/ BreakDeadlock(r)
        PROVE  UNCHANGED Lifecycle!vars
    BY <2>6 DEF Fail, BreakDeadlock, Rollback, Lifecycle!vars
  <2>7. QED
    BY <2>1, <2>2, <2>3, <2>4, <2>5, <2>6 DEF Next
<1>3. QED
  BY <1>1, <1>2, QueueInvInit, QueueInvStep, PTL
  DEF Spec, ImplementsLifecycle, Lifecycle!Spec
==============================================================================

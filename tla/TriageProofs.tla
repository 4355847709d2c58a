---------------------------- MODULE TriageProofs ----------------------------
(***************************************************************************)
(* Proofs about Triage.  The inductive invariant says what a request knows *)
(* of the thing it decides on and, for things whose decisions never        *)
(* overlapped, that the request is alone with it and its now() is later    *)
(* than that of every status event.                                        *)
(***************************************************************************)
EXTENDS Triage, FiniteSetTheorems, TLAPS

(* What a request knows, for each step.                                    *)
Sound(q) ==
  LET x == req[q].on IN
  /\ req[q].pc = "idle" => x = NoThing
  /\ req[q].pc # "idle" => x \in Things
  /\ req[q].pc = "attach" =>
       /\ x \in Incidents /\ state[x] = "none"
       /\ req[q].to = "OPEN" /\ req[q].says = "OPEN"
       /\ \A p \in Requests \ {q} : req[p].on # x
  /\ req[q].pc = "write" =>
       state[x] # "none" /\ req[q].to \in Choices(x) /\ req[q].says \in {req[q].to, "same"}
  /\ req[q].pc = "audit" =>
       state[x] # "none" /\ req[q].says \in Statuses(x) \cup {"same"}
  /\ req[q].pc \in {"write", "audit"} /\ x \in Signatures => req[q].says # "same"
  /\ req[q].pc \in {"attach", "write"} => req[q].at # 0 /\ req[q].at <= clock

RequestsSound == \A q \in Requests : Sound(q)

(* An incident that does not exist has no alert, and no event is later     *)
(* than the clock.                                                         *)
NoneBare   == \A i \in Incidents : state[i] = "none" => Attached(i) = {}
EventsPast == \A i \in Incidents : event[i].at <= clock

Changing(q, x) == req[q].on = x /\ req[q].pc \in {"attach", "write"}
Auditing(q, x) == req[q].on = x /\ req[q].pc = "audit"

(* An incident whose transactions never overlapped.                        *)
Orderly(i) ==
  /\ event[i].to = state[i]
  /\ \A q \in Requests : Changing(q, i) =>
       /\ event[i].at <= req[q].at
       /\ \A p \in Requests \ {q} : ~Changing(p, i)

Ordered == \A i \in Incidents : <<"overlap", i>> \notin upset => Orderly(i)

(* A thing whose decisions met neither one another nor a late entry.       *)
Traced(x) ==
  /\ \A p, q \in Requests : req[p].on = x /\ req[q].on = x => p = q
  /\ \A q \in Requests : Auditing(q, x) =>
       req[q].says = state[x] \/ (req[q].says = "same" /\ Told(x) = state[x])
  /\ (\A q \in Requests : ~Auditing(q, x)) => Told(x) = state[x]

Trailed ==
  \A x \in Things :
    <<"overlap", x>> \notin upset /\ <<"loose", x>> \notin upset => Traced(x)

TriageInv ==
  /\ TypeOK /\ RequestsSound /\ NoneBare /\ EventsPast
  /\ CountsAttached /\ Ordered /\ Trailed

------------------------------------------------------------------------------
(* Statuses and requests.                                                  *)

LEMMA Classes ==
  /\ Incidents \subseteq Things /\ Signatures \subseteq Things
  /\ Rules \subseteq Things /\ Servers \subseteq Things
  /\ \A i \in Incidents : i \notin Signatures \cup Rules \cup Servers
  /\ \A s \in Signatures : s \notin Rules \cup Servers
  /\ \A u \in Rules : u \notin Servers
  BY TriageAssumption DEF Things

LEMMA ChoiceTypes ==
  /\ \A x \in Things : Choices(x) \subseteq Words /\ "none" \notin Choices(x)
  /\ \A x \in Things : First(x) \in Statuses(x) /\ First(x) \notin {"none", "same"}
  /\ \A x \in Incidents \cup Signatures \cup Rules : First(x) \in Words
  /\ \A i \in Incidents : First(i) = "OPEN"
  /\ \A s \in Signatures : "same" \notin Choices(s)
<1>1. \A x \in Things : Choices(x) \subseteq Words /\ "none" \notin Choices(x)
  BY Classes DEF Choices, Final, Words, Modes
<1>2. \A x \in Things : First(x) \notin {"none", "same"}
  BY DEF First, DefaultMode
<1>3. \A x \in Incidents \cup Signatures \cup Rules : First(x) \in {"OPEN", "pending", "ACTIVE"}
  BY Classes DEF First
<1>4. \A i \in Incidents : First(i) = "OPEN"
  BY Classes DEF First
<1>5. \A s \in Signatures : "same" \notin Choices(s)
  BY Classes DEF Choices
<1>6. QED  BY <1>1, <1>2, <1>3, <1>4, <1>5 DEF Statuses, Words

(* A status kept is told by the same entries.                              *)
LEMMA ToldKept ==
  ASSUME NEW x, state'[x] = state[x], UNCHANGED <<audited, vendorLog>>
  PROVE  Told(x)' = Told(x)
  BY DEF Told, ByVendor

LEMMA IdleFacts == Idle \in Request /\ Idle.pc = "idle" /\ Idle.on = NoThing
  BY TriageAssumption DEF Idle, Request, Words

(* A transaction that begins.                                              *)
LEMMA BeginFacts ==
  ASSUME TypeOK, RequestsSound, NEW q \in Requests, NEW x \in Things,
         NEW step \in {"attach", "write", "audit"}, NEW to \in Words, NEW says \in Words,
         NEW asked \in SUBSET (Rows \cup {NoRow}), Begin(q, x, step, to, says, asked)
  PROVE  /\ req[q].pc = "idle" /\ req[q].on = NoThing
         /\ clock' = clock + 1 /\ clock' \in 0 .. MaxClock /\ clock' # 0
         /\ req' \in [Requests -> Request]
         /\ req'[q].pc = step /\ req'[q].on = x /\ req'[q].to = to
         /\ req'[q].says = says /\ req'[q].at = clock'
         /\ \A p \in Requests \ {q} : req'[p] = req[p]
         /\ upset \subseteq upset' /\ upset' \subseteq Records
         /\ \A p \in Requests : req[p].on = x =>
              <<IF req[p].pc = "audit" THEN "loose" ELSE "overlap", x>> \in upset'
<1> DEFINE new == [pc |-> step, on |-> x, to |-> to, says |-> says, at |-> clock',
                   asked |-> asked]
<1>1. clock \in 0 .. MaxClock /\ clock < MaxClock /\ clock' = clock + 1
  BY DEF TypeOK, Begin
<1>2. clock' \in 0 .. MaxClock /\ clock' # 0
  BY <1>1, TriageAssumption
<1>3. new \in Request
  BY <1>2 DEF Request
<1>4. req' = [req EXCEPT ![q] = new]
  BY DEF Begin
<1>5. upset' = upset \cup {<<IF req[p].pc = "audit" THEN "loose" ELSE "overlap", x>> :
                             p \in {p \in Requests : req[p].on = x}}
  BY DEF Begin
<1>6. upset' \subseteq Records
  BY <1>5 DEF TypeOK, Records
<1>7. req[q].pc = "idle" /\ req[q].on = NoThing
  BY DEF Begin, RequestsSound, Sound
<1>8. req' \in [Requests -> Request] /\ req'[q] = new
      /\ \A p \in Requests \ {q} : req'[p] = req[p]
  BY <1>3, <1>4 DEF TypeOK
<1>9. QED
  BY <1>1, <1>2, <1>5, <1>6, <1>7, <1>8

(* One that has committed, and one that has ended.                         *)
LEMMA CommittedFacts ==
  ASSUME TypeOK, RequestsSound, NEW q \in Requests, Committed(q)
  PROVE  /\ req' \in [Requests -> Request]
         /\ req'[q].pc = "audit" /\ req'[q].on = req[q].on /\ req'[q].says = req[q].says
         /\ \A p \in Requests \ {q} : req'[p] = req[p]
<1> DEFINE new == [Idle EXCEPT !.pc = "audit", !.on = req[q].on, !.says = req[q].says]
<1>1. req[q] \in Request
  BY DEF TypeOK
<1>2. new \in Request /\ new.pc = "audit" /\ new.on = req[q].on /\ new.says = req[q].says
  BY <1>1, IdleFacts DEF Request
<1>3. req' = [req EXCEPT ![q] = new]
  BY DEF Committed
<1>4. QED
  BY <1>2, <1>3 DEF TypeOK

LEMMA EndFacts ==
  ASSUME TypeOK, NEW q \in Requests, req' = [req EXCEPT ![q] = Idle]
  PROVE  /\ req' \in [Requests -> Request] /\ req'[q].pc = "idle" /\ req'[q].on = NoThing
         /\ \A p \in Requests \ {q} : req'[p] = req[p]
  BY IdleFacts DEF TypeOK

LEMMA ReleaseType ==
  ASSUME TypeOK, NEW q \in Requests,
         lock' = [r \in Rows |-> IF r \in Held(q) THEN Free ELSE lock[r]]
  PROVE  lock' \in [Rows -> Requests \cup {Free}]
  BY DEF TypeOK

------------------------------------------------------------------------------
(* The initial state.                                                      *)

LEMMA InvInit == Init => TriageInv
<1> SUFFICES ASSUME Init PROVE TriageInv
  OBVIOUS
<1>1. req \in [Requests -> Request]
      /\ \A q \in Requests : req[q].pc = "idle" /\ req[q].on = NoThing
  BY IdleFacts DEF Init
<1>2. \A x \in Things : state[x] \in Statuses(x) /\ (x \notin Servers => state[x] = "none")
  BY ChoiceTypes DEF Init, Statuses
<1>3. \A i \in Incidents : state[i] = "none" /\ resolved[i] = 0 /\ count[i] = 0
                           /\ event[i] = [at |-> 0, to |-> "none"]
  BY <1>2, Classes DEF Init
<1>4. \A i \in Incidents : Attached(i) = {}
  BY TriageAssumption DEF Init, Attached
<1>5. TypeOK
  <2>1. row \in [Rows -> [alert : Alerts \cup {NoAlert}, inc : Incidents \cup {NoIncident}]]
    BY DEF Init
  <2>2. resolved \in [Incidents -> 0 .. MaxClock] /\ count \in [Incidents -> Nat]
        /\ event \in [Incidents -> [at : 0 .. MaxClock, to : Words]] /\ clock \in 0 .. MaxClock
    BY TriageAssumption DEF Init, Words
  <2>3. \A i \in Incidents : state[i] \in Final <=> resolved[i] # 0
    BY <1>3 DEF Final
  <2>4. /\ DOMAIN state = Things /\ DOMAIN audited = Things
        /\ \A x \in Things : audited[x] \in Statuses(x)
        /\ DOMAIN vendorLog = Signatures /\ \A x \in Signatures : vendorLog[x] \in Statuses(x)
    BY <1>2, Classes DEF Init, Statuses
  <2>5. QED  BY <1>1, <1>2, <2>1, <2>2, <2>3, <2>4 DEF Init, TypeOK
<1>6. CountsAttached
  BY <1>3, <1>4, FS_EmptySet DEF CountsAttached
<1>7. RequestsSound
  BY <1>1 DEF RequestsSound, Sound
<1>8. NoneBare /\ EventsPast
  BY <1>3, <1>4 DEF NoneBare, EventsPast, Init
<1>9. Ordered
  BY <1>1, <1>3 DEF Ordered, Orderly, Changing
<1>10. Trailed
  <2>1. \A x \in Things : Told(x) = state[x]
    BY <1>2, Classes DEF Told, ByVendor, Init
  <2>2. QED  BY <1>1, <2>1, TriageAssumption DEF Trailed, Traced, Auditing
<1>11. QED
  BY <1>5, <1>6, <1>7, <1>8, <1>9, <1>10 DEF TriageInv

------------------------------------------------------------------------------
(* Alerts: Ingest, Triage, Attach.                                         *)

(* What only moves alerts leaves what requests and things rely on.         *)
LEMMA AlertFrame ==
  ASSUME TriageInv, UNCHANGED <<state, incidentVars, audited, vendorLog, clock, req>>,
         upset \subseteq upset', upset' \subseteq Records,
         row' \in [Rows -> [alert : Alerts \cup {NoAlert}, inc : Incidents \cup {NoIncident}]],
         lock' \in [Rows -> Requests \cup {Free}]
  PROVE  /\ TypeOK' /\ RequestsSound' /\ EventsPast' /\ Ordered' /\ Trailed'
<1>1. TypeOK'
  BY DEF TriageInv, TypeOK, incidentVars
<1>2. RequestsSound' /\ EventsPast'
  BY DEF TriageInv, RequestsSound, Sound, EventsPast, incidentVars
<1>3. Ordered'
  BY DEF TriageInv, Ordered, Orderly, Changing, incidentVars
<1>4. Trailed'
  <2>1. \A x \in Things : Told(x)' = Told(x)
    BY ToldKept
  <2>2. QED  BY <2>1 DEF TriageInv, Trailed, Traced, Auditing, incidentVars
<1>5. QED
  BY <1>1, <1>2, <1>3, <1>4

LEMMA IngestKeeps ==
  ASSUME TriageInv, NEW a \in Alerts, NEW r \in Rows, Ingest(a, r)
  PROVE  TriageInv'
<1>1. row' \in [Rows -> [alert : Alerts \cup {NoAlert}, inc : Incidents \cup {NoIncident}]]
      /\ \A s \in Rows : row'[s].inc = row[s].inc
  BY DEF TriageInv, TypeOK, Ingest
<1>2. lock' \in [Rows -> Requests \cup {Free}] /\ upset' \subseteq Records
  BY DEF TriageInv, TypeOK, Ingest
<1>3. TypeOK' /\ RequestsSound' /\ EventsPast' /\ Ordered' /\ Trailed'
  BY <1>1, <1>2, AlertFrame DEF Ingest
<1>4. \A i \in Incidents : Attached(i)' = Attached(i)
  BY <1>1 DEF Attached
<1>5. NoneBare' /\ CountsAttached'
  BY <1>4 DEF TriageInv, NoneBare, CountsAttached, Ingest, incidentVars
<1>6. QED
  BY <1>3, <1>5 DEF TriageInv

LEMMA TriageKeeps ==
  ASSUME TriageInv, NEW r \in Rows, NEW i \in Incidents, Triage(r, i)
  PROVE  TriageInv'
<1> DEFINE old == row[r].inc
<1>1. row \in [Rows -> [alert : Alerts \cup {NoAlert}, inc : Incidents \cup {NoIncident}]]
      /\ upset \subseteq Records /\ lock \in [Rows -> Requests \cup {Free}]
  BY DEF TriageInv, TypeOK
<1>2. row' \in [Rows -> [alert : Alerts \cup {NoAlert}, inc : Incidents \cup {NoIncident}]]
      /\ row'[r].inc = i /\ \A s \in Rows \ {r} : row'[s] = row[s]
  BY <1>1 DEF Triage
<1>3. upset \subseteq upset' /\ upset' \subseteq Records
  BY <1>1, Classes DEF Triage, Records
<1>4. TypeOK' /\ RequestsSound' /\ EventsPast' /\ Ordered' /\ Trailed'
  BY <1>1, <1>2, <1>3, AlertFrame DEF Triage
<1>5. \A j \in Incidents : j # i /\ j # old => Attached(j)' = Attached(j)
  BY <1>2 DEF Attached
<1>6. i = old => \A j \in Incidents : Attached(j)' = Attached(j)
  BY <1>2 DEF Attached
<1>7. i # old => <<"moved", i>> \in upset'
                 /\ (old \in Incidents => <<"moved", old>> \in upset')
  BY TriageAssumption DEF Triage
<1>8. NoneBare'
  <2> SUFFICES ASSUME NEW j \in Incidents, state[j] = "none", NEW s \in Rows, row'[s].inc = j
               PROVE  FALSE
    BY DEF NoneBare, Attached, Triage
  <2>1. j # i /\ Attached(j) = {}
    BY DEF Triage, TriageInv, NoneBare
  <2>2. QED  BY <1>2, <2>1 DEF Attached
<1>9. CountsAttached'
  <2> SUFFICES ASSUME NEW j \in Incidents, <<"moved", j>> \notin upset'
               PROVE  count[j] = Cardinality(Attached(j)')
    BY DEF CountsAttached, Triage, incidentVars
  <2>1. Attached(j)' = Attached(j)
    BY <1>5, <1>6, <1>7
  <2>2. QED  BY <1>3, <2>1 DEF TriageInv, CountsAttached
<1>10. QED
  BY <1>4, <1>8, <1>9 DEF TriageInv

LEMMA AttachKeeps ==
  ASSUME TriageInv, NEW q \in Requests, NEW r \in Rows, Attach(q, r)
  PROVE  TriageInv'
<1>1. lock' \in [Rows -> Requests \cup {Free}]
      /\ row' \in [Rows -> [alert : Alerts \cup {NoAlert}, inc : Incidents \cup {NoIncident}]]
      /\ upset' \subseteq Records
  BY DEF TriageInv, TypeOK, Attach
<1>2. TypeOK' /\ RequestsSound' /\ EventsPast' /\ Ordered' /\ Trailed'
  BY <1>1, AlertFrame DEF Attach
<1>3. NoneBare' /\ CountsAttached'
  BY DEF TriageInv, NoneBare, CountsAttached, Attach, Attached, incidentVars
<1>4. QED
  BY <1>2, <1>3 DEF TriageInv

------------------------------------------------------------------------------
(* Requests that begin.                                                    *)

LEMMA DecisionKeeps ==
  ASSUME TriageInv, NEW q \in Requests, NEW x \in Things,
         NEW step \in {"attach", "write"}, NEW to \in Words, NEW says \in {to, "same"},
         NEW asked \in SUBSET (Rows \cup {NoRow}), Begin(q, x, step, to, says, asked),
         UNCHANGED <<row, lock, state, incidentVars, audited, vendorLog>>,
         step = "attach" => /\ x \in Incidents /\ state[x] = "none"
                            /\ to = "OPEN" /\ says = "OPEN"
                            /\ \A p \in Requests : req[p].on # x,
         step = "write" => /\ state[x] # "none" /\ to \in Choices(x)
                           /\ x \in Signatures => says # "same"
  PROVE  TriageInv'
<1>1. says \in Words
  BY DEF Words
<1>2. /\ req[q].pc = "idle" /\ req[q].on = NoThing
      /\ clock' = clock + 1 /\ clock' \in 0 .. MaxClock /\ clock' # 0
      /\ req' \in [Requests -> Request]
      /\ req'[q].pc = step /\ req'[q].on = x /\ req'[q].to = to
      /\ req'[q].says = says /\ req'[q].at = clock'
      /\ \A p \in Requests \ {q} : req'[p] = req[p]
      /\ upset \subseteq upset' /\ upset' \subseteq Records
      /\ \A p \in Requests : req[p].on = x =>
           <<IF req[p].pc = "audit" THEN "loose" ELSE "overlap", x>> \in upset'
  BY <1>1, BeginFacts DEF TriageInv
<1>3. TypeOK'
  BY <1>2 DEF TriageInv, TypeOK, incidentVars
<1>4. clock \in Nat /\ \A p \in Requests : req[p].at \in Nat
  BY TriageAssumption DEF TriageInv, TypeOK, Request
<1>5. RequestsSound'
  <2> SUFFICES ASSUME NEW p \in Requests PROVE Sound(p)'
    BY DEF RequestsSound
  <2>0. Sound(p)
    BY DEF TriageInv, RequestsSound
  <2>1. CASE p = q
    BY <1>2, <1>4, <2>1 DEF Sound
  <2>2. CASE p # q
    <3>1. req'[p] = req[p]
      BY <1>2, <2>2
    <3>2. req[p].pc = "attach" => x # req[p].on
      BY <1>2, <2>0, <2>2 DEF Sound
    <3>3. QED
      BY <1>2, <1>4, <2>0, <3>1, <3>2 DEF Sound
  <2>3. QED  BY <2>1, <2>2
<1>6. NoneBare' /\ CountsAttached'
  BY <1>2 DEF TriageInv, NoneBare, CountsAttached, Attached, incidentVars
<1>7. EventsPast'
  BY <1>2, <1>4 DEF TriageInv, TypeOK, EventsPast, incidentVars
<1>8. Ordered'
  <2> SUFFICES ASSUME NEW i \in Incidents, <<"overlap", i>> \notin upset'
               PROVE  Orderly(i)'
    BY DEF Ordered
  <2>1. Orderly(i) /\ event[i].at <= clock /\ event[i].at \in Nat
    BY <1>2 DEF TriageInv, Ordered, EventsPast, TypeOK
  <2>2. x = i => \A p \in Requests : ~Changing(p, i)
    BY <1>2 DEF Changing
  <2>3. \A p \in Requests \ {q} : Changing(p, i)' <=> Changing(p, i)
    BY <1>2 DEF Changing
  <2>4. Changing(q, i)' => x = i /\ event[i].at <= req'[q].at
    BY <1>2, <1>4, <2>1 DEF Changing
  <2>5. QED
    BY <1>2, <2>1, <2>2, <2>3, <2>4 DEF Orderly, incidentVars
<1>9. Trailed'
  <2> SUFFICES ASSUME NEW y \in Things, <<"overlap", y>> \notin upset', <<"loose", y>> \notin upset'
               PROVE  Traced(y)'
    BY DEF Trailed
  <2>1. Traced(y)
    BY <1>2 DEF TriageInv, Trailed
  <2>2. x = y => \A p \in Requests : req[p].on # y
    BY <1>2
  <2>3. ~Auditing(q, y)' /\ ~Auditing(q, y)
        /\ \A p \in Requests \ {q} : Auditing(p, y)' <=> Auditing(p, y)
    BY <1>2 DEF Auditing
  <2>4. \A p, s \in Requests : req'[p].on = y /\ req'[s].on = y => p = s
    BY <1>2, <2>1, <2>2 DEF Traced
  <2>5. \A p \in Requests : Auditing(p, y)' =>
          req'[p].says = state'[y] \/ (req'[p].says = "same" /\ Told(y)' = state'[y])
    BY <1>2, <2>1, <2>3, ToldKept DEF Traced
  <2>6. (\A p \in Requests : ~Auditing(p, y)') => Told(y)' = state'[y]
    BY <2>1, <2>3, ToldKept DEF Traced
  <2>7. QED
    BY <2>4, <2>5, <2>6 DEF Traced
<1>10. QED
  BY <1>3, <1>5, <1>6, <1>7, <1>8, <1>9 DEF TriageInv

LEMMA CreateKeeps ==
  ASSUME TriageInv, NEW q \in Requests, NEW i \in Incidents,
         NEW asked \in SUBSET (Rows \cup {NoRow}), Create(q, i, asked)
  PROVE  TriageInv'
<1>1. i \in Things /\ "OPEN" \in Words
  BY Classes DEF Words
<1>2. QED
  BY <1>1, DecisionKeeps DEF Create

LEMMA DecideKeeps ==
  ASSUME TriageInv, NEW q \in Requests, NEW x \in Things, NEW to, Decide(q, x, to)
  PROVE  TriageInv'
<1>1. /\ to \in Words /\ to \in {to, "same"} /\ {} \in SUBSET (Rows \cup {NoRow})
      /\ x \in Signatures => to # "same"
  BY ChoiceTypes DEF Decide
<1>2. QED
  BY <1>1, DecisionKeeps DEF Decide

LEMMA ConfigureKeeps ==
  ASSUME TriageInv, NEW q \in Requests, NEW x \in Things, NEW to, Configure(q, x, to)
  PROVE  TriageInv'
<1>1. to \in Words /\ "same" \in {to, "same"} /\ {} \in SUBSET (Rows \cup {NoRow})
  BY ChoiceTypes DEF Configure
<1>2. state[x] # "none"
  <2>1. x \in Servers /\ to \in Choices(x)
    BY DEF Configure
  <2>2. state[x] \in Statuses(x)
    BY DEF TriageInv, TypeOK
  <2>3. QED  BY <2>1, <2>2, ChoiceTypes DEF Statuses
<1>3. x \notin Signatures
  BY Classes DEF Configure
<1>4. QED
  BY <1>1, <1>2, <1>3, DecisionKeeps DEF Configure

LEMMA InsertKeeps ==
  ASSUME TriageInv, NEW q \in Requests, NEW x \in Signatures \cup Rules, Insert(q, x)
  PROVE  TriageInv'
<1>0. x \in Things /\ x \notin Incidents /\ x \notin Servers
      /\ First(x) \in Words /\ First(x) \in Statuses(x) /\ First(x) \notin {"none", "same"}
  BY Classes, ChoiceTypes
<1>1. {} \in SUBSET (Rows \cup {NoRow}) /\ "audit" \in {"attach", "write", "audit"}
  OBVIOUS
<1>2. /\ req[q].pc = "idle" /\ req[q].on = NoThing
      /\ clock' = clock + 1 /\ clock' \in 0 .. MaxClock /\ clock' # 0
      /\ req' \in [Requests -> Request]
      /\ req'[q].pc = "audit" /\ req'[q].on = x /\ req'[q].says = First(x)
      /\ \A p \in Requests \ {q} : req'[p] = req[p]
      /\ upset \subseteq upset' /\ upset' \subseteq Records
      /\ \A p \in Requests : req[p].on = x =>
           <<IF req[p].pc = "audit" THEN "loose" ELSE "overlap", x>> \in upset'
  BY <1>0, <1>1, BeginFacts DEF TriageInv, Insert
<1>3. /\ DOMAIN state' = Things /\ state[x] = "none" /\ state'[x] = First(x)
      /\ \A y \in Things \ {x} : state'[y] = state[y]
      /\ UNCHANGED <<row, lock, resolved, count, event, audited, vendorLog>>
  BY <1>0 DEF TriageInv, TypeOK, Insert, incidentVars
<1>4. \A i \in Incidents : state'[i] = state[i]
  BY <1>0, <1>3, Classes
<1>5. TypeOK'
  <2>1. \A y \in Things : state'[y] \in Statuses(y)
    BY <1>0, <1>3 DEF TriageInv, TypeOK
  <2>2. QED  BY <1>2, <1>3, <1>4, <2>1 DEF TriageInv, TypeOK
<1>6. clock \in Nat /\ \A p \in Requests : req[p].at \in Nat
  BY TriageAssumption DEF TriageInv, TypeOK, Request
<1>7. RequestsSound'
  <2> SUFFICES ASSUME NEW p \in Requests PROVE Sound(p)'
    BY DEF RequestsSound
  <2>0. Sound(p)
    BY DEF TriageInv, RequestsSound
  <2>1. CASE p = q
    BY <1>0, <1>2, <1>3, <2>1 DEF Sound
  <2>2. CASE p # q
    <3>1. req'[p] = req[p]
      BY <1>2, <2>2
    <3>2. req[p].pc # "idle" => req[p].on \in Things /\ (state[req[p].on] # "none" => req[p].on # x)
      BY <1>3, <2>0 DEF Sound
    <3>3. req[p].pc = "attach" => req[p].on # x
      BY <1>0, <2>0 DEF Sound
    <3>4. QED
      BY <1>2, <1>3, <1>6, <2>0, <3>1, <3>2, <3>3 DEF Sound
  <2>3. QED  BY <2>1, <2>2
<1>8. NoneBare' /\ CountsAttached' /\ EventsPast'
  BY <1>2, <1>3, <1>4, <1>6
     DEF TriageInv, TypeOK, NoneBare, CountsAttached, EventsPast, Attached
<1>9. Ordered'
  <2> SUFFICES ASSUME NEW i \in Incidents, <<"overlap", i>> \notin upset'
               PROVE  Orderly(i)'
    BY DEF Ordered
  <2>1. Orderly(i)
    BY <1>2 DEF TriageInv, Ordered
  <2>2. i # x
    BY <1>0
  <2>3. \A p \in Requests : Changing(p, i)' <=> Changing(p, i)
    BY <1>2, <2>2 DEF Changing
  <2>4. QED
    BY <1>2, <1>3, <1>4, <2>1, <2>3 DEF Orderly, Changing
<1>10. Trailed'
  <2> SUFFICES ASSUME NEW y \in Things, <<"overlap", y>> \notin upset', <<"loose", y>> \notin upset'
               PROVE  Traced(y)'
    BY DEF Trailed
  <2>1. Traced(y)
    BY <1>2 DEF TriageInv, Trailed
  <2>2. x = y => \A p \in Requests : req[p].on # y
    BY <1>2
  <2>3. \A p \in Requests \ {q} : Auditing(p, y)' <=> Auditing(p, y)
    BY <1>2 DEF Auditing
  <2>4. \A p, s \in Requests : req'[p].on = y /\ req'[s].on = y => p = s
    BY <1>2, <2>1, <2>2 DEF Traced
  <2>5. CASE y = x
    <3>1. Auditing(q, x)' /\ \A p \in Requests \ {q} : ~Auditing(p, x)'
      BY <1>2, <2>2, <2>3, <2>5 DEF Auditing
    <3>2. QED
      BY <1>2, <1>3, <2>4, <2>5, <3>1 DEF Traced
  <2>6. CASE y # x
    <3>1. ~Auditing(q, y)' /\ ~Auditing(q, y)
      BY <1>2, <2>6 DEF Auditing
    <3>2. state'[y] = state[y]
      BY <1>3, <2>6
    <3>3. \A p \in Requests : Auditing(p, y)' =>
            req'[p].says = state'[y] \/ (req'[p].says = "same" /\ Told(y)' = state'[y])
      BY <1>2, <1>3, <2>1, <2>3, <3>1, <3>2, ToldKept DEF Traced
    <3>4. (\A p \in Requests : ~Auditing(p, y)') => Told(y)' = state'[y]
      BY <1>3, <2>1, <2>3, <3>1, <3>2, ToldKept DEF Traced
    <3>5. QED  BY <2>4, <3>3, <3>4 DEF Traced
  <2>7. QED  BY <2>5, <2>6
<1>11. QED
  BY <1>5, <1>7, <1>8, <1>9, <1>10 DEF TriageInv

------------------------------------------------------------------------------
(* Requests that commit, and that end.                                     *)

LEMMA OpenKeeps ==
  ASSUME TriageInv, NEW q \in Requests, Open(q)
  PROVE  TriageInv'
<1> DEFINE i == req[q].on
<1>0. TypeOK /\ RequestsSound /\ req[q].pc = "attach"
  BY DEF TriageInv, Open
<1>1. i \in Incidents /\ i \in Things /\ state[i] = "none" /\ req[q].says = "OPEN"
      /\ \A p \in Requests \ {q} : req[p].on # i
  BY <1>0, Classes DEF RequestsSound, Sound
<1>2. req[q].at \in 0 .. MaxClock /\ req[q].at # 0 /\ req[q].at <= clock
  BY <1>0 DEF RequestsSound, Sound, TypeOK, Request
<1>3. /\ req' \in [Requests -> Request]
      /\ req'[q].pc = "audit" /\ req'[q].on = i /\ req'[q].says = "OPEN"
      /\ \A p \in Requests \ {q} : req'[p] = req[p]
  BY <1>0, <1>1, CommittedFacts DEF Open
<1>4. /\ DOMAIN state' = Things /\ state'[i] = "OPEN"
      /\ \A y \in Things \ {i} : state'[y] = state[y]
      /\ UNCHANGED <<resolved, audited, vendorLog, clock>>
  BY <1>0, <1>1 DEF TypeOK, Open
<1>5. /\ count' \in [Incidents -> Nat] /\ count'[i] = Cardinality(Held(q))
      /\ \A j \in Incidents \ {i} : count'[j] = count[j]
  <2>1. Cardinality(Held(q)) \in Nat
    BY TriageAssumption, FS_Subset, FS_CardinalityType DEF Held
  <2>2. QED
    BY <1>0, <1>1, <2>1 DEF TypeOK, Open, AttachedCount
<1>6. /\ event' \in [Incidents -> [at : 0 .. MaxClock, to : Words]]
      /\ event'[i] = [at |-> req[q].at, to |-> "OPEN"]
      /\ \A j \in Incidents \ {i} : event'[j] = event[j]
  BY <1>0, <1>1, <1>2 DEF TypeOK, Open, Words
<1>7. /\ row' \in [Rows -> [alert : Alerts \cup {NoAlert}, inc : Incidents \cup {NoIncident}]]
      /\ \A r \in Held(q) : row'[r].inc = i
      /\ \A r \in Rows \ Held(q) : row'[r] = row[r]
  BY <1>0, <1>1 DEF TypeOK, Open, Held
<1>8. upset \subseteq upset' /\ upset' \subseteq Records
      /\ \A r \in Held(q) : row[r].inc \in Incidents => <<"moved", row[r].inc>> \in upset'
  <2>1. upset' = upset \cup ({"moved"} \X ({row[r].inc : r \in Held(q)} \ {NoIncident}))
    BY DEF Open
  <2>2. {row[r].inc : r \in Held(q)} \ {NoIncident} \subseteq Things
    BY <1>0, Classes DEF TypeOK, Held
  <2>3. QED
    BY <1>0, <2>1, <2>2, TriageAssumption DEF TypeOK, Records
<1>9. TypeOK'
  <2>1. lock' \in [Rows -> Requests \cup {Free}]
    BY <1>0, ReleaseType DEF Open
  <2>2. \A y \in Things : state'[y] \in Statuses(y)
    BY <1>0, <1>1, <1>4, ChoiceTypes DEF TypeOK
  <2>3. \A j \in Incidents : state'[j] \in Final <=> resolved'[j] # 0
    <3>1. "OPEN" \notin Final /\ "none" \notin Final
      BY DEF Final
    <3>2. QED  BY <1>0, <1>1, <1>4, <3>1, Classes DEF TypeOK
  <2>4. QED
    BY <1>0, <1>3, <1>4, <1>5, <1>6, <1>7, <1>8, <2>1, <2>2, <2>3 DEF TypeOK
<1>10. RequestsSound'
  <2> SUFFICES ASSUME NEW p \in Requests PROVE Sound(p)'
    BY DEF RequestsSound
  <2>0. Sound(p)
    BY <1>0 DEF RequestsSound
  <2>1. CASE p = q
    BY <1>1, <1>3, <1>4, <2>1, ChoiceTypes DEF Sound
  <2>2. CASE p # q
    <3>1. req'[p] = req[p] /\ req[p].on # i
      BY <1>1, <1>3, <2>2
    <3>2. QED
      BY <1>3, <1>4, <2>0, <3>1 DEF Sound
  <2>3. QED  BY <2>1, <2>2
<1>11. Attached(i) = {} /\ {r \in Rows : row'[r].inc = i} = Held(q)
  BY <1>1, <1>7 DEF TriageInv, NoneBare, Attached, Held
<1>12. NoneBare'
  <2> SUFFICES ASSUME NEW j \in Incidents, state'[j] = "none", NEW r \in Rows, row'[r].inc = j
               PROVE  FALSE
    BY DEF NoneBare, Attached
  <2>1. j # i /\ j \in Things /\ state[j] = "none"
    BY <1>4, Classes
  <2>2. row[r].inc = j
    BY <1>7, <2>1
  <2>3. QED  BY <2>1, <2>2 DEF TriageInv, NoneBare, Attached
<1>13. CountsAttached'
  <2> SUFFICES ASSUME NEW j \in Incidents, <<"moved", j>> \notin upset'
               PROVE  count'[j] = Cardinality(Attached(j)')
    BY DEF CountsAttached
  <2>1. CASE j = i
    BY <1>5, <1>11, <2>1 DEF Attached
  <2>2. CASE j # i
    <3>1. Attached(j)' = Attached(j)
      BY <1>7, <1>8, <2>2 DEF Attached
    <3>2. QED
      BY <1>5, <1>8, <2>2, <3>1 DEF TriageInv, CountsAttached
  <2>3. QED  BY <2>1, <2>2
<1>14. EventsPast'
  BY <1>2, <1>4, <1>6 DEF TriageInv, EventsPast
<1>15. Ordered'
  <2> SUFFICES ASSUME NEW j \in Incidents, <<"overlap", j>> \notin upset'
               PROVE  Orderly(j)'
    BY DEF Ordered
  <2>1. Orderly(j)
    BY <1>8 DEF TriageInv, Ordered
  <2>2. CASE j = i
    <3>1. \A p \in Requests : ~Changing(p, j)'
      BY <1>1, <1>3, <2>2 DEF Changing
    <3>2. QED  BY <1>4, <1>6, <2>2, <3>1 DEF Orderly
  <2>3. CASE j # i
    <3>1. \A p \in Requests : Changing(p, j)' => Changing(p, j) /\ req'[p] = req[p]
      BY <1>3, <2>3 DEF Changing
    <3>2. event'[j] = event[j] /\ state'[j] = state[j]
      BY <1>4, <1>6, <2>3, Classes
    <3>3. QED  BY <2>1, <3>1, <3>2 DEF Orderly
  <2>4. QED  BY <2>2, <2>3
<1>16. Trailed'
  <2> SUFFICES ASSUME NEW y \in Things, <<"overlap", y>> \notin upset', <<"loose", y>> \notin upset'
               PROVE  Traced(y)'
    BY DEF Trailed
  <2>1. Traced(y)
    BY <1>8 DEF TriageInv, Trailed
  <2>2. \A p \in Requests : req'[p].on = req[p].on
    BY <1>3
  <2>3. CASE y = i
    <3>1. Auditing(q, y)' /\ \A p \in Requests \ {q} : ~Auditing(p, y)'
      BY <1>1, <1>3, <2>3 DEF Auditing
    <3>2. QED
      BY <1>3, <1>4, <2>1, <2>2, <2>3, <3>1 DEF Traced
  <2>4. CASE y # i
    <3>1. \A p \in Requests : Auditing(p, y)' <=> Auditing(p, y)
      BY <1>3, <2>4 DEF Auditing
    <3>2. \A p \in Requests : Auditing(p, y) => req'[p] = req[p]
      BY <1>3, <2>4 DEF Auditing
    <3>3. QED
      BY <1>4, <2>1, <2>2, <2>4, <3>1, <3>2, ToldKept DEF Traced
  <2>5. QED  BY <2>3, <2>4
<1>17. QED
  BY <1>9, <1>10, <1>12, <1>13, <1>14, <1>15, <1>16 DEF TriageInv

LEMMA WriteKeeps ==
  ASSUME TriageInv, NEW q \in Requests, Write(q)
  PROVE  TriageInv'
<1> DEFINE x  == req[q].on
           to == req[q].to
<1>0. TypeOK /\ RequestsSound /\ req[q].pc = "write"
  BY DEF TriageInv, Write
<1>1. x \in Things /\ state[x] # "none" /\ to \in Choices(x) /\ req[q].says \in {to, "same"}
      /\ to # "none" /\ to \in Words /\ (x \in Signatures => req[q].says # "same")
  BY <1>0, ChoiceTypes DEF RequestsSound, Sound
<1>2. req[q].at \in 0 .. MaxClock /\ req[q].at # 0 /\ req[q].at <= clock /\ clock \in Nat
  BY <1>0 DEF RequestsSound, Sound, TypeOK, Request
<1>3. /\ req' \in [Requests -> Request]
      /\ req'[q].pc = "audit" /\ req'[q].on = x /\ req'[q].says = req[q].says
      /\ \A p \in Requests \ {q} : req'[p] = req[p]
  BY <1>0, <1>1, CommittedFacts DEF Write
<1>4. /\ DOMAIN state' = Things
      /\ state'[x] = IF to = "same" THEN state[x] ELSE to
      /\ \A y \in Things \ {x} : state'[y] = state[y]
      /\ UNCHANGED <<row, lock, count, audited, vendorLog, clock>>
  BY <1>0, <1>1 DEF TypeOK, Write
<1>5. upset \subseteq upset' /\ upset' \subseteq Records
      /\ (<<"loose", x>> \notin upset' => req[q].says = to)
  BY <1>0, <1>1 DEF TypeOK, Write, Records
<1>6. \A y \in Things : state'[y] \in Statuses(y) /\ (state'[y] = "none" <=> state[y] = "none")
  BY <1>0, <1>1, <1>4 DEF TypeOK, Statuses
<1>7. /\ resolved' \in [Incidents -> 0 .. MaxClock]
      /\ \A j \in Incidents : j # x => resolved'[j] = resolved[j]
      /\ x \in Incidents => resolved'[x] = Dated(q)
  <2>1. CASE x \in Incidents
    <3>1. Dated(q) \in 0 .. MaxClock
      BY <1>0, <1>2, <2>1, TriageAssumption DEF TypeOK, Dated, Final
    <3>2. resolved' = [resolved EXCEPT ![x] = Dated(q)]
      BY <2>1 DEF Write
    <3>3. QED  BY <1>0, <2>1, <3>1, <3>2 DEF TypeOK
  <2>2. CASE x \notin Incidents
    BY <1>0, <2>2 DEF TypeOK, Write
  <2>3. QED  BY <2>1, <2>2
<1>8. /\ event' \in [Incidents -> [at : 0 .. MaxClock, to : Words]]
      /\ \A j \in Incidents : j # x => event'[j] = event[j]
      /\ x \in Incidents =>
           event'[x] = IF to = "same" \/ req[q].at < event[x].at THEN event[x]
                       ELSE [at |-> req[q].at, to |-> to]
  <2>1. CASE x \in Incidents
    <3>1. Event(q) \in [at : 0 .. MaxClock, to : Words]
      BY <1>0, <1>1, <1>2, <2>1 DEF TypeOK, Event
    <3>2. event' = [event EXCEPT ![x] = Event(q)]
      BY <2>1 DEF Write
    <3>3. QED  BY <1>0, <2>1, <3>1, <3>2 DEF TypeOK, Event
  <2>2. CASE x \notin Incidents
    BY <1>0, <2>2 DEF TypeOK, Write
  <2>3. QED  BY <2>1, <2>2
<1>9. \A j \in Incidents : state'[j] \in Final <=> resolved'[j] # 0
  <2> SUFFICES ASSUME NEW j \in Incidents PROVE state'[j] \in Final <=> resolved'[j] # 0
    OBVIOUS
  <2>1. state[j] \in Final <=> resolved[j] # 0
    BY <1>0 DEF TypeOK
  <2>2. CASE j # x
    BY <1>4, <1>7, <2>1, <2>2, Classes
  <2>3. CASE j = x
    <3>1. "same" \notin Final
      BY DEF Final
    <3>2. CASE to = "same"
      BY <1>4, <1>7, <2>1, <2>3, <3>1, <3>2 DEF Dated
    <3>3. CASE to \in Final
      <4>1. CASE resolved[j] = 0
        BY <1>2, <1>4, <1>7, <2>3, <3>1, <3>3, <4>1 DEF Dated
      <4>2. CASE resolved[j] # 0
        BY <1>4, <1>7, <2>3, <3>1, <3>3, <4>2 DEF Dated
      <4>3. QED  BY <4>1, <4>2
    <3>4. CASE to # "same" /\ to \notin Final
      BY <1>4, <1>7, <2>3, <3>4 DEF Dated
    <3>5. QED  BY <3>2, <3>3, <3>4
  <2>4. QED  BY <2>2, <2>3
<1>10. TypeOK'
  BY <1>0, <1>3, <1>4, <1>5, <1>6, <1>7, <1>8, <1>9 DEF TypeOK
<1>11. RequestsSound'
  <2> SUFFICES ASSUME NEW p \in Requests PROVE Sound(p)'
    BY DEF RequestsSound
  <2>0. Sound(p)
    BY <1>0 DEF RequestsSound
  <2>1. CASE p = q
    <3>1. req[q].says \in Statuses(x) \cup {"same"}
      BY <1>1 DEF Statuses
    <3>2. QED
      BY <1>1, <1>3, <1>6, <2>1, <3>1 DEF Sound
  <2>2. CASE p # q
    <3>1. req'[p] = req[p] /\ \A s \in Requests : req'[s].on = req[s].on
      BY <1>3, <2>2
    <3>2. QED
      BY <1>4, <1>6, <2>0, <3>1, Classes DEF Sound
  <2>3. QED  BY <2>1, <2>2
<1>12. NoneBare' /\ CountsAttached'
  BY <1>4, <1>5, <1>6, Classes DEF TriageInv, NoneBare, CountsAttached, Attached
<1>13. EventsPast'
  BY <1>2, <1>4, <1>8 DEF TriageInv, EventsPast
<1>14. Ordered'
  <2> SUFFICES ASSUME NEW j \in Incidents, <<"overlap", j>> \notin upset'
               PROVE  Orderly(j)'
    BY DEF Ordered
  <2>1. Orderly(j)
    BY <1>5 DEF TriageInv, Ordered
  <2>2. CASE j = x
    <3>1. Changing(q, j)
      BY <1>0, <2>2 DEF Changing
    <3>2. \A p \in Requests : ~Changing(p, j)'
      BY <1>3, <2>1, <3>1 DEF Orderly, Changing
    <3>3. event[j].at <= req[q].at /\ event[j].to = state[j]
      BY <2>1, <3>1 DEF Orderly
    <3>4. event[j].at \in Nat
      BY <1>0, TriageAssumption DEF TypeOK
    <3>5. event'[j].to = state'[j]
      BY <1>1, <1>2, <1>4, <1>8, <2>2, <3>3, <3>4
    <3>6. QED  BY <3>2, <3>5 DEF Orderly
  <2>3. CASE j # x
    <3>1. \A p \in Requests : Changing(p, j)' => Changing(p, j) /\ req'[p] = req[p]
      BY <1>3, <2>3 DEF Changing
    <3>2. event'[j] = event[j] /\ state'[j] = state[j]
      BY <1>4, <1>8, <2>3, Classes
    <3>3. QED  BY <2>1, <3>1, <3>2 DEF Orderly
  <2>4. QED  BY <2>2, <2>3
<1>15. Trailed'
  <2> SUFFICES ASSUME NEW y \in Things, <<"overlap", y>> \notin upset', <<"loose", y>> \notin upset'
               PROVE  Traced(y)'
    BY DEF Trailed
  <2>1. Traced(y)
    BY <1>5 DEF TriageInv, Trailed
  <2>2. \A p \in Requests : req'[p].on = req[p].on
    BY <1>3
  <2>3. CASE y = x
    <3>1. \A p \in Requests \ {q} : req[p].on # y
      BY <2>1, <2>3 DEF Traced
    <3>2. Told(y) = state[y]
      BY <1>0, <2>1, <3>1 DEF Traced, Auditing
    <3>3. Auditing(q, y)' /\ \A p \in Requests \ {q} : ~Auditing(p, y)'
      BY <1>3, <2>3, <3>1 DEF Auditing
    <3>4. req'[q].says = to /\ req'[q].says = req[q].says
      BY <1>3, <1>5, <2>3
    <3>5. req'[q].says = state'[y] \/ (req'[q].says = "same" /\ Told(y)' = state'[y])
      BY <1>4, <2>3, <3>2, <3>4, ToldKept
    <3>6. QED
      BY <2>1, <2>2, <3>3, <3>5 DEF Traced
  <2>4. CASE y # x
    <3>1. \A p \in Requests : Auditing(p, y)' <=> Auditing(p, y)
      BY <1>3, <2>4 DEF Auditing
    <3>2. \A p \in Requests : Auditing(p, y) => req'[p] = req[p]
      BY <1>3, <2>4 DEF Auditing
    <3>3. QED
      BY <1>4, <2>1, <2>2, <2>4, <3>1, <3>2, ToldKept DEF Traced
  <2>5. QED  BY <2>3, <2>4
<1>16. QED
  BY <1>10, <1>11, <1>12, <1>13, <1>14, <1>15 DEF TriageInv

(* What the end of a request leaves alone.                                 *)
LEMMA EndFrame ==
  ASSUME TriageInv, NEW q \in Requests, req' = [req EXCEPT ![q] = Idle],
         UNCHANGED <<row, state, incidentVars, clock>>,
         upset \subseteq upset', upset' \subseteq Records,
         lock' \in [Rows -> Requests \cup {Free}],
         DOMAIN audited' = Things /\ \A x \in Things : audited'[x] \in Statuses(x),
         DOMAIN vendorLog' = Signatures /\ \A x \in Signatures : vendorLog'[x] \in Statuses(x)
  PROVE  TypeOK' /\ RequestsSound' /\ NoneBare' /\ EventsPast' /\ CountsAttached' /\ Ordered'
<1>1. req' \in [Requests -> Request] /\ req'[q].pc = "idle" /\ req'[q].on = NoThing
      /\ \A p \in Requests \ {q} : req'[p] = req[p]
  BY EndFacts DEF TriageInv
<1>2. TypeOK'
  BY <1>1 DEF TriageInv, TypeOK, incidentVars
<1>3. RequestsSound'
  <2> SUFFICES ASSUME NEW p \in Requests PROVE Sound(p)'
    BY DEF RequestsSound
  <2>0. Sound(p)
    BY DEF TriageInv, RequestsSound
  <2>1. CASE p = q
    BY <1>1, <2>1 DEF Sound
  <2>2. CASE p # q
    <3>1. req'[p] = req[p] /\ (req[p].pc = "attach" => req[p].on \in Things)
      BY <1>1, <2>0, <2>2, Classes DEF Sound
    <3>2. \A s \in Requests : req'[s].on = req[s].on \/ req'[s].on \notin Things
      BY <1>1, TriageAssumption
    <3>3. QED  BY <2>0, <3>1, <3>2 DEF Sound
  <2>3. QED  BY <2>1, <2>2
<1>4. NoneBare' /\ EventsPast' /\ CountsAttached'
  BY DEF TriageInv, NoneBare, EventsPast, CountsAttached, Attached, incidentVars
<1>5. Ordered'
  <2> SUFFICES ASSUME NEW j \in Incidents, <<"overlap", j>> \notin upset'
               PROVE  Orderly(j)'
    BY DEF Ordered
  <2>1. Orderly(j)
    BY DEF TriageInv, Ordered
  <2>2. \A p \in Requests : Changing(p, j)' => Changing(p, j) /\ req'[p] = req[p]
    BY <1>1 DEF Changing
  <2>3. QED
    BY <2>1, <2>2 DEF Orderly, incidentVars
<1>6. QED
  BY <1>2, <1>3, <1>4, <1>5

LEMMA AuditKeeps ==
  ASSUME TriageInv, NEW q \in Requests, Audit(q)
  PROVE  TriageInv'
<1> DEFINE x == req[q].on
<1>1. TypeOK /\ RequestsSound /\ req[q].pc = "audit"
  BY DEF TriageInv, Audit
<1>2. x \in Things /\ req[q].says \in Statuses(x) \cup {"same"}
  BY <1>1 DEF RequestsSound, Sound
<1>3. /\ DOMAIN audited' = Things /\ DOMAIN vendorLog' = Signatures
      /\ \A y \in Things \ {x} : audited'[y] = audited[y]
      /\ \A y \in Signatures \ {x} : vendorLog'[y] = vendorLog[y]
  BY <1>1, <1>2 DEF TypeOK, Audit
<1>4. /\ ByVendor(x, req[q].says) =>
           x \in Signatures /\ vendorLog'[x] = req[q].says /\ audited' = audited
      /\ ~ByVendor(x, req[q].says) =>
           /\ audited'[x] = IF req[q].says = "same" THEN audited[x] ELSE req[q].says
           /\ vendorLog' = vendorLog
  BY <1>1, <1>2 DEF TypeOK, Audit, ByVendor
<1>9. x \in Signatures => req[q].says # "same"
  BY <1>1, <1>2 DEF RequestsSound, Sound
<1>10. /\ \A y \in Things : audited'[y] \in Statuses(y)
       /\ \A y \in Signatures : vendorLog'[y] \in Statuses(y)
  BY <1>1, <1>2, <1>3, <1>4, <1>9 DEF TypeOK
<1>5. TypeOK' /\ RequestsSound' /\ NoneBare' /\ EventsPast' /\ CountsAttached' /\ Ordered'
  BY <1>1, <1>3, <1>10, EndFrame DEF TypeOK, Audit
<1>6. req'[q].pc = "idle" /\ req'[q].on = NoThing /\ \A p \in Requests \ {q} : req'[p] = req[p]
  BY <1>1, EndFacts DEF Audit
<1>7. Trailed'
  <2> SUFFICES ASSUME NEW y \in Things, <<"overlap", y>> \notin upset', <<"loose", y>> \notin upset'
               PROVE  Traced(y)'
    BY DEF Trailed
  <2>1. Traced(y)
    BY DEF TriageInv, Trailed, Audit
  <2>2. UNCHANGED state
    BY DEF Audit
  <2>3. \A p \in Requests : req'[p].on = y => req'[p] = req[p]
    BY <1>6, TriageAssumption
  <2>4. CASE y = x
    <3>1. Auditing(q, y) /\ \A p \in Requests \ {q} : req[p].on # y
      BY <1>1, <2>1, <2>4 DEF Traced, Auditing
    <3>0. state[y] # "same"
      BY <1>1, ChoiceTypes DEF TypeOK, Statuses
    <3>2. Told(y)' = state[y]
      <4>1. CASE req[q].says = state[y]
        BY <1>4, <2>2, <2>4, <3>0, <4>1 DEF Told
      <4>2. CASE req[q].says = "same"
        <5>1. ~ByVendor(x, req[q].says) /\ Told(y) = state[y]
          BY <1>9, <2>1, <2>4, <3>0, <3>1, <4>2 DEF Traced, ByVendor
        <5>2. y \notin Signatures /\ audited'[y] = audited[y]
          BY <1>4, <1>9, <2>4, <4>2, <5>1
        <5>3. QED  BY <5>1, <5>2 DEF Told, ByVendor
      <4>3. QED  BY <2>1, <3>1, <4>1, <4>2 DEF Traced
    <3>3. \A p \in Requests : req'[p].on # y
      BY <1>6, <3>1, TriageAssumption
    <3>4. QED  BY <2>2, <3>2, <3>3 DEF Traced, Auditing
  <2>5. CASE y # x
    <3>1. \A p \in Requests : Auditing(p, y)' <=> Auditing(p, y)
      BY <1>6, <2>5, TriageAssumption DEF Auditing
    <3>2. Told(y)' = Told(y)
      BY <1>3, <2>2, <2>5 DEF Told, ByVendor
    <3>3. \A p \in Requests : Auditing(p, y)' => req'[p] = req[p]
      BY <2>3 DEF Auditing
    <3>4. QED
      BY <2>1, <2>2, <2>3, <3>1, <3>2, <3>3 DEF Traced
  <2>6. QED  BY <2>4, <2>5
<1>8. QED
  BY <1>5, <1>7 DEF TriageInv

LEMMA FailKeeps ==
  ASSUME TriageInv, NEW q \in Requests, Fail(q)
  PROVE  TriageInv'
<1> DEFINE x == req[q].on
<1>1. TypeOK /\ RequestsSound /\ req[q].pc # "idle" /\ x \in Things
  BY DEF TriageInv, Fail, RequestsSound, Sound
<1>2. upset \subseteq upset' /\ upset' \subseteq Records
      /\ (req[q].pc = "audit" => <<"loose", x>> \in upset')
  BY <1>1 DEF TypeOK, Fail, Records
<1>3. lock' \in [Rows -> Requests \cup {Free}]
  BY <1>1, ReleaseType DEF Fail
<1>4. TypeOK' /\ RequestsSound' /\ NoneBare' /\ EventsPast' /\ CountsAttached' /\ Ordered'
  BY <1>1, <1>2, <1>3, EndFrame DEF TypeOK, Fail
<1>5. req'[q].pc = "idle" /\ req'[q].on = NoThing /\ \A p \in Requests \ {q} : req'[p] = req[p]
  BY <1>1, EndFacts DEF Fail
<1>6. Trailed'
  <2> SUFFICES ASSUME NEW y \in Things, <<"overlap", y>> \notin upset', <<"loose", y>> \notin upset'
               PROVE  Traced(y)'
    BY DEF Trailed
  <2>1. Traced(y)
    BY <1>2 DEF TriageInv, Trailed
  <2>2. UNCHANGED <<state, audited, vendorLog>>
    BY DEF Fail
  <2>3. \A p \in Requests : req'[p].on = y => req'[p] = req[p]
    BY <1>5, TriageAssumption
  <2>4. ~Auditing(q, y)
    BY <1>2 DEF Auditing
  <2>5. \A p \in Requests : Auditing(p, y)' <=> Auditing(p, y)
    BY <1>5, <2>4, TriageAssumption DEF Auditing
  <2>6. \A p \in Requests : Auditing(p, y)' => req'[p] = req[p]
    BY <2>3 DEF Auditing
  <2>7. QED
    BY <2>1, <2>2, <2>3, <2>5, <2>6, ToldKept DEF Traced
<1>7. QED
  BY <1>4, <1>6 DEF TriageInv

------------------------------------------------------------------------------
(* The theorems.                                                           *)

LEMMA InvNext == TriageInv /\ [Next]_vars => TriageInv'
<1> SUFFICES ASSUME TriageInv, [Next]_vars PROVE TriageInv'
  OBVIOUS
<1>1. ASSUME NEW a \in Alerts, NEW r \in Rows, Ingest(a, r) PROVE TriageInv'
  BY <1>1, IngestKeeps
<1>2. ASSUME NEW r \in Rows, NEW i \in Incidents, Triage(r, i) PROVE TriageInv'
  BY <1>2, TriageKeeps
<1>3. ASSUME NEW q \in Requests, RequestStep(q) PROVE TriageInv'
  <2>1. ASSUME NEW x \in Things, Submit(q, x) \/ CreateRule(q, x) PROVE TriageInv'
    BY <2>1, InsertKeeps DEF Submit, CreateRule
  <2>2. ASSUME NEW x \in Things, NEW to, Decide(q, x, to) PROVE TriageInv'
    BY <2>2, DecideKeeps
  <2>3. ASSUME NEW x \in Things, NEW to, Configure(q, x, to) PROVE TriageInv'
    BY <2>3, ConfigureKeeps
  <2>4. ASSUME NEW i \in Incidents, NEW asked \in SUBSET (Rows \cup {NoRow}), Create(q, i, asked)
        PROVE  TriageInv'
    BY <2>4, CreateKeeps
  <2>5. ASSUME NEW r \in Rows, Attach(q, r) PROVE TriageInv'
    BY <2>5, AttachKeeps
  <2>6. (Open(q) => TriageInv') /\ (Write(q) => TriageInv')
    BY OpenKeeps, WriteKeeps
  <2>7. (Audit(q) => TriageInv') /\ (Fail(q) => TriageInv')
    BY AuditKeeps, FailKeeps
  <2>8. QED
    BY <1>3, <2>1, <2>2, <2>3, <2>4, <2>5, <2>6, <2>7
       DEF RequestStep, Comment, Change, Review, PatchRule, Lockdown
<1>4. CASE UNCHANGED vars
  <2>1. UNCHANGED <<row, lock, state, incidentVars, audited, vendorLog, clock, upset, req>>
    BY <1>4 DEF vars
  <2>2. TypeOK' /\ RequestsSound' /\ EventsPast' /\ Ordered' /\ Trailed'
    BY <2>1, AlertFrame DEF TriageInv, TypeOK
  <2>3. NoneBare' /\ CountsAttached'
    BY <2>1 DEF TriageInv, NoneBare, CountsAttached, Attached, incidentVars
  <2>4. QED  BY <2>2, <2>3 DEF TriageInv
<1>5. QED
  BY <1>1, <1>2, <1>3, <1>4 DEF Next

THEOREM InvHolds == Spec => []TriageInv
<1>1. QED  BY InvInit, InvNext, PTL DEF Spec

(* Types, and an incident is dated exactly while its status is final: no   *)
(* PATCH runs into incidents_resolved_consistency (0001_init.sql:263-264). *)
THEOREM TypeCorrect == Spec => []TypeOK
<1>1. TriageInv => TypeOK
  BY DEF TriageInv
<1>2. QED  BY <1>1, InvHolds, PTL

(* alert_count is right until an alert is moved (routes.ts:1453-1469).     *)
THEOREM CountsHold == Spec => []CountsAttached
<1>1. TriageInv => CountsAttached
  BY DEF TriageInv
<1>2. QED  BY <1>1, InvHolds, PTL

(* A timeline whose transactions never overlapped ends with the status of  *)
(* its incident (routes.ts:1492-1525).                                     *)
THEOREM TimelineHolds == Spec => []TimelineTellsStatus
<1>1. TriageInv => TimelineTellsStatus
  BY DEF TriageInv, Ordered, Orderly, TimelineTellsStatus
<1>2. QED  BY <1>1, InvHolds, PTL

(* The audit log of a thing whose decisions never overlapped ends with its *)
(* status once the entries under way are written (routes.ts:145-169).      *)
THEOREM TrailHolds == Spec => []TrailTellsStatus
<1>1. TriageInv => TrailTellsStatus
  BY DEF TriageInv, Trailed, Traced, Auditing, TrailTellsStatus
<1>2. QED  BY <1>1, InvHolds, PTL

(* The date of a resolution stands while the status stays final            *)
(* (routes.ts:1502-1505).                                                  *)
THEOREM ResolutionHolds == Spec => ResolutionStands
<1> DEFINE Step == \A i \in Incidents :
                     state[i] \in Final /\ state'[i] \in Final => resolved'[i] = resolved[i]
<1>1. TriageInv /\ [Next]_vars => [Step]_vars
  <2> SUFFICES ASSUME TriageInv, Next, NEW i \in Incidents, state[i] \in Final,
                      state'[i] \in Final, resolved'[i] # resolved[i]
               PROVE  FALSE
    OBVIOUS
  <2>0. UNCHANGED incidentVars => FALSE
    BY DEF incidentVars
  <2>1. PICK q \in Requests : Write(q)
    <3>1. ASSUME NEW a \in Alerts, NEW r \in Rows, Ingest(a, r) PROVE FALSE
      BY <2>0, <3>1 DEF Ingest
    <3>2. ASSUME NEW r \in Rows, NEW j \in Incidents, Triage(r, j) PROVE FALSE
      BY <2>0, <3>2 DEF Triage
    <3>3. PICK q \in Requests : RequestStep(q)
      BY <3>1, <3>2 DEF Next
    <3>4. ASSUME NEW x, NEW to, Decide(q, x, to) \/ Configure(q, x, to) \/ Insert(q, x) PROVE FALSE
      BY <2>0, <3>4 DEF Decide, Configure, Insert
    <3>5. ASSUME NEW j, NEW asked, Create(q, j, asked) PROVE FALSE
      BY <2>0, <3>5 DEF Create
    <3>6. ASSUME NEW r \in Rows, Attach(q, r) PROVE FALSE
      BY <2>0, <3>6 DEF Attach
    <3>7. ~Open(q)
      BY DEF Open
    <3>8. ~Audit(q) /\ ~Fail(q)
      BY <2>0 DEF Audit, Fail
    <3>9. QED
      BY <3>3, <3>4, <3>5, <3>6, <3>7, <3>8
         DEF RequestStep, Submit, CreateRule, Comment, Change, Review, PatchRule, Lockdown
  <2>2. req[q].on = i /\ resolved'[i] = Dated(q)
    BY <2>1 DEF TriageInv, TypeOK, Write
  <2>3. state'[i] = IF req[q].to = "same" THEN state[i] ELSE req[q].to
    BY <2>1, <2>2, Classes DEF TriageInv, TypeOK, Write
  <2>4. resolved[i] # 0 /\ "same" \notin Final
    BY DEF TriageInv, TypeOK, Final
  <2>5. CASE req[q].to = "same"
    BY <2>2, <2>4, <2>5 DEF Dated
  <2>6. CASE req[q].to # "same"
    BY <2>2, <2>3, <2>4, <2>6 DEF Dated
  <2>7. QED  BY <2>5, <2>6
<1>2. QED
  BY <1>1, InvHolds, PTL DEF Spec, ResolutionStands


------------------------------------------------------------------------------
(* The evidence level.                                                     *)

(* Only stored alerts are attached, written or asked for.                  *)
Settled ==
  /\ \A r \in Rows : row[r].inc # NoIncident \/ lock[r] # Free => r \in Stored
  /\ \A q \in Requests : req[q].pc = "attach" => req[q].asked \subseteq Stored \cup {NoRow}

(* What was detected of every stored alert stays.                          *)
AlertsStay == \A r \in Stored : row'[r].alert = row[r].alert

LEMMA SettledInit == Init => Settled
  BY IdleFacts DEF Init, Settled

LEMMA SettledFrame ==
  ASSUME TriageInv, AlertsStay,
         \A r \in Rows : row'[r].inc # NoIncident \/ lock'[r] # Free => r \in Stored,
         \A q \in Requests : req'[q].pc = "attach" => req'[q].asked \subseteq Stored \cup {NoRow}
  PROVE  Settled'
<1>1. Stored \subseteq Stored'
  BY DEF AlertsStay, Stored
<1>2. QED  BY <1>1 DEF Settled

(* A request that begins, and any other step of one.                       *)
LEMMA BeginSettles ==
  ASSUME TriageInv, Settled, NEW q \in Requests, NEW x \in Things,
         NEW step \in {"attach", "write", "audit"}, NEW to, NEW says,
         NEW asked \in SUBSET (Stored \cup {NoRow}), Begin(q, x, step, to, says, asked),
         UNCHANGED <<row, lock>>
  PROVE  Settled' /\ AlertsStay
<1> DEFINE new == [pc |-> step, on |-> x, to |-> to, says |-> says, at |-> clock',
                   asked |-> asked]
<1>1. req' = [req EXCEPT ![q] = new] /\ new.asked = asked
  BY DEF Begin
<1> HIDE DEF new
<1>2. \A p \in Requests : req'[p].asked \in {req[p].asked, asked}
                          /\ (p # q => req'[p] = req[p])
  BY <1>1 DEF TriageInv, TypeOK
<1>3. AlertsStay
  BY DEF AlertsStay
<1>4. \A p \in Requests : req'[p].pc = "attach" => req'[p].asked \subseteq Stored \cup {NoRow}
  <2>1. req'[q].asked = asked
    BY <1>1 DEF TriageInv, TypeOK
  <2>2. QED  BY <1>2, <2>1 DEF Settled
<1>5. QED  BY <1>3, <1>4, SettledFrame DEF Settled

LEMMA StepSettles ==
  ASSUME TriageInv, Settled, NEW q \in Requests, NEW step \in {"idle", "audit"}, NEW x \in Request,
         x.pc = step, req' = [req EXCEPT ![q] = x], UNCHANGED row,
         \A r \in Rows : lock'[r] \in {lock[r], Free}
  PROVE  Settled' /\ AlertsStay
<1>1. req'[q] = x /\ \A p \in Requests \ {q} : req'[p] = req[p]
  BY DEF TriageInv, TypeOK
<1>2. AlertsStay
  BY DEF AlertsStay
<1>3. \A p \in Requests : req'[p].pc = "attach" => req'[p].asked \subseteq Stored \cup {NoRow}
  BY <1>1 DEF Settled
<1>4. \A r \in Rows : row'[r].inc # NoIncident \/ lock'[r] # Free => r \in Stored
  BY DEF Settled
<1>5. QED  BY <1>2, <1>3, <1>4, SettledFrame

LEMMA CommittedIn ==
  ASSUME TriageInv, NEW q \in Requests, Committed(q)
  PROVE  \E x \in Request : x.pc = "audit" /\ req' = [req EXCEPT ![q] = x]
<1> DEFINE new == [Idle EXCEPT !.pc = "audit", !.on = req[q].on, !.says = req[q].says]
<1>1. req[q] \in Request
  BY DEF TriageInv, TypeOK
<1>2. new \in Request /\ new.pc = "audit"
  BY <1>1, IdleFacts DEF Request
<1>3. req' = [req EXCEPT ![q] = new]
  BY DEF Committed
<1>4. QED  BY <1>2, <1>3

LEMMA OpenSettles ==
  ASSUME TriageInv, Settled, NEW q \in Requests, Open(q)
  PROVE  Settled' /\ AlertsStay
<1>1. /\ TypeOK /\ \A r \in Rows : /\ row'[r].alert = row[r].alert
                                   /\ r \notin Held(q) => row'[r] = row[r]
                                   /\ lock'[r] \in {lock[r], Free}
  BY DEF Open, TriageInv, TypeOK
<1>2. \A r \in Held(q) : r \in Stored
  BY TriageAssumption DEF Settled, Held
<1>3. AlertsStay
  BY <1>1 DEF AlertsStay, Stored
<1>4. \A r \in Rows : row'[r].inc # NoIncident \/ lock'[r] # Free => r \in Stored
  BY <1>1, <1>2 DEF Settled
<1>5. PICK x \in Request : x.pc = "audit" /\ req' = [req EXCEPT ![q] = x]
  BY CommittedIn DEF Open
<1>6. \A p \in Requests : req'[p].pc = "attach" => req'[p].asked \subseteq Stored \cup {NoRow}
  BY <1>1, <1>5 DEF Settled, TypeOK
<1>7. QED  BY <1>3, <1>4, <1>6, SettledFrame

LEMMA SettledNext == TriageInv /\ Settled /\ [Next]_vars => Settled' /\ AlertsStay
<1> SUFFICES ASSUME TriageInv, Settled, [Next]_vars PROVE Settled' /\ AlertsStay
  OBVIOUS
<1>0. TypeOK
  BY DEF TriageInv
<1>1. ASSUME NEW a \in Alerts, NEW r \in Rows, Ingest(a, r) PROVE Settled' /\ AlertsStay
  <2>1. /\ \A s \in Rows \ {r} : row'[s] = row[s]
        /\ row'[r].inc = row[r].inc /\ r \notin Stored
    BY <1>0, <1>1 DEF Ingest, TypeOK, Stored
  <2>2. AlertsStay
    BY <2>1 DEF AlertsStay, Stored
  <2>3. QED  BY <1>1, <2>1, <2>2, SettledFrame DEF Settled, Ingest
<1>2. ASSUME NEW r \in Rows, NEW i \in Incidents, Triage(r, i) PROVE Settled' /\ AlertsStay
  <2>1. /\ \A s \in Rows \ {r} : row'[s] = row[s]
        /\ row'[r].alert = row[r].alert /\ r \in Stored
    BY <1>0, <1>2 DEF Triage, TypeOK
  <2>2. AlertsStay
    BY <2>1 DEF AlertsStay, Stored
  <2>3. QED  BY <1>2, <2>1, <2>2, SettledFrame DEF Settled, Triage
<1>3. ASSUME NEW q \in Requests, RequestStep(q) PROVE Settled' /\ AlertsStay
  <2>0. {} \in SUBSET (Stored \cup {NoRow})
    OBVIOUS
  <2>1. ASSUME NEW x \in Things, Insert(q, x) PROVE Settled' /\ AlertsStay
    BY <2>0, <2>1, BeginSettles DEF Insert
  <2>2. ASSUME NEW x \in Things, NEW to, Decide(q, x, to) \/ Configure(q, x, to)
        PROVE  Settled' /\ AlertsStay
    BY <2>0, <2>2, BeginSettles DEF Decide, Configure
  <2>3. ASSUME NEW i \in Incidents, NEW asked \in SUBSET (Rows \cup {NoRow}), Create(q, i, asked)
        PROVE  Settled' /\ AlertsStay
    BY <2>3, BeginSettles, Classes DEF Create
  <2>4. ASSUME NEW r \in Rows, Attach(q, r) PROVE Settled' /\ AlertsStay
    <3>1. /\ \A s \in Rows \ {r} : lock'[s] = lock[s]
          /\ UNCHANGED <<row, req>> /\ r \in Stored
      BY <1>0, <2>4 DEF Attach, TypeOK, Settled
    <3>2. AlertsStay
      BY <3>1 DEF AlertsStay
    <3>3. QED  BY <3>1, <3>2, SettledFrame DEF Settled
  <2>5. ASSUME Open(q) PROVE Settled' /\ AlertsStay
    BY <2>5, OpenSettles
  <2>6. ASSUME Write(q) PROVE Settled' /\ AlertsStay
    <3>1. PICK x \in Request : x.pc = "audit" /\ req' = [req EXCEPT ![q] = x]
      BY <2>6, CommittedIn DEF Write
    <3>2. QED  BY <2>6, <3>1, StepSettles DEF Write
  <2>7. ASSUME Audit(q) \/ Fail(q) PROVE Settled' /\ AlertsStay
    <3>1. /\ req' = [req EXCEPT ![q] = Idle] /\ UNCHANGED row
          /\ \A r \in Rows : lock'[r] \in {lock[r], Free}
      BY <2>7 DEF Audit, Fail
    <3>2. QED  BY <3>1, IdleFacts, StepSettles
  <2>8. QED
    BY <1>3, <2>1, <2>2, <2>3, <2>4, <2>5, <2>6, <2>7
       DEF RequestStep, Submit, CreateRule, Comment, Change, Review, PatchRule, Lockdown
<1>4. CASE UNCHANGED vars
  <2>1. UNCHANGED <<row, lock, req>>
    BY <1>4 DEF vars
  <2>2. AlertsStay
    BY <2>1 DEF AlertsStay
  <2>3. QED  BY <2>1, <2>2, SettledFrame DEF Settled
<1>5. QED
  BY <1>1, <1>2, <1>3, <1>4 DEF Next

(* A page with room for every alert is sent every alert.                   *)
LEMMA WholePage ==
  ASSUME NEW S, IsFiniteSet(S), Cardinality(S) <= PageSize, NEW p \in SUBSET S,
         p = S \/ Cardinality(p) = PageSize
  PROVE  p = S
<1>1. Cardinality(p) <= Cardinality(S) /\ (Cardinality(p) = Cardinality(S) => p = S)
      /\ Cardinality(S) \in Nat /\ PageSize \in Nat
  BY FS_Subset, FS_CardinalityType, TriageAssumption
<1>2. QED  BY <1>1

LEMMA EvidenceStep ==
  ASSUME TriageInv, Settled, AlertsStay, NEW i \in Incidents,
         Attached(i) \subseteq Attached(i)', Cardinality(Attached(i)') <= PageSize,
         NEW p \in Pages(i, PageSize), NEW n \in Pages(i, PageSize)'
  PROVE  EvidenceLevel(p) <= EvidenceLevel(n)'
<1>1. IsFiniteSet(Attached(i)') /\ Cardinality(Attached(i)') \in Nat
      /\ IsFiniteSet(Attached(i)) /\ Cardinality(Attached(i)) <= Cardinality(Attached(i)')
      /\ Cardinality(Attached(i)) \in Nat
  <2>1. Attached(i) \in SUBSET Rows /\ Attached(i)' \in SUBSET Rows
    BY DEF Attached
  <2>2. QED  BY <2>1, FS_Subset, FS_CardinalityType, TriageAssumption
<1>2. p = Attached(i)
  <2>1. p \in SUBSET Attached(i) /\ (p = Attached(i) \/ Cardinality(p) = PageSize)
    BY DEF Pages
  <2>2. Cardinality(Attached(i)) <= PageSize
    BY <1>1, TriageAssumption
  <2>3. QED  BY <1>1, <2>1, <2>2, WholePage
<1>3. n = Attached(i)'
  <2>1. n \in SUBSET Attached(i)' /\ (n = Attached(i)' \/ Cardinality(n) = PageSize)
    BY DEF Pages
  <2>2. QED  BY <1>1, <2>1, WholePage
<1>4. p \subseteq n /\ \A r \in p : row'[r].alert = row[r].alert
  <2>1. \A r \in Attached(i) : r \in Stored
    BY TriageAssumption DEF Attached, Settled
  <2>2. QED  BY <1>2, <1>3, <2>1 DEF AlertsStay
<1> DEFINE c == Corroborated(p)
           d == Corroborated(n)'
           S == Severities(p)
           T == Severities(n)'
<1>5. c => d
  BY <1>4 DEF Corroborated
<1>6. S \subseteq T
  BY <1>4 DEF Severities
<1>7. n = {} => p = {} /\ ~d /\ T = {}
  BY <1>4 DEF Corroborated, Severities
<1>8. p = {} => ~c /\ S = {}
  BY DEF Corroborated, Severities
<1> DEFINE a == EvidenceLevel(p)
           b == EvidenceLevel(n)'
<1>9. /\ p = {} => a = 0
      /\ c /\ ~("CRITICAL" \in S) => a = 3
      /\ c /\ "CRITICAL" \in S => a = 4
      /\ p # {} /\ ~c /\ S \cap {"HIGH", "CRITICAL"} # {} => a = 2
      /\ p # {} /\ ~c /\ S \cap {"HIGH", "CRITICAL"} = {} => a = 1
  <2> HIDE DEF c, S
  <2>1. a = CASE p = {}                       -> 0
              [] c /\ "CRITICAL" \in S        -> 4
              [] c /\ "CRITICAL" \notin S     -> 3
              [] ~c /\ S \cap {"HIGH", "CRITICAL"} # {} -> 2
              [] OTHER                        -> 1
    BY DEF EvidenceLevel, c, S
  <2> HIDE DEF a
  <2>2. QED  BY <1>8, <2>1
<1>10. /\ n = {} => b = 0
       /\ d /\ ~("CRITICAL" \in T) => b = 3
       /\ d /\ "CRITICAL" \in T => b = 4
       /\ n # {} /\ ~d /\ T \cap {"HIGH", "CRITICAL"} # {} => b = 2
       /\ n # {} /\ ~d /\ T \cap {"HIGH", "CRITICAL"} = {} => b = 1
  <2> HIDE DEF d, T
  <2>1. b = CASE n = {}                       -> 0
              [] d /\ "CRITICAL" \in T        -> 4
              [] d /\ "CRITICAL" \notin T     -> 3
              [] ~d /\ T \cap {"HIGH", "CRITICAL"} # {} -> 2
              [] OTHER                        -> 1
    BY DEF EvidenceLevel, d, T
  <2> HIDE DEF b
  <2>2. QED  BY <1>7, <2>1
<1> HIDE DEF c, d, S, T, a, b
<1>11. a <= b
  BY <1>4, <1>5, <1>6, <1>7, <1>9, <1>10
<1>12. QED  BY <1>11 DEF a, b

(* Whatever requests compete for its alerts, an incident that keeps them   *)
(* and shows them all never loses evidence: a stored alert stays as it was *)
(* detected, which only rows without one are given (routes.ts:1353-1373,   *)
(* 1283 and 1453-1469).                                                    *)
THEOREM EvidenceGrows == Spec => EvidenceOnlyGrows
<1>1. TriageInv /\ Settled /\ [Next]_vars =>
        [\A i \in Incidents :
           Attached(i) \subseteq Attached(i)' /\ Cardinality(Attached(i)') <= PageSize =>
             \A p \in Pages(i, PageSize) : \A n \in Pages(i, PageSize)' :
               EvidenceLevel(p) <= EvidenceLevel(n)']_vars
  BY SettledNext, EvidenceStep
<1>2. QED
  BY <1>1, InvHolds, SettledInit, SettledNext, PTL DEF Spec, EvidenceOnlyGrows
=============================================================================

---------------------------- MODULE CapturesProofs ----------------------------
(***************************************************************************)
(* Proofs about Captures, for any number of captures, members, images and  *)
(* requests in flight: types, the retention, the one image a token brings  *)
(* in, and how a member's rate can be passed.                              *)
(***************************************************************************)
EXTENDS Captures, FiniteSetTheorems, TLAPS

(* What is stored or about to be.                                          *)
Known == Stored \cup Pending

(* A transaction that asks for a capture has an identifier of its own,     *)
(* never among the rows it deletes; those it waited for are its own.       *)
AskSound(r) ==
  /\ Asking(r) => req[r].id \in Ids \ Stored /\ req[r].by \in Members
  /\ \A q \in Requests : Asking(r) /\ Asking(q) /\ req[q].id = req[r].id => q = r
  /\ req[r].pc \in {"delete", "insert"} => req[r].id \notin req[r].victims
  /\ req[r].pc = "insert" => \A c \in req[r].victims : c \in Stored /\ lock[c] = r
  /\ req[r].pc \in {"trim", "delete", "insert"} =>
       IsFiniteSet(req[r].counted) /\ Cardinality(req[r].counted) < MaxPerMinute

(* An upload past its SELECT holds a row still PENDING.                    *)
UploadSound(r) ==
  /\ req[r].pc \in {"select", "store"} => req[r].id \in Ids /\ req[r].image \in Images
  /\ req[r].pc = "store" => lock[req[r].id] = r /\ capture[req[r].id].status = "PENDING"

RequestsSound == \A r \in Requests : AskSound(r) /\ UploadSound(r)

(* A strict total order on K, as created_at is on what is known.           *)
Chronology(R, K) ==
  /\ R \subseteq K \X K
  /\ \A c \in K : <<c, c>> \notin R
  /\ \A c, d \in K : c # d => <<c, d>> \in R \/ <<d, c>> \in R
  /\ \A c, d, e \in K : <<c, d>> \in R /\ <<d, e>> \in R => <<c, e>> \in R

(* Requests whose retention has picked its rows but not added one yet, and *)
(* what each will leave.                                                   *)
Trimmed == {r \in Requests : req[r].pc \in {"delete", "insert"}}
Left(r) == Stored \ req[r].victims

(* However the trimmed requests overlap, some one of any of them leaves    *)
(* room for all of these.                                                  *)
RetentionRoom ==
  \A T \in SUBSET Trimmed : T # {} =>
    \E r \in T : Cardinality(Left(r)) <= Retained + Cardinality(Requests) - Cardinality(T)

(* Requests that have counted a member's captures and not added theirs yet:*)
(* with them counted in, the member is within the bound.                   *)
Placing(m) == {r \in Requests : /\ req[r].pc \in {"trim", "delete", "insert"}
                                /\ req[r].by = m}

RateRoom ==
  \A m \in Members :
    Cardinality(Recent(m)) + Cardinality(Placing(m)) <= MaxPerMinute + Cardinality(Requests) - 1

CapturesInv ==
  /\ TypeOK /\ RequestsSound /\ Chronology(older, Known)
  /\ RetentionRoom /\ RetentionHolds /\ RateRoom

------------------------------------------------------------------------------
(* Counting.                                                               *)

LEMMA FewCaptures ==
  ASSUME NEW S \in SUBSET Ids
  PROVE  IsFiniteSet(S) /\ Cardinality(S) \in Nat
  BY CapturesAssumption, FS_Subset, FS_CardinalityType

LEMMA FewRequests ==
  ASSUME NEW T \in SUBSET Requests
  PROVE  /\ IsFiniteSet(T) /\ Cardinality(T) \in Nat
         /\ Cardinality(T) <= Cardinality(Requests) /\ Cardinality(Requests) \in Nat
  BY CapturesAssumption, FS_Subset, FS_CardinalityType

LEMMA Fewer ==
  ASSUME NEW S \in SUBSET Ids, NEW T \in SUBSET S
  PROVE  Cardinality(T) <= Cardinality(S)
  BY FewCaptures, FS_Subset

LEMMA OneMore ==
  ASSUME NEW S \in SUBSET Ids, NEW c \in Ids, NEW T \in SUBSET (S \cup {c})
  PROVE  Cardinality(T) <= Cardinality(S) + 1
<1>1. IsFiniteSet(S) /\ Cardinality(S) \in Nat
  BY FewCaptures
<1>2. Cardinality(S \cup {c}) <= Cardinality(S) + 1
  BY <1>1, FS_AddElement
<1>3. Cardinality(T) <= Cardinality(S \cup {c})
  BY Fewer
<1>4. Cardinality(T) \in Nat /\ Cardinality(S \cup {c}) \in Nat
  BY FewCaptures
<1>5. QED  BY <1>1, <1>2, <1>3, <1>4

(* In a strict total order at most n elements have fewer than n after them.*)
LEMMA FewRecent ==
  ASSUME Chronology(older, Known), Stored \subseteq Ids, NEW n \in Nat
  PROVE  Cardinality(Stored \ Beyond(n)) <= n
<1> DEFINE K == Stored \ Beyond(n)
           rank == [c \in K |-> Cardinality(Newer(c))]
<1>1. \A c \in Stored : Newer(c) \in SUBSET Ids /\ Cardinality(Newer(c)) \in Nat
  BY FewCaptures DEF Newer
<1>2. \A c \in K : Cardinality(Newer(c)) \in 0..(n - 1)
  BY <1>1 DEF Beyond
<1>3. ASSUME NEW c \in Stored, NEW d \in Stored, <<c, d>> \in older
      PROVE  Cardinality(Newer(c)) # Cardinality(Newer(d))
  <2>1. Newer(d) \in SUBSET Newer(c)
    BY <1>3 DEF Newer, Chronology, Known
  <2>2. d \in Newer(c) /\ d \notin Newer(d)
    BY <1>3 DEF Newer, Chronology, Known
  <2>3. IsFiniteSet(Newer(c))
    BY FewCaptures DEF Newer
  <2>4. QED  BY <2>1, <2>2, <2>3, FS_Subset
<1>4. rank \in Injection(K, 0..(n - 1))
  <2>1. rank \in [K -> 0..(n - 1)]
    BY <1>2
  <2>2. \A c, d \in K : rank[c] = rank[d] => c = d
    BY <1>3 DEF Chronology, Known
  <2>3. QED  BY <2>1, <2>2 DEF Injection, IsInjective
<1>5. IsFiniteSet(0..(n - 1)) /\ Cardinality(0..(n - 1)) = n
  <2>1. 0 \in Int /\ n - 1 \in Int
    OBVIOUS
  <2>2. /\ IsFiniteSet(0..(n - 1))
        /\ Cardinality(0..(n - 1)) = IF 0 > n - 1 THEN 0 ELSE (n - 1) - 0 + 1
    BY <2>1, FS_Interval
  <2>3. QED  BY <2>2
<1>6. Cardinality(K) <= Cardinality(0..(n - 1))
  BY <1>4, <1>5, FS_Injection
<1>7. QED  BY <1>5, <1>6

------------------------------------------------------------------------------
(* Chronology.                                                             *)

LEMMA Restricted ==
  ASSUME NEW R, NEW K, NEW G, Chronology(R, K)
  PROVE  Chronology({p \in R : p[1] \notin G /\ p[2] \notin G}, K \ G)
  BY DEF Chronology

LEMMA Extended ==
  ASSUME NEW R, NEW K, NEW c, c \notin K, Chronology(R, K)
  PROVE  Chronology(R \cup {<<d, c>> : d \in K}, K \cup {c})
  BY DEF Chronology

------------------------------------------------------------------------------
(* Types.                                                                  *)

LEMMA BlankType ==
  /\ Idle \in Request /\ NoRow \in Row
  /\ Idle.pc = "idle" /\ Idle.id = None /\ NoRow.status = "none"
  BY DEF Idle, Request, NoRow, Row, Steps

LEMMA ReleasedType ==
  ASSUME TypeOK, NEW r \in Requests
  PROVE  /\ Released(r) \in [Ids -> Requests \cup {Free}]
         /\ \A c \in Ids : Released(r)[c] = IF lock[c] = r THEN Free ELSE lock[c]
  BY DEF TypeOK, Released

LEMMA ReceivedType ==
  ASSUME NEW y \in Row, NEW x \in Images
  PROVE  [y EXCEPT !.status = "RECEIVED", !.image = x] \in Row
  BY DEF Row

LEMMA CountedType ==
  ASSUME NEW y \in Request, NEW S \in SUBSET Ids
  PROVE  [y EXCEPT !.pc = "trim", !.counted = S] \in Request
  BY DEF Request, Steps

LEMMA CapturesTypeStep == TypeOK /\ RequestsSound /\ [Next]_vars => TypeOK'
<1> SUFFICES ASSUME TypeOK, RequestsSound, [Next]_vars PROVE TypeOK'
  OBVIOUS
<1>1. ASSUME NEW r \in Requests, NEW m \in Members, NEW c \in Ids, Ask(r, m, c) PROVE TypeOK'
  <2>1. [Idle EXCEPT !.pc = "count", !.id = c, !.by = m] \in Request
    BY BlankType DEF Request, Steps
  <2>2. Stored \cup Pending \subseteq Ids
    BY DEF Stored, Pending, RequestsSound, AskSound
  <2>3. QED  BY <1>1, <2>1, <2>2 DEF TypeOK, Ask
<1>2. ASSUME NEW r \in Requests, Count(r) PROVE TypeOK'
  <2>1. Recent(req[r].by) \subseteq Ids
    BY DEF Recent, Stored
  <2>2. req' \in [Requests -> Request]
    <3> DEFINE x == [req[r] EXCEPT !.pc = "trim", !.counted = Recent(req[r].by)]
    <3>1. x \in Request
      BY <2>1, CountedType DEF TypeOK
    <3>2. req' = [req EXCEPT ![r] = Idle] \/ req' = [req EXCEPT ![r] = x]
      BY <1>2 DEF Count, Finish
    <3>3. QED  BY <3>1, <3>2, BlankType DEF TypeOK
  <2>3. older' \subseteq older
    BY <1>2 DEF Count, Forget, Without
  <2>4. QED  BY <1>2, <2>2, <2>3 DEF TypeOK, Count
<1>3. ASSUME NEW r \in Requests, Trim(r) PROVE TypeOK'
  <2>1. PICK old \in SUBSET {c \in Stored : ~capture[c].recent /\ ~capture[c].live} :
          req' = [req EXCEPT ![r] = [@ EXCEPT !.pc = "delete", !.victims = Beyond(Retained) \cup old]]
    BY <1>3 DEF Trim
  <2> DEFINE x == [req[r] EXCEPT !.pc = "delete", !.victims = Beyond(Retained) \cup old]
  <2>2. x \in Request
    BY DEF TypeOK, Request, Steps, Beyond, Stored
  <2>3. QED  BY <1>3, <2>1, <2>2 DEF TypeOK, Trim
<1>4. ASSUME NEW r \in Requests, Purge(r) PROVE TypeOK'
  <2> DEFINE gone == req[r].victims \cap Stored
             x == [req[r] EXCEPT !.pc = "insert", !.victims = gone]
  <2>1. x \in Request
    BY DEF TypeOK, Request, Steps, Stored
  <2>2. /\ req' = [req EXCEPT ![r] = x] /\ UNCHANGED <<capture, older>>
        /\ lock' = [c \in Ids |-> IF c \in gone THEN r ELSE lock[c]]
    BY <1>4 DEF Purge
  <2>3. QED  BY <2>1, <2>2 DEF TypeOK
<1>5. ASSUME NEW r \in Requests, Insert(r) PROVE TypeOK'
  <2>1. [status |-> "PENDING", by |-> req[r].by, recent |-> TRUE, live |-> TRUE,
         image |-> None] \in Row
    BY <1>5 DEF Insert, Row, RequestsSound, AskSound, Asking
  <2>2. req[r].id \notin req[r].victims
    BY <1>5 DEF Insert, RequestsSound, AskSound
  <2>3. capture' \in [Ids -> Row]
    BY <1>5, <2>1, <2>2, BlankType DEF Insert, TypeOK
  <2>4. older' \subseteq older
    BY <1>5 DEF Insert, Without
  <2>5. QED  BY <1>5, <2>3, <2>4, BlankType, ReleasedType DEF TypeOK, Insert, Finish
<1>6. ASSUME NEW r \in Requests, NEW c \in Ids, NEW x \in Images, Upload(r, c, x) PROVE TypeOK'
  <2>1. [Idle EXCEPT !.pc = "select", !.id = c, !.image = x, !.inTime = capture[c].live] \in Request
    BY BlankType DEF Request, Steps, TypeOK, Row
  <2>2. QED  BY <1>6, <2>1 DEF TypeOK, Upload
<1>7. ASSUME NEW r \in Requests, Select(r) PROVE TypeOK'
  BY <1>7, BlankType DEF TypeOK, Select, Finish, Request, Steps
<1>8. ASSUME NEW r \in Requests, Store(r) PROVE TypeOK'
  <2>1. req[r].image \in Images
    BY <1>8 DEF Store, RequestsSound, UploadSound
  <2> DEFINE c == req[r].id
             x == [capture[c] EXCEPT !.status = "RECEIVED", !.image = req[r].image]
  <2>2. capture' \in [Ids -> Row]
    <3>1. c \in Stored => x \in Row
      BY <2>1, ReceivedType DEF TypeOK, Stored
    <3>2. capture' = IF c \in Stored THEN [capture EXCEPT ![c] = x] ELSE capture
      BY <1>8 DEF Store
    <3>3. QED  BY <3>1, <3>2 DEF TypeOK
  <2>3. QED  BY <1>8, <2>2, BlankType, ReleasedType DEF TypeOK, Store, Finish
<1>9. ASSUME NEW r \in Requests, Fail(r) PROVE TypeOK'
  <2>1. older' \subseteq older
    BY <1>9 DEF Fail, Forget, Without
  <2>2. QED  BY <1>9, <2>1, BlankType, ReleasedType DEF TypeOK, Fail, Finish
<1>10. ASSUME NEW c \in Ids, Delete(c) PROVE TypeOK'
  <2>1. older' \subseteq older
    BY <1>10 DEF Delete, Forget, Without
  <2>2. QED  BY <1>10, <2>1, BlankType DEF TypeOK, Delete
<1>11. ASSUME NEW c \in Ids, Age(c) PROVE TypeOK'
  <2>1. PICK flag \in {"recent", "live"} : capture' = [capture EXCEPT ![c][flag] = FALSE]
    BY <1>11 DEF Age
  <2> DEFINE x == [capture[c] EXCEPT ![flag] = FALSE]
  <2>2. x \in Row
    BY DEF TypeOK, Row
  <2>3. QED  BY <1>11, <2>1, <2>2 DEF TypeOK, Age
<1>12. CASE UNCHANGED vars
  BY <1>12 DEF vars, TypeOK
<1>13. QED
  BY <1>1, <1>2, <1>3, <1>4, <1>5, <1>6, <1>7, <1>8, <1>9, <1>10, <1>11, <1>12 DEF Next

------------------------------------------------------------------------------
(* Requests.                                                               *)

(* What a request knows outlives a step of another that leaves its rows.   *)
LEMMA KeptAsk ==
  ASSUME NEW q \in Requests, AskSound(q), req'[q] = req[q],
         Asking(q) => req[q].id \notin Stored',
         \A p \in Requests \ {q} : Asking(p)' =>
           (Asking(p) /\ req'[p].id = req[p].id) \/ req'[p].id # req[q].id,
         \A c \in Ids : c \in Stored /\ lock[c] = q => c \in Stored' /\ lock'[c] = q,
         TypeOK
  PROVE  AskSound(q)'
<1>1. Asking(q)' = Asking(q)
  BY DEF Asking
<1>2. (\A p \in Requests : Asking(q) /\ Asking(p) /\ req[p].id = req[q].id => p = q)'
  BY <1>1 DEF AskSound
<1>3. req[q].victims \subseteq Ids
  BY DEF TypeOK, Request
<1>4. req'[q].pc = "insert" => \A c \in req'[q].victims : c \in Stored' /\ lock'[c] = q
  BY <1>3 DEF AskSound
<1>5. QED  BY <1>1, <1>2, <1>4 DEF AskSound

LEMMA KeptUpload ==
  ASSUME NEW q \in Requests, UploadSound(q), req'[q] = req[q], TypeOK,
         \A c \in Ids : capture[c].status = "PENDING" /\ lock[c] = q =>
                          capture'[c].status = "PENDING" /\ lock'[c] = q
  PROVE  UploadSound(q)'
  BY DEF UploadSound

(* A request at rest owes nothing.                                         *)
LEMMA IdleSound ==
  ASSUME NEW q \in Requests, req'[q] = Idle
  PROVE  AskSound(q)' /\ UploadSound(q)'
  BY BlankType DEF AskSound, UploadSound, Asking

(* A step of r that takes no identifier and no locked row of another       *)
(* request leaves what the others know.                                    *)
LEMMA OthersKept ==
  ASSUME NEW r \in Requests, TypeOK, RequestsSound,
         \A q \in Requests \ {r} : req'[q] = req[q],
         \A q \in Requests \ {r} : Asking(q) => req[q].id \notin Stored',
         Asking(r)' => \/ Asking(r) /\ req'[r].id = req[r].id
                       \/ \A q \in Requests \ {r} : req'[r].id # req[q].id,
         \A q \in Requests \ {r}, c \in Ids : c \in Stored /\ lock[c] = q =>
           lock'[c] = q /\ capture'[c].status = capture[c].status
  PROVE  \A q \in Requests \ {r} : AskSound(q)' /\ UploadSound(q)'
<1> SUFFICES ASSUME NEW q \in Requests \ {r} PROVE AskSound(q)' /\ UploadSound(q)'
  OBVIOUS
<1>1. AskSound(q) /\ UploadSound(q)
  BY DEF RequestsSound
<1>2. \A c \in Ids : c \in Stored /\ lock[c] = q => c \in Stored' /\ lock'[c] = q
  BY DEF Stored
<1>3. \A p \in Requests \ {q} : Asking(p)' =>
        (Asking(p) /\ req'[p].id = req[p].id) \/ req'[p].id # req[q].id
  BY DEF Asking
<1>4. \A c \in Ids : capture[c].status = "PENDING" /\ lock[c] = q =>
                      capture'[c].status = "PENDING" /\ lock'[c] = q
  BY DEF Stored
<1>5. AskSound(q)'
  BY <1>1, <1>2, <1>3, KeptAsk
<1>6. UploadSound(q)'
  BY <1>1, <1>4, KeptUpload
<1>7. QED  BY <1>5, <1>6

(* What is stored after the captures have changed.                         *)
LEMMA SameStored ==
  ASSUME \A c \in Ids : capture'[c].status = "none" <=> capture[c].status = "none"
  PROVE  Stored' = Stored
  BY DEF Stored

LEMMA InsertFacts ==
  ASSUME TypeOK, RequestsSound, NEW r \in Requests, Insert(r)
  PROVE  /\ Stored' = (Stored \ req[r].victims) \cup {req[r].id}
         /\ req[r].id \in Ids \ Stored /\ req[r].victims \subseteq Stored
         /\ \A c \in Ids : c \in req[r].victims => capture'[c] = NoRow /\ lock[c] = r
         /\ \A c \in Ids : c \notin req[r].victims /\ c # req[r].id => capture'[c] = capture[c]
         /\ capture'[req[r].id].status = "PENDING" /\ capture'[req[r].id].by = req[r].by
         /\ req' = [req EXCEPT ![r] = Idle] /\ lock' = Released(r)
         /\ older' = Without(req[r].victims)
<1>1. /\ req[r].id \in Ids \ Stored /\ req[r].id \notin req[r].victims
      /\ \A c \in req[r].victims : c \in Stored /\ lock[c] = r
  BY DEF Insert, RequestsSound, AskSound, Asking
<1>2. /\ \A c \in Ids : c \in req[r].victims => capture'[c] = NoRow
      /\ \A c \in Ids : c \notin req[r].victims /\ c # req[r].id => capture'[c] = capture[c]
      /\ capture'[req[r].id].status = "PENDING" /\ capture'[req[r].id].by = req[r].by
  BY <1>1 DEF Insert
<1>3. Stored' = (Stored \ req[r].victims) \cup {req[r].id}
  BY <1>1, <1>2, BlankType DEF Stored
<1>4. QED  BY <1>1, <1>2, <1>3 DEF Insert, Finish

LEMMA SoundStep == TypeOK /\ TypeOK' /\ RequestsSound /\ [Next]_vars => RequestsSound'
<1> SUFFICES ASSUME TypeOK, TypeOK', RequestsSound, [Next]_vars PROVE RequestsSound'
  OBVIOUS
<1>each. ASSUME NEW r \in Requests, AskSound(r)' /\ UploadSound(r)',
                \A q \in Requests \ {r} : AskSound(q)' /\ UploadSound(q)'
         PROVE  RequestsSound'
  BY <1>each DEF RequestsSound
<1>1. ASSUME NEW r \in Requests, NEW m \in Members, NEW c \in Ids, Ask(r, m, c)
      PROVE RequestsSound'
  <2>1. /\ req' = [req EXCEPT ![r] = [Idle EXCEPT !.pc = "count", !.id = c, !.by = m]]
        /\ UNCHANGED <<capture, lock>> /\ c \notin Stored /\ req[r].pc = "idle"
        /\ \A q \in Requests : req[q].id # c
    BY <1>1 DEF Ask
  <2>2. /\ req'[r].pc = "count" /\ req'[r].id = c /\ req'[r].by = m
        /\ \A q \in Requests \ {r} : req'[q] = req[q]
    BY <2>1 DEF TypeOK, Idle
  <2>3. Stored' = Stored
    BY <2>1, SameStored
  <2>4. AskSound(r)' /\ UploadSound(r)'
    BY <2>1, <2>2, <2>3 DEF AskSound, UploadSound, Asking
  <2>5. \A q \in Requests \ {r} : AskSound(q)' /\ UploadSound(q)'
    BY <2>1, <2>2, <2>3, OthersKept DEF RequestsSound, AskSound
  <2>6. QED  BY <2>4, <2>5, <1>each
<1>2. ASSUME NEW r \in Requests, Count(r) PROVE RequestsSound'
  <2> DEFINE mine == Recent(req[r].by)
  <2>1. /\ UNCHANGED <<capture, lock>> /\ req[r].pc = "count"
        /\ \/ req' = [req EXCEPT ![r] = Idle]
           \/ /\ req' = [req EXCEPT ![r] = [@ EXCEPT !.pc = "trim", !.counted = mine]]
              /\ ~(Cardinality(mine) >= MaxPerMinute)
    BY <1>2 DEF Count, Finish
  <2>2. Stored' = Stored
    BY <2>1, SameStored
  <2>3. /\ \A q \in Requests \ {r} : req'[q] = req[q]
        /\ \/ req'[r] = Idle
           \/ /\ req'[r].pc = "trim" /\ req'[r].id = req[r].id /\ req'[r].by = req[r].by
              /\ req'[r].counted = mine /\ ~(Cardinality(mine) >= MaxPerMinute)
    <3> DEFINE x == [req[r] EXCEPT !.pc = "trim", !.counted = mine]
    <3>1. x.pc = "trim" /\ x.id = req[r].id /\ x.by = req[r].by /\ x.counted = mine
      <4>1. req[r] \in Request
        BY DEF TypeOK
      <4> HIDE DEF mine
      <4>2. QED  BY <4>1 DEF Request
    <3> HIDE DEF x, mine
    <3>2. req \in [Requests -> Request]
      BY DEF TypeOK
    <3>3. \/ req' = [req EXCEPT ![r] = Idle]
          \/ req' = [req EXCEPT ![r] = x] /\ ~(Cardinality(mine) >= MaxPerMinute)
      BY <2>1 DEF x
    <3>4. QED  BY <3>1, <3>2, <3>3
  <2>4. Asking(r) /\ (Asking(r)' => req'[r].id = req[r].id)
    BY <2>1, <2>3, BlankType DEF Asking
  <2>5. IsFiniteSet(mine) /\ Cardinality(mine) \in Nat /\ MaxPerMinute \in Nat
    BY FewCaptures, CapturesAssumption DEF Recent, Stored
  <2>6. AskSound(r)' /\ UploadSound(r)'
    <3>1. CASE req'[r] = Idle
      BY <3>1, IdleSound
    <3>2. CASE req'[r] # Idle
      <4>1. /\ req'[r].pc = "trim" /\ req'[r].id = req[r].id /\ req'[r].by = req[r].by
            /\ IsFiniteSet(req'[r].counted) /\ Cardinality(req'[r].counted) < MaxPerMinute
        BY <3>2, <2>3, <2>5
      <4>2. \A q \in Requests : Asking(q)' => Asking(q) /\ req'[q].id = req[q].id
        BY <2>3, <2>4 DEF Asking
      <4>3. AskSound(r)'
        BY <4>1, <4>2, <2>2, <2>4 DEF RequestsSound, AskSound
      <4>4. QED  BY <4>1, <4>3 DEF UploadSound
    <3>3. QED  BY <3>1, <3>2
  <2>7. \A q \in Requests \ {r} : AskSound(q)' /\ UploadSound(q)'
    BY <2>1, <2>2, <2>3, <2>4, OthersKept DEF RequestsSound, AskSound
  <2>8. QED  BY <2>6, <2>7, <1>each
<1>3. ASSUME NEW r \in Requests, Trim(r) PROVE RequestsSound'
  <2>1. PICK old \in SUBSET Stored :
          req' = [req EXCEPT ![r] = [@ EXCEPT !.pc = "delete", !.victims = Beyond(Retained) \cup old]]
    BY <1>3 DEF Trim
  <2>2. UNCHANGED <<capture, older, lock>> /\ req[r].pc = "trim"
    BY <1>3 DEF Trim
  <2>3. Stored' = Stored
    BY <2>2, SameStored
  <2>4. /\ \A q \in Requests \ {r} : req'[q] = req[q]
        /\ req'[r].pc = "delete" /\ req'[r].id = req[r].id /\ req'[r].by = req[r].by
        /\ req'[r].counted = req[r].counted /\ req'[r].victims \subseteq Stored
    BY <2>1 DEF TypeOK, Request, Beyond
  <2>5. \A q \in Requests : Asking(q)' => Asking(q) /\ req'[q].id = req[q].id
    BY <2>2, <2>4 DEF Asking
  <2>6. AskSound(r)' /\ UploadSound(r)'
    <3>1. Asking(r)
      BY <2>2 DEF Asking
    <3>2. AskSound(r)'
      BY <3>1, <2>2, <2>3, <2>4, <2>5 DEF RequestsSound, AskSound
    <3>3. QED  BY <2>4, <3>2 DEF UploadSound
  <2>7. \A q \in Requests \ {r} : AskSound(q)' /\ UploadSound(q)'
    BY <2>2, <2>3, <2>4, <2>5, OthersKept DEF RequestsSound, AskSound
  <2>8. QED  BY <2>6, <2>7, <1>each
<1>4. ASSUME NEW r \in Requests, Purge(r) PROVE RequestsSound'
  <2> DEFINE gone == req[r].victims \cap Stored
  <2>1. /\ req[r].pc = "delete" /\ \A c \in gone : lock[c] = Free
        /\ lock' = [c \in Ids |-> IF c \in gone THEN r ELSE lock[c]]
        /\ req' = [req EXCEPT ![r] = [@ EXCEPT !.pc = "insert", !.victims = gone]]
        /\ UNCHANGED <<capture, older>>
    BY <1>4 DEF Purge
  <2>2. Stored' = Stored /\ gone \subseteq Ids
    BY <2>1, SameStored DEF Stored
  <2>3. /\ \A q \in Requests \ {r} : req'[q] = req[q]
        /\ req'[r].pc = "insert" /\ req'[r].id = req[r].id /\ req'[r].by = req[r].by
        /\ req'[r].counted = req[r].counted /\ req'[r].victims = gone
    BY <2>1 DEF TypeOK, Request
  <2>4. \A q \in Requests : Asking(q)' => Asking(q) /\ req'[q].id = req[q].id
    BY <2>1, <2>3 DEF Asking
  <2>5. AskSound(r)' /\ UploadSound(r)'
    <3>1. Asking(r)
      BY <2>1 DEF Asking
    <3>2. \A c \in gone : c \in Stored' /\ lock'[c] = r
      BY <2>1, <2>2
    <3>3. AskSound(r)'
      BY <3>1, <3>2, <2>1, <2>2, <2>3, <2>4 DEF RequestsSound, AskSound
    <3>4. QED  BY <2>3, <3>3 DEF UploadSound
  <2>6. \A q \in Requests \ {r}, c \in Ids : c \in Stored /\ lock[c] = q =>
          lock'[c] = q /\ capture'[c].status = capture[c].status
    BY <2>1, CapturesAssumption
  <2>7. \A q \in Requests \ {r} : AskSound(q)' /\ UploadSound(q)'
    BY <2>2, <2>3, <2>4, <2>6, OthersKept DEF RequestsSound, AskSound
  <2>8. QED  BY <2>5, <2>7, <1>each
<1>5. ASSUME NEW r \in Requests, Insert(r) PROVE RequestsSound'
  <2>1. req'[r] = Idle /\ \A q \in Requests \ {r} : req'[q] = req[q]
    BY <1>5, InsertFacts DEF TypeOK
  <2>2. AskSound(r)' /\ UploadSound(r)' /\ ~Asking(r)'
    BY <2>1, IdleSound, BlankType DEF Asking
  <2>3. Asking(r)
    BY <1>5 DEF Insert, Asking
  <2>4. \A q \in Requests \ {r} : Asking(q) => req[q].id \notin Stored'
    BY <1>5, <2>3, InsertFacts DEF RequestsSound, AskSound
  <2>5. \A q \in Requests \ {r}, c \in Ids : c \in Stored /\ lock[c] = q =>
          lock'[c] = q /\ capture'[c].status = capture[c].status
    BY <1>5, InsertFacts, ReleasedType
  <2>6. \A q \in Requests \ {r} : AskSound(q)' /\ UploadSound(q)'
    BY <2>1, <2>2, <2>4, <2>5, OthersKept
  <2>7. QED  BY <2>2, <2>6, <1>each
<1>6. ASSUME NEW r \in Requests, NEW c \in Ids, NEW x \in Images, Upload(r, c, x)
      PROVE RequestsSound'
  <2>1. /\ req' = [req EXCEPT ![r] = [Idle EXCEPT !.pc = "select", !.id = c, !.image = x,
                                                  !.inTime = capture[c].live]]
        /\ UNCHANGED <<capture, older, lock>>
    BY <1>6 DEF Upload
  <2>2. /\ \A q \in Requests \ {r} : req'[q] = req[q]
        /\ req'[r].pc = "select" /\ req'[r].id = c /\ req'[r].image = x
    BY <2>1 DEF TypeOK, Idle
  <2>3. Stored' = Stored /\ ~Asking(r)'
    BY <2>1, <2>2, SameStored DEF Asking
  <2>4. AskSound(r)' /\ UploadSound(r)'
    BY <2>2, <2>3 DEF AskSound, UploadSound
  <2>5. \A q \in Requests \ {r} : AskSound(q)' /\ UploadSound(q)'
    BY <2>1, <2>2, <2>3, OthersKept DEF RequestsSound, AskSound
  <2>6. QED  BY <2>4, <2>5, <1>each
<1>7. ASSUME NEW r \in Requests, Select(r) PROVE RequestsSound'
  <2> DEFINE c == req[r].id
  <2>1. /\ req[r].pc = "select" /\ lock[c] = Free /\ UNCHANGED <<capture, older>>
        /\ \/ /\ capture[c].status = "PENDING" /\ lock' = [lock EXCEPT ![c] = r]
              /\ req' = [req EXCEPT ![r].pc = "store"]
           \/ req' = [req EXCEPT ![r] = Idle] /\ lock' = lock
    BY <1>7 DEF Select, Finish
  <2>2. c \in Ids /\ req[r].image \in Images
    BY <2>1 DEF RequestsSound, UploadSound
  <2>3. /\ \A q \in Requests \ {r} : req'[q] = req[q]
        /\ \/ req'[r] = Idle
           \/ /\ req'[r].pc = "store" /\ req'[r].id = c /\ req'[r].image = req[r].image
              /\ capture'[c].status = "PENDING" /\ lock'[c] = r
    BY <2>1, <2>2 DEF TypeOK, Request
  <2>4. Stored' = Stored /\ ~Asking(r)'
    BY <2>1, <2>3, SameStored, BlankType DEF Asking
  <2>5. AskSound(r)' /\ UploadSound(r)'
    <3>1. CASE req'[r] = Idle
      BY <3>1, IdleSound
    <3>2. CASE req'[r] # Idle
      BY <3>2, <2>2, <2>3, <2>4 DEF AskSound, UploadSound
    <3>3. QED  BY <3>1, <3>2
  <2>6. \A q \in Requests \ {r}, d \in Ids : d \in Stored /\ lock[d] = q =>
          lock'[d] = q /\ capture'[d].status = capture[d].status
    BY <2>1, <2>2, CapturesAssumption DEF TypeOK
  <2>7. \A q \in Requests \ {r} : AskSound(q)' /\ UploadSound(q)'
    BY <2>3, <2>4, <2>6, OthersKept DEF RequestsSound, AskSound
  <2>8. QED  BY <2>5, <2>7, <1>each
<1>8. ASSUME NEW r \in Requests, Store(r) PROVE RequestsSound'
  <2> DEFINE c == req[r].id
  <2>1. /\ req[r].pc = "store" /\ lock' = Released(r)
        /\ req' = [req EXCEPT ![r] = Idle]
    BY <1>8 DEF Store, Finish
  <2>2. c \in Ids /\ lock[c] = r /\ capture[c].status = "PENDING" /\ c \in Stored
    BY <2>1 DEF RequestsSound, UploadSound, Stored
  <2>3. /\ \A d \in Ids \ {c} : capture'[d] = capture[d]
        /\ capture'[c].status = "RECEIVED"
    BY <1>8, <2>2 DEF Store, TypeOK, Row
  <2>4. Stored' = Stored
    BY <2>2, <2>3 DEF Stored
  <2>5. req'[r] = Idle /\ \A q \in Requests \ {r} : req'[q] = req[q]
    BY <2>1 DEF TypeOK
  <2>6. AskSound(r)' /\ UploadSound(r)' /\ ~Asking(r)'
    BY <2>5, IdleSound, BlankType DEF Asking
  <2>7. \A q \in Requests \ {r}, d \in Ids : d \in Stored /\ lock[d] = q =>
          lock'[d] = q /\ capture'[d].status = capture[d].status
    BY <2>1, <2>2, <2>3, ReleasedType
  <2>8. \A q \in Requests \ {r} : AskSound(q)' /\ UploadSound(q)'
    BY <2>4, <2>5, <2>6, <2>7, OthersKept DEF RequestsSound, AskSound
  <2>9. QED  BY <2>6, <2>8, <1>each
<1>9. ASSUME NEW r \in Requests, Fail(r) PROVE RequestsSound'
  <2>1. /\ UNCHANGED capture /\ lock' = Released(r) /\ req' = [req EXCEPT ![r] = Idle]
    BY <1>9 DEF Fail, Finish
  <2>2. Stored' = Stored
    BY <2>1, SameStored
  <2>3. req'[r] = Idle /\ \A q \in Requests \ {r} : req'[q] = req[q]
    BY <2>1 DEF TypeOK
  <2>4. AskSound(r)' /\ UploadSound(r)' /\ ~Asking(r)'
    BY <2>3, IdleSound, BlankType DEF Asking
  <2>5. \A q \in Requests \ {r}, d \in Ids : d \in Stored /\ lock[d] = q =>
          lock'[d] = q /\ capture'[d].status = capture[d].status
    BY <2>1, ReleasedType
  <2>6. \A q \in Requests \ {r} : AskSound(q)' /\ UploadSound(q)'
    BY <2>2, <2>3, <2>4, <2>5, OthersKept DEF RequestsSound, AskSound
  <2>7. QED  BY <2>4, <2>6, <1>each
<1>10. ASSUME UNCHANGED <<lock, req>>, NEW c \in Ids,
              \A d \in Ids \ {c} : capture'[d] = capture[d],
              Stored' \subseteq Stored,
              lock[c] = Free \/ capture'[c].status = capture[c].status
       PROVE  RequestsSound'
  <2>1. \A d \in Ids, q \in Requests : lock[d] = q =>
          lock'[d] = q /\ capture'[d].status = capture[d].status
    BY <1>10, CapturesAssumption
  <2>2. SUFFICES ASSUME NEW q \in Requests PROVE AskSound(q)' /\ UploadSound(q)'
    BY DEF RequestsSound
  <2>3. AskSound(q) /\ UploadSound(q) /\ req' = req
    BY <1>10 DEF RequestsSound
  <2>4. \A d \in Ids : d \in Stored /\ lock[d] = q => d \in Stored' /\ lock'[d] = q
    BY <2>1 DEF Stored
  <2>5. AskSound(q)'
    BY <1>10, <2>3, <2>4, KeptAsk DEF AskSound, Asking
  <2>6. UploadSound(q)'
    BY <2>1, <2>3, KeptUpload
  <2>7. QED  BY <2>5, <2>6
<1>11. ASSUME NEW c \in Ids, Delete(c) PROVE RequestsSound'
  <2>1. /\ lock[c] = Free /\ capture' = [capture EXCEPT ![c] = NoRow] /\ UNCHANGED <<lock, req>>
    BY <1>11 DEF Delete
  <2>2. Stored' \subseteq Stored /\ \A d \in Ids \ {c} : capture'[d] = capture[d]
    BY <2>1, BlankType DEF Stored, TypeOK
  <2>3. QED  BY <2>1, <2>2, <1>10
<1>12. ASSUME NEW c \in Ids, Age(c) PROVE RequestsSound'
  <2>1. PICK flag \in {"recent", "live"} : capture' = [capture EXCEPT ![c][flag] = FALSE]
    BY <1>12 DEF Age
  <2> DEFINE x == [capture[c] EXCEPT ![flag] = FALSE]
  <2>0. x.status = capture[c].status
    BY DEF TypeOK, Row
  <2>2. UNCHANGED <<lock, req>> /\ \A d \in Ids : capture'[d].status = capture[d].status
    <3>1. capture' = [capture EXCEPT ![c] = x]
      BY <2>1
    <3> HIDE DEF x
    <3>2. QED  BY <1>12, <2>0, <3>1 DEF Age, TypeOK
  <2>3. Stored' = Stored /\ \A d \in Ids \ {c} : capture'[d] = capture[d]
    BY <2>1, <2>2, SameStored DEF TypeOK
  <2>4. QED  BY <2>2, <2>3, <1>10
<1>13. CASE UNCHANGED vars
  BY <1>13 DEF vars, RequestsSound, AskSound, UploadSound, Asking, Stored
<1>14. QED
  BY <1>1, <1>2, <1>3, <1>4, <1>5, <1>6, <1>7, <1>8, <1>9, <1>11, <1>12, <1>13 DEF Next

------------------------------------------------------------------------------
(* The order of what is known.                                             *)

(* What is known, and the order of it, with some of it gone or none.       *)
LEMMA ChronologyKept ==
  ASSUME Chronology(older, Known), NEW G, older' = Without(G), Known' = Known \ G
  PROVE  Chronology(older, Known)'
<1>1. Chronology(Without(G), Known \ G)
  BY Restricted DEF Without
<1>2. QED  BY <1>1 DEF Chronology

LEMMA ChronologySame ==
  ASSUME Chronology(older, Known), older' = older, Known' = Known
  PROVE  Chronology(older, Known)'
  BY DEF Chronology

(* The identifiers asked for after a step of one request.                  *)
LEMMA PendingOfOthers ==
  ASSUME NEW r \in Requests, \A q \in Requests \ {r} : req'[q] = req[q]
  PROVE  /\ Pending' = {req[q].id : q \in {q \in Requests \ {r} : Asking(q)}}
                         \cup (IF Asking(r)' THEN {req'[r].id} ELSE {})
         /\ Pending = {req[q].id : q \in {q \in Requests \ {r} : Asking(q)}}
                         \cup (IF Asking(r) THEN {req[r].id} ELSE {})
<1>1. \A q \in Requests \ {r} : Asking(q)' = Asking(q)
  BY DEF Asking
<1>2. QED  BY <1>1 DEF Pending

LEMMA PendingSame ==
  ASSUME NEW r \in Requests, \A q \in Requests \ {r} : req'[q] = req[q],
         Asking(r)' <=> Asking(r), Asking(r) => req'[r].id = req[r].id
  PROVE  Pending' = Pending
  BY PendingOfOthers

(* A request that ends takes its own identifier with it and no other.      *)
LEMMA PendingLess ==
  ASSUME RequestsSound, NEW r \in Requests, Asking(r),
         \A q \in Requests \ {r} : req'[q] = req[q], req'[r] = Idle
  PROVE  Pending' = Pending \ {req[r].id}
<1>1. ~Asking(r)'
  BY BlankType DEF Asking
<1>2. \A q \in Requests \ {r} : Asking(q) => req[q].id # req[r].id
  BY DEF RequestsSound, AskSound
<1>3. QED  BY <1>1, <1>2, PendingOfOthers

LEMMA PendingApart ==
  ASSUME RequestsSound
  PROVE  Pending \cap Stored = {} /\ \A r \in Requests : Asking(r) => req[r].id \in Pending
  BY DEF RequestsSound, AskSound, Pending

LEMMA ChronologyStep ==
  TypeOK /\ RequestsSound /\ Chronology(older, Known) /\ [Next]_vars => Chronology(older, Known)'
<1> SUFFICES ASSUME TypeOK, RequestsSound, Chronology(older, Known), [Next]_vars
             PROVE  Chronology(older, Known)'
  OBVIOUS
<1>1. ASSUME NEW r \in Requests, NEW m \in Members, NEW c \in Ids, Ask(r, m, c)
      PROVE Chronology(older, Known)'
  <2>1. /\ req' = [req EXCEPT ![r] = [Idle EXCEPT !.pc = "count", !.id = c, !.by = m]]
        /\ UNCHANGED capture /\ c \notin Stored /\ req[r].pc = "idle"
        /\ \A q \in Requests : req[q].id # c
        /\ older' = older \cup {<<d, c>> : d \in Known}
    BY <1>1 DEF Ask, Known
  <2>2. /\ req'[r].pc = "count" /\ req'[r].id = c
        /\ \A q \in Requests \ {r} : req'[q] = req[q]
    BY <2>1 DEF TypeOK, Idle
  <2>3. ~Asking(r) /\ Asking(r)'
    BY <2>1, <2>2 DEF Asking
  <2>4. Known' = Known \cup {c} /\ c \notin Known
    BY <2>1, <2>2, <2>3, PendingOfOthers, SameStored DEF Known
  <2>5. Chronology(older', Known')
    BY <2>1, <2>4, Extended
  <2>6. QED  BY <2>5 DEF Chronology
<1>2. ASSUME NEW r \in Requests, Asking(r), UNCHANGED capture, req'[r] = Idle,
             \A q \in Requests \ {r} : req'[q] = req[q], Forget(req[r].id)
      PROVE Chronology(older, Known)'
  <2>1. Stored' = Stored
    BY <1>2, SameStored
  <2>2. Known' = Known \ {req[r].id}
    BY <1>2, <2>1, PendingLess, PendingApart DEF Known
  <2>3. QED  BY <1>2, <2>2, ChronologyKept DEF Forget
<1>3. ASSUME NEW r \in Requests, Stored' = Stored, UNCHANGED older,
             Asking(r)' <=> Asking(r), Asking(r) => req'[r].id = req[r].id,
             \A q \in Requests \ {r} : req'[q] = req[q]
      PROVE Chronology(older, Known)'
  BY <1>3, PendingSame, ChronologySame DEF Known
<1>4. ASSUME NEW r \in Requests, Count(r) PROVE Chronology(older, Known)'
  <2> DEFINE x == [req[r] EXCEPT !.pc = "trim", !.counted = Recent(req[r].by)]
  <2>1. x.pc = "trim" /\ x.id = req[r].id
    BY DEF TypeOK, Request
  <2>2. \/ req' = [req EXCEPT ![r] = Idle] /\ Forget(req[r].id)
        \/ req' = [req EXCEPT ![r] = x] /\ UNCHANGED older
    BY <1>4 DEF Count, Finish
  <2>3. UNCHANGED capture /\ Asking(r)
    BY <1>4 DEF Count, Asking
  <2> HIDE DEF x
  <2>4. CASE req' = [req EXCEPT ![r] = Idle] /\ Forget(req[r].id)
    BY <2>3, <2>4, <1>2 DEF TypeOK
  <2>5. CASE req' = [req EXCEPT ![r] = x] /\ UNCHANGED older
    <3>1. req'[r] = x /\ \A q \in Requests \ {r} : req'[q] = req[q]
      BY <2>5 DEF TypeOK
    <3>2. Asking(r)' <=> Asking(r)
      BY <2>1, <2>3, <3>1 DEF Asking
    <3>3. QED  BY <2>1, <2>3, <2>5, <3>1, <3>2, <1>3, SameStored
  <2>6. QED  BY <2>2, <2>4, <2>5
<1>5. ASSUME NEW r \in Requests, Trim(r) PROVE Chronology(older, Known)'
  <2>1. PICK old \in SUBSET Stored :
          req' = [req EXCEPT ![r] = [@ EXCEPT !.pc = "delete", !.victims = Beyond(Retained) \cup old]]
    BY <1>5 DEF Trim
  <2> DEFINE x == [req[r] EXCEPT !.pc = "delete", !.victims = Beyond(Retained) \cup old]
  <2>2. x.pc = "delete" /\ x.id = req[r].id /\ req' = [req EXCEPT ![r] = x]
    BY <2>1 DEF TypeOK, Request
  <2> HIDE DEF x
  <2>3. req'[r] = x /\ \A q \in Requests \ {r} : req'[q] = req[q]
    BY <2>2 DEF TypeOK
  <2>4. Asking(r) /\ Asking(r)' /\ Stored' = Stored /\ UNCHANGED older
    BY <1>5, <2>2, <2>3, SameStored DEF Trim, Asking
  <2>5. QED  BY <2>2, <2>3, <2>4, <1>3
<1>6. ASSUME NEW r \in Requests, Purge(r) PROVE Chronology(older, Known)'
  <2> DEFINE x == [req[r] EXCEPT !.pc = "insert", !.victims = req[r].victims \cap Stored]
  <2>1. x.pc = "insert" /\ x.id = req[r].id /\ req' = [req EXCEPT ![r] = x]
    BY <1>6 DEF TypeOK, Request, Purge
  <2> HIDE DEF x
  <2>2. req'[r] = x /\ \A q \in Requests \ {r} : req'[q] = req[q]
    BY <2>1 DEF TypeOK
  <2>3. Asking(r) /\ Asking(r)' /\ Stored' = Stored /\ UNCHANGED older
    BY <1>6, <2>1, <2>2, SameStored DEF Purge, Asking
  <2>4. QED  BY <2>1, <2>2, <2>3, <1>3
<1>7. ASSUME NEW r \in Requests, Insert(r) PROVE Chronology(older, Known)'
  <2>1. Asking(r) /\ req'[r] = Idle /\ \A q \in Requests \ {r} : req'[q] = req[q]
    BY <1>7, InsertFacts DEF TypeOK, Insert, Asking
  <2>2. Pending' = Pending \ {req[r].id} /\ req[r].id \in Pending
    BY <2>1, PendingLess, PendingApart
  <2>3. Known' = Known \ req[r].victims
    BY <1>7, <2>2, InsertFacts, PendingApart DEF Known
  <2>4. QED  BY <1>7, <2>3, InsertFacts, ChronologyKept
<1>8. ASSUME NEW r \in Requests, NEW c \in Ids, NEW x \in Images, Upload(r, c, x)
      PROVE Chronology(older, Known)'
  <2>1. /\ \A q \in Requests \ {r} : req'[q] = req[q]
        /\ req'[r].pc = "select" /\ req[r].pc = "idle"
    BY <1>8 DEF Upload, TypeOK, Idle
  <2>2. ~Asking(r) /\ ~Asking(r)' /\ Stored' = Stored /\ UNCHANGED older
    BY <1>8, <2>1, SameStored DEF Upload, Asking
  <2>3. QED  BY <2>1, <2>2, <1>3
<1>9. ASSUME NEW r \in Requests, Select(r) PROVE Chronology(older, Known)'
  <2>1. /\ \A q \in Requests \ {r} : req'[q] = req[q]
        /\ req'[r].pc \in {"idle", "store"} /\ req[r].pc = "select"
    BY <1>9, BlankType DEF Select, Finish, TypeOK, Request
  <2>2. ~Asking(r) /\ ~Asking(r)' /\ Stored' = Stored /\ UNCHANGED older
    BY <1>9, <2>1, SameStored DEF Select, Asking
  <2>3. QED  BY <2>1, <2>2, <1>3
<1>10. ASSUME NEW r \in Requests, Store(r) PROVE Chronology(older, Known)'
  <2>1. /\ \A q \in Requests \ {r} : req'[q] = req[q]
        /\ req'[r].pc = "idle" /\ req[r].pc = "store"
    BY <1>10, BlankType DEF Store, Finish, TypeOK
  <2>2. \A c \in Ids : capture'[c].status = "none" <=> capture[c].status = "none"
    BY <1>10 DEF Store, Stored, TypeOK, Row
  <2>3. ~Asking(r) /\ ~Asking(r)' /\ Stored' = Stored /\ UNCHANGED older
    BY <1>10, <2>1, <2>2, SameStored DEF Store, Asking
  <2>4. QED  BY <2>1, <2>3, <1>3
<1>11. ASSUME NEW r \in Requests, Fail(r) PROVE Chronology(older, Known)'
  <2>1. req'[r] = Idle /\ \A q \in Requests \ {r} : req'[q] = req[q]
    BY <1>11 DEF Fail, Finish, TypeOK
  <2>2. CASE Asking(r)
    BY <1>11, <2>1, <2>2, <1>2 DEF Fail
  <2>3. CASE ~Asking(r)
    <3>1. ~Asking(r)' /\ Stored' = Stored /\ UNCHANGED older
      BY <1>11, <2>1, <2>3, BlankType, SameStored DEF Fail, Asking
    <3>2. QED  BY <2>1, <2>3, <3>1, <1>3
  <2>4. QED  BY <2>2, <2>3
<1>12. ASSUME NEW c \in Ids, Delete(c) PROVE Chronology(older, Known)'
  <2>1. Stored' = Stored \ {c} /\ c \in Stored
    BY <1>12, BlankType DEF Delete, Stored, TypeOK
  <2>2. Pending' = Pending
    BY <1>12 DEF Delete, Pending, Asking
  <2>3. Known' = Known \ {c}
    BY <2>1, <2>2, PendingApart DEF Known
  <2>4. QED  BY <1>12, <2>3, ChronologyKept DEF Delete, Forget
<1>13. ASSUME NEW c \in Ids, Age(c) PROVE Chronology(older, Known)'
  <2>1. PICK flag \in {"recent", "live"} : capture' = [capture EXCEPT ![c][flag] = FALSE]
    BY <1>13 DEF Age
  <2> DEFINE x == [capture[c] EXCEPT ![flag] = FALSE]
  <2>2. x.status = capture[c].status /\ capture' = [capture EXCEPT ![c] = x]
    BY <2>1 DEF TypeOK, Row
  <2> HIDE DEF x
  <2>3. Stored' = Stored
    BY <2>2, SameStored DEF TypeOK
  <2>4. Known' = Known /\ older' = older
    BY <1>13, <2>3 DEF Age, Known, Pending, Asking
  <2>5. QED  BY <2>4, ChronologySame
<1>14. CASE UNCHANGED vars
  <2>1. Known' = Known /\ older' = older
    BY <1>14 DEF vars, Known, Stored, Pending, Asking
  <2>2. QED  BY <2>1, ChronologySame
<1>15. QED
  BY <1>1, <1>4, <1>5, <1>6, <1>7, <1>8, <1>9, <1>10, <1>11, <1>12, <1>13, <1>14 DEF Next

------------------------------------------------------------------------------
(* Retention.                                                              *)

LEMMA StoredIds == Stored \in SUBSET Ids /\ \A r \in Requests : Left(r) \in SUBSET Ids
  BY DEF Stored, Left

(* A step that adds no capture, trims for no request and gives no request  *)
(* more to leave.                                                          *)
LEMMA RoomKept ==
  ASSUME RetentionRoom, RetentionHolds, Stored' \subseteq Stored, Trimmed' \subseteq Trimmed,
         \A q \in Trimmed' : Left(q)' \subseteq Left(q)
  PROVE  RetentionRoom' /\ RetentionHolds'
<1>1. RetentionHolds'
  <2>1. Cardinality(Stored') <= Cardinality(Stored)
    BY StoredIds, Fewer
  <2>2. Cardinality(Stored) \in Nat /\ Cardinality(Stored') \in Nat
    BY StoredIds, FewCaptures
  <2>3. Cardinality(Requests) \in Nat /\ Retained \in Nat
    BY FewRequests, CapturesAssumption
  <2>4. QED  BY <2>1, <2>2, <2>3 DEF RetentionHolds
<1>2. ASSUME NEW T \in SUBSET Trimmed', T # {}
      PROVE  \E r \in T : Cardinality(Left(r)') <= Retained + Cardinality(Requests) - Cardinality(T)
  <2>1. PICK r \in T : Cardinality(Left(r)) <= Retained + Cardinality(Requests) - Cardinality(T)
    BY <1>2 DEF RetentionRoom
  <2>2. Trimmed' \subseteq Requests
    BY DEF Trimmed
  <2>3. r \in Requests /\ T \in SUBSET Requests
    BY <1>2, <2>2
  <2>4. Left(r) \in SUBSET Ids /\ Left(r)' \in SUBSET Left(r)
    BY <2>3, StoredIds
  <2>5. Cardinality(Left(r)') <= Cardinality(Left(r))
    BY <2>4, Fewer
  <2>6. /\ Cardinality(Left(r)) \in Nat /\ Cardinality(Left(r)') \in Nat
        /\ Cardinality(Requests) \in Nat /\ Cardinality(T) \in Nat /\ Retained \in Nat
    BY <2>3, <2>4, FewCaptures, FewRequests, CapturesAssumption
  <2>7. QED  BY <2>1, <2>5, <2>6
<1>3. QED  BY <1>1, <1>2 DEF RetentionRoom

LEMMA RoomTrim ==
  ASSUME TypeOK, Chronology(older, Known), RetentionRoom, RetentionHolds,
         NEW r \in Requests, Trim(r)
  PROVE  RetentionRoom' /\ RetentionHolds'
<1>1. PICK old \in SUBSET Stored :
        req' = [req EXCEPT ![r] = [@ EXCEPT !.pc = "delete", !.victims = Beyond(Retained) \cup old]]
  BY DEF Trim
<1>2. /\ \A q \in Requests \ {r} : req'[q] = req[q]
      /\ Beyond(Retained) \subseteq req'[r].victims
  BY <1>1 DEF TypeOK, Request
<1>3. Stored' = Stored
  BY SameStored DEF Trim
<1>4. Retained \in Nat /\ Cardinality(Requests) \in Nat
  BY FewRequests, CapturesAssumption
<1>5. Cardinality(Left(r)') <= Retained
  <2>1. Cardinality(Stored \ Beyond(Retained)) <= Retained
    BY <1>4, StoredIds, FewRecent
  <2>2. Left(r)' \in SUBSET (Stored \ Beyond(Retained))
    BY <1>2, <1>3 DEF Left
  <2>3. Cardinality(Left(r)') <= Cardinality(Stored \ Beyond(Retained))
    BY <2>2, StoredIds, Fewer
  <2>4. Cardinality(Left(r)') \in Nat /\ Cardinality(Stored \ Beyond(Retained)) \in Nat
    BY <2>2, StoredIds, FewCaptures
  <2>5. QED  BY <1>4, <2>1, <2>3, <2>4
<1>6. ASSUME NEW T \in SUBSET Trimmed', T # {}
      PROVE  \E q \in T : Cardinality(Left(q)') <= Retained + Cardinality(Requests) - Cardinality(T)
  <2>1. T \in SUBSET Requests
    BY <1>6 DEF Trimmed
  <2>2. CASE r \in T
    <3>1. Cardinality(T) \in Nat /\ Cardinality(T) <= Cardinality(Requests)
      BY <2>1, FewRequests
    <3>2. Cardinality(Left(r)') \in Nat
      BY StoredIds, <1>3, FewCaptures DEF Left
    <3>3. QED  BY <1>4, <1>5, <2>2, <3>1, <3>2
  <2>3. CASE r \notin T
    <3>1. T \in SUBSET Trimmed
      BY <1>2, <1>6, <2>1, <2>3 DEF Trimmed
    <3>2. PICK q \in T : Cardinality(Left(q)) <= Retained + Cardinality(Requests) - Cardinality(T)
      BY <1>6, <3>1 DEF RetentionRoom
    <3>3. Left(q)' = Left(q)
      BY <1>2, <1>3, <2>1, <2>3 DEF Left
    <3>4. QED  BY <3>2, <3>3
  <2>4. QED  BY <2>2, <2>3
<1>7. RetentionHolds'
  BY <1>3 DEF RetentionHolds
<1>8. QED  BY <1>6, <1>7 DEF RetentionRoom

(* An insertion adds one to what each of the others leaves; it is counted  *)
(* against the request that made it, no longer among them.                 *)
LEMMA RoomInsert ==
  ASSUME TypeOK, RequestsSound, RetentionRoom, NEW r \in Requests, Insert(r)
  PROVE  RetentionRoom' /\ RetentionHolds'
<1> DEFINE c == req[r].id
<1>1. /\ c \in Ids /\ Stored' = Left(r) \cup {c} /\ r \in Trimmed
      /\ req'[r] = Idle /\ \A q \in Requests \ {r} : req'[q] = req[q]
  BY InsertFacts DEF TypeOK, Left, Trimmed, Insert
<1>2. Retained \in Nat /\ Cardinality(Requests) \in Nat
  BY FewRequests, CapturesAssumption
<1>3. RetentionHolds'
  <2>1. Cardinality(Left(r)) <= Retained + Cardinality(Requests) - 1
    <3>1. {r} \in SUBSET Trimmed /\ {r} # {} /\ Cardinality({r}) = 1
      BY <1>1, FS_Singleton
    <3>2. QED  BY <3>1 DEF RetentionRoom
  <2>2. Cardinality(Stored') <= Cardinality(Left(r)) + 1
    BY <1>1, StoredIds, OneMore
  <2>3. Cardinality(Stored') \in Nat /\ Cardinality(Left(r)) \in Nat
    BY <1>1, StoredIds, FewCaptures
  <2>4. QED  BY <1>2, <2>1, <2>2, <2>3 DEF RetentionHolds
<1>4. ASSUME NEW T \in SUBSET Trimmed', T # {}
      PROVE  \E q \in T : Cardinality(Left(q)') <= Retained + Cardinality(Requests) - Cardinality(T)
  <2>1. r \notin T /\ T \in SUBSET Requests /\ T \in SUBSET Trimmed
    BY <1>1, <1>4, BlankType DEF Trimmed
  <2>2. PICK x \in T \cup {r} :
          Cardinality(Left(x)) <= Retained + Cardinality(Requests) - Cardinality(T \cup {r})
    <3>1. T \cup {r} \in SUBSET Trimmed /\ T \cup {r} # {}
      BY <1>1, <2>1
    <3>2. QED  BY <3>1 DEF RetentionRoom
  <2>3. Cardinality(T \cup {r}) = Cardinality(T) + 1 /\ Cardinality(T) \in Nat
    BY <2>1, FewRequests, FS_AddElement
  <2>4. x \in Requests /\ Left(x) \in SUBSET Ids /\ Cardinality(Left(x)) \in Nat
    BY <2>1, StoredIds, FewCaptures
  <2>5. PICK y \in T : Left(y)' \in SUBSET (Left(x) \cup {c})
    <3>1. CASE x \in T
      <4>1. req'[x].victims = req[x].victims
        BY <1>1, <2>1, <3>1
      <4>2. Left(x)' \in SUBSET (Left(x) \cup {c})
        BY <1>1, <4>1 DEF Left
      <4>3. QED  BY <3>1, <4>2
    <3>2. CASE x = r
      <4>1. \A q \in T : Left(q)' \in SUBSET (Left(r) \cup {c})
        BY <1>1 DEF Left
      <4>2. QED  BY <1>4, <3>2, <4>1
    <3>3. QED  BY <3>1, <3>2
  <2>6. Cardinality(Left(y)') <= Cardinality(Left(x)) + 1
    BY <1>1, <2>4, <2>5, OneMore
  <2>7. Cardinality(Left(y)') \in Nat
    BY <1>1, <2>4, <2>5, FewCaptures
  <2>8. QED  BY <1>2, <2>2, <2>3, <2>4, <2>6, <2>7
<1>5. QED  BY <1>3, <1>4 DEF RetentionRoom

LEMMA RetentionStep ==
  TypeOK /\ RequestsSound /\ Chronology(older, Known) /\ RetentionRoom /\ RetentionHolds
    /\ [Next]_vars => RetentionRoom' /\ RetentionHolds'
<1> SUFFICES ASSUME TypeOK, RequestsSound, Chronology(older, Known), RetentionRoom,
                    RetentionHolds, [Next]_vars
             PROVE  RetentionRoom' /\ RetentionHolds'
  OBVIOUS
<1>1. ASSUME NEW r \in Requests, \A q \in Requests \ {r} : req'[q] = req[q],
             req'[r].pc \notin {"delete", "insert"}, Stored' = Stored
      PROVE  RetentionRoom' /\ RetentionHolds'
  <2>1. Trimmed' \subseteq Trimmed /\ r \notin Trimmed'
    BY <1>1 DEF Trimmed
  <2>2. \A q \in Trimmed' : Left(q)' \subseteq Left(q)
    BY <1>1, <2>1 DEF Left, Trimmed
  <2>3. QED  BY <1>1, <2>1, <2>2, RoomKept
<1>2. ASSUME UNCHANGED req, Stored' \subseteq Stored PROVE RetentionRoom' /\ RetentionHolds'
  <2>1. Trimmed' = Trimmed /\ \A q \in Trimmed : Left(q)' \subseteq Left(q)
    BY <1>2 DEF Trimmed, Left
  <2>2. QED  BY <1>2, <2>1, RoomKept
<1>3. ASSUME NEW r \in Requests, NEW m \in Members, NEW c \in Ids, Ask(r, m, c)
      PROVE  RetentionRoom' /\ RetentionHolds'
  BY <1>3, <1>1, SameStored DEF Ask, TypeOK, Idle
<1>4. ASSUME NEW r \in Requests, Count(r) PROVE RetentionRoom' /\ RetentionHolds'
  <2> DEFINE x == [req[r] EXCEPT !.pc = "trim", !.counted = Recent(req[r].by)]
  <2>1. x.pc = "trim"
    BY DEF TypeOK, Request
  <2>2. (req' = [req EXCEPT ![r] = Idle] \/ req' = [req EXCEPT ![r] = x]) /\ UNCHANGED capture
    BY <1>4 DEF Count, Finish
  <2> HIDE DEF x
  <2>3. req'[r].pc \in {"idle", "trim"} /\ \A q \in Requests \ {r} : req'[q] = req[q]
    BY <2>1, <2>2, BlankType DEF TypeOK
  <2>4. QED  BY <2>2, <2>3, <1>1, SameStored
<1>5. ASSUME NEW r \in Requests, Purge(r) PROVE RetentionRoom' /\ RetentionHolds'
  <2> DEFINE x == [req[r] EXCEPT !.pc = "insert", !.victims = req[r].victims \cap Stored]
  <2>1. x.victims = req[r].victims \cap Stored /\ req' = [req EXCEPT ![r] = x]
    BY <1>5 DEF TypeOK, Request, Purge
  <2> HIDE DEF x
  <2>2. req'[r] = x /\ \A q \in Requests \ {r} : req'[q] = req[q]
    BY <2>1 DEF TypeOK
  <2>3. Stored' = Stored /\ r \in Trimmed
    BY <1>5, SameStored DEF Purge, Trimmed
  <2>4. Trimmed' \subseteq Trimmed
    BY <2>2, <2>3 DEF Trimmed
  <2>5. \A q \in Trimmed' : Left(q)' \subseteq Left(q)
    BY <2>1, <2>2, <2>3 DEF Trimmed, Left
  <2>6. QED  BY <2>3, <2>4, <2>5, RoomKept
<1>6. ASSUME NEW r \in Requests, NEW c \in Ids, NEW x \in Images, Upload(r, c, x)
      PROVE RetentionRoom' /\ RetentionHolds'
  BY <1>6, <1>1, SameStored DEF Upload, TypeOK, Idle
<1>7. ASSUME NEW r \in Requests, Select(r) PROVE RetentionRoom' /\ RetentionHolds'
  <2>1. /\ \A q \in Requests \ {r} : req'[q] = req[q]
        /\ req'[r].pc \in {"idle", "store"} /\ UNCHANGED capture
    BY <1>7, BlankType DEF Select, Finish, TypeOK, Request
  <2>2. QED  BY <2>1, <1>1, SameStored
<1>8. ASSUME NEW r \in Requests, Store(r) PROVE RetentionRoom' /\ RetentionHolds'
  <2>1. /\ \A q \in Requests \ {r} : req'[q] = req[q]
        /\ req'[r].pc = "idle"
    BY <1>8, BlankType DEF Store, Finish, TypeOK
  <2>2. \A c \in Ids : capture'[c].status = "none" <=> capture[c].status = "none"
    BY <1>8 DEF Store, Stored, TypeOK, Row
  <2>3. QED  BY <2>1, <2>2, <1>1, SameStored
<1>9. ASSUME NEW r \in Requests, Fail(r) PROVE RetentionRoom' /\ RetentionHolds'
  BY <1>9, <1>1, SameStored, BlankType DEF Fail, Finish, TypeOK
<1>10. ASSUME NEW c \in Ids, Delete(c) PROVE RetentionRoom' /\ RetentionHolds'
  <2>1. Stored' \subseteq Stored /\ UNCHANGED req
    BY <1>10, BlankType DEF Delete, Stored, TypeOK
  <2>2. QED  BY <2>1, <1>2
<1>11. ASSUME NEW c \in Ids, Age(c) PROVE RetentionRoom' /\ RetentionHolds'
  <2>1. PICK flag \in {"recent", "live"} : capture' = [capture EXCEPT ![c][flag] = FALSE]
    BY <1>11 DEF Age
  <2> DEFINE x == [capture[c] EXCEPT ![flag] = FALSE]
  <2>2. x.status = capture[c].status /\ capture' = [capture EXCEPT ![c] = x]
    BY <2>1 DEF TypeOK, Row
  <2> HIDE DEF x
  <2>3. Stored' = Stored
    BY <2>2, SameStored DEF TypeOK
  <2>4. QED  BY <1>11, <2>3, <1>2 DEF Age
<1>12. CASE UNCHANGED vars
  BY <1>12, <1>2 DEF vars, Stored
<1>13. QED
  BY <1>3, <1>4, <1>5, <1>6, <1>7, <1>8, <1>9, <1>10, <1>11, <1>12, RoomTrim, RoomInsert DEF Next

------------------------------------------------------------------------------
(* What a step does to what has been received and to a member's rate.      *)

LEMMA ReceivedStep ==
  ASSUME TypeOK, RequestsSound, [Next]_vars, NEW c \in Ids, capture[c].status = "RECEIVED"
  PROVE  capture'[c].image \in {capture[c].image, None}
<1>1. ASSUME NEW r \in Requests, Insert(r) PROVE capture'[c].image \in {capture[c].image, None}
  <2>1. c # req[r].id
    BY <1>1, InsertFacts DEF Stored
  <2>2. capture'[c] = NoRow \/ capture'[c] = capture[c]
    BY <1>1, <2>1, InsertFacts
  <2>3. QED  BY <2>2 DEF NoRow
<1>2. ASSUME NEW r \in Requests, Store(r) PROVE capture'[c].image \in {capture[c].image, None}
  <2>1. req[r].id # c
    BY <1>2 DEF Store, RequestsSound, UploadSound
  <2>2. capture'[c] = capture[c]
    BY <1>2, <2>1 DEF Store, TypeOK
  <2>3. QED  BY <2>2
<1>3. ASSUME NEW d \in Ids, Delete(d) PROVE capture'[c].image \in {capture[c].image, None}
  BY <1>3 DEF Delete, TypeOK, NoRow
<1>4. ASSUME NEW d \in Ids, Age(d) PROVE capture'[c].image \in {capture[c].image, None}
  <2>1. PICK flag \in {"recent", "live"} : capture' = [capture EXCEPT ![d][flag] = FALSE]
    BY <1>4 DEF Age
  <2> DEFINE x == [capture[d] EXCEPT ![flag] = FALSE]
  <2>2. x.image = capture[d].image /\ capture' = [capture EXCEPT ![d] = x]
    BY <2>1 DEF TypeOK, Row
  <2> HIDE DEF x
  <2>3. QED  BY <2>2 DEF TypeOK
<1>5. CASE UNCHANGED capture
  BY <1>5
<1>6. QED
  BY <1>1, <1>2, <1>3, <1>4, <1>5
     DEF Next, Ask, Count, Trim, Purge, Upload, Select, Fail, vars

(* Only an insertion adds to what a member has asked for in a minute.      *)
LEMMA RecentStep ==
  ASSUME TypeOK, RequestsSound, [Next]_vars, NEW m \in Members,
         \A r \in Requests : ~Insert(r)
  PROVE  Recent(m)' \subseteq Recent(m)
<1>1. ASSUME NEW r \in Requests, Store(r) PROVE Recent(m)' \subseteq Recent(m)
  <2> DEFINE c == req[r].id
             x == [capture[c] EXCEPT !.status = "RECEIVED", !.image = req[r].image]
  <2>1. c \in Stored
    BY <1>1 DEF Store, RequestsSound, UploadSound, Stored
  <2>2. capture' = [capture EXCEPT ![c] = x]
    BY <1>1, <2>1 DEF Store
  <2>3. x.by = capture[c].by /\ x.recent = capture[c].recent
    BY <2>1 DEF TypeOK, Row, Stored
  <2> HIDE DEF x
  <2>4. QED  BY <2>1, <2>2, <2>3 DEF Recent, Stored, TypeOK
<1>2. ASSUME NEW d \in Ids, Delete(d) PROVE Recent(m)' \subseteq Recent(m)
  BY <1>2, BlankType DEF Delete, TypeOK, Recent, Stored
<1>3. ASSUME NEW d \in Ids, Age(d) PROVE Recent(m)' \subseteq Recent(m)
  <2>1. PICK flag \in {"recent", "live"} : capture' = [capture EXCEPT ![d][flag] = FALSE]
    BY <1>3 DEF Age
  <2> DEFINE x == [capture[d] EXCEPT ![flag] = FALSE]
  <2>2. /\ x.status = capture[d].status /\ x.by = capture[d].by /\ (x.recent => capture[d].recent)
        /\ capture' = [capture EXCEPT ![d] = x]
    BY <2>1 DEF TypeOK, Row
  <2> HIDE DEF x
  <2>3. QED  BY <2>2 DEF Recent, Stored, TypeOK
<1>4. CASE UNCHANGED capture
  BY <1>4 DEF Recent, Stored
<1>5. QED
  BY <1>1, <1>2, <1>3, <1>4
     DEF Next, Ask, Count, Trim, Purge, Upload, Select, Fail, vars

(* Who adds a capture for a member was placing one.                        *)
LEMMA RecentGrows ==
  ASSUME TypeOK, RequestsSound, [Next]_vars, NEW m \in Members, ~(Recent(m)' \subseteq Recent(m))
  PROVE  \E r \in Placing(m) :
           /\ Insert(r) /\ req[r].id \in Ids /\ Recent(m)' \subseteq Recent(m) \cup {req[r].id}
<1>1. PICK r \in Requests : Insert(r)
  BY RecentStep
<1> DEFINE c == req[r].id
<1>2. \A d \in Ids \ {c} : capture'[d] = NoRow \/ capture'[d] = capture[d]
  BY <1>1, InsertFacts
<1>3. \A d \in Ids \ {c} : d \in Recent(m)' => d \in Recent(m)
  BY <1>2, BlankType DEF Recent, Stored
<1>4. c \in Recent(m)' => req[r].by = m
  BY <1>1, InsertFacts DEF Recent
<1>5. Recent(m)' \subseteq Ids /\ c \in Ids
  BY <1>1, InsertFacts DEF Recent, Stored
<1>6. QED  BY <1>1, <1>3, <1>4, <1>5 DEF Placing, Insert

LEMMA RateStep ==
  ASSUME TypeOK, RequestsSound, [Next]_vars, NEW m \in Members,
         Cardinality(Recent(m)') > MaxPerMinute, Cardinality(Recent(m)') > Cardinality(Recent(m))
  PROVE  \E r \in Requests : /\ req[r].pc = "insert" /\ req[r].by = m /\ req'[r] # req[r]
                             /\ Recent(m) \ req[r].counted # {}
<1>1. Recent(m) \in SUBSET Ids /\ Recent(m)' \in SUBSET Ids
  BY DEF Recent, Stored
<1>2. /\ IsFiniteSet(Recent(m)) /\ Cardinality(Recent(m)) \in Nat
      /\ Cardinality(Recent(m)') \in Nat /\ MaxPerMinute \in Nat
  BY <1>1, FewCaptures, CapturesAssumption
<1>3. ~(Recent(m)' \subseteq Recent(m))
  BY <1>1, <1>2, Fewer
<1>4. PICK r \in Placing(m) :
        Insert(r) /\ req[r].id \in Ids /\ Recent(m)' \subseteq Recent(m) \cup {req[r].id}
  BY <1>3, RecentGrows
<1>5. r \in Requests /\ req[r].by = m
  BY DEF Placing
<1>6. Cardinality(Recent(m)') <= Cardinality(Recent(m)) + 1
  BY <1>1, <1>4, OneMore
<1>7. IsFiniteSet(req[r].counted) /\ Cardinality(req[r].counted) < MaxPerMinute
  BY <1>4, <1>5 DEF Insert, RequestsSound, AskSound
<1>8. Recent(m) \ req[r].counted # {}
  <2>1. SUFFICES ASSUME Recent(m) \subseteq req[r].counted PROVE FALSE
    OBVIOUS
  <2>2. Cardinality(Recent(m)) <= Cardinality(req[r].counted)
    BY <1>7, <2>1, FS_Subset
  <2>3. Cardinality(req[r].counted) \in Nat
    BY <1>7, FS_CardinalityType
  <2>4. QED  BY <1>2, <1>6, <1>7, <2>2, <2>3
<1>9. req[r].pc = "insert" /\ req'[r] # req[r] /\ req[r].by = m
  BY <1>4, <1>5, InsertFacts, BlankType DEF Insert, TypeOK
<1>10. QED  BY <1>5, <1>8, <1>9

(* Only a count below the limit adds to the requests placing a capture.    *)
LEMMA PlacingStep ==
  ASSUME TypeOK, [Next]_vars, NEW m \in Members, ~(Placing(m)' \subseteq Placing(m))
  PROVE  UNCHANGED capture /\ ~(Cardinality(Recent(m)) >= MaxPerMinute)
<1> DEFINE Late == {"trim", "delete", "insert"}
<1>1. ASSUME NEW r \in Requests, NEW x, req' = [req EXCEPT ![r] = x],
             x.pc \in Late => req[r].pc \in Late /\ x.by = req[r].by
      PROVE  FALSE
  BY <1>1 DEF Placing, TypeOK
<1>2. ASSUME NEW r \in Requests, req' = [req EXCEPT ![r] = Idle] PROVE FALSE
  BY <1>2, <1>1, BlankType
<1>3. ASSUME NEW r \in Requests, NEW n \in Members, NEW c \in Ids, Ask(r, n, c) PROVE FALSE
  <2> DEFINE x == [Idle EXCEPT !.pc = "count", !.id = c, !.by = n]
  <2>1. x.pc = "count" /\ req' = [req EXCEPT ![r] = x]
    BY <1>3 DEF Ask, Idle
  <2> HIDE DEF x
  <2>2. QED  BY <2>1, <1>1
<1>4. ASSUME NEW r \in Requests, Count(r)
      PROVE  UNCHANGED capture /\ ~(Cardinality(Recent(m)) >= MaxPerMinute)
  <2> DEFINE x == [req[r] EXCEPT !.pc = "trim", !.counted = Recent(req[r].by)]
  <2>1. /\ ~(Cardinality(Recent(req[r].by)) >= MaxPerMinute)
        /\ req' = [req EXCEPT ![r] = x] /\ UNCHANGED capture
    BY <1>4, <1>2 DEF Count, Finish
  <2>2. x.by = req[r].by
    BY DEF TypeOK, Request
  <2> HIDE DEF x
  <2>3. req[r].by = m
    BY <2>1, <2>2 DEF Placing, TypeOK
  <2>4. QED  BY <2>1, <2>3
<1>5. ASSUME NEW r \in Requests, Trim(r) PROVE FALSE
  <2>1. PICK old \in SUBSET {c \in Stored : ~capture[c].recent /\ ~capture[c].live} :
          req' = [req EXCEPT ![r] = [@ EXCEPT !.pc = "delete", !.victims = Beyond(Retained) \cup old]]
    BY <1>5 DEF Trim
  <2> DEFINE x == [req[r] EXCEPT !.pc = "delete", !.victims = Beyond(Retained) \cup old]
  <2>2. x.by = req[r].by /\ req' = [req EXCEPT ![r] = x]
    BY <2>1 DEF TypeOK, Request
  <2> HIDE DEF x
  <2>3. QED  BY <1>5, <2>2, <1>1 DEF Trim
<1>6. ASSUME NEW r \in Requests, Purge(r) PROVE FALSE
  <2> DEFINE x == [req[r] EXCEPT !.pc = "insert", !.victims = req[r].victims \cap Stored]
  <2>1. x.by = req[r].by /\ req' = [req EXCEPT ![r] = x]
    BY <1>6 DEF TypeOK, Request, Purge
  <2> HIDE DEF x
  <2>2. QED  BY <1>6, <2>1, <1>1 DEF Purge
<1>7. ASSUME NEW r \in Requests, NEW c \in Ids, NEW y \in Images, Upload(r, c, y) PROVE FALSE
  <2> DEFINE x == [Idle EXCEPT !.pc = "select", !.id = c, !.image = y, !.inTime = capture[c].live]
  <2>1. x.pc = "select" /\ req' = [req EXCEPT ![r] = x]
    BY <1>7 DEF Upload, Idle
  <2> HIDE DEF x
  <2>2. QED  BY <2>1, <1>1
<1>8. ASSUME NEW r \in Requests, Select(r) PROVE FALSE
  <2> DEFINE x == [req[r] EXCEPT !.pc = "store"]
  <2>1. x.pc = "store" /\ (req' = [req EXCEPT ![r] = x] \/ req' = [req EXCEPT ![r] = Idle])
    BY <1>8 DEF Select, Finish, TypeOK, Request
  <2> HIDE DEF x
  <2>2. QED  BY <2>1, <1>1, <1>2
<1>9. CASE UNCHANGED req
  BY <1>9 DEF Placing
<1>10. QED
  BY <1>2, <1>3, <1>4, <1>5, <1>6, <1>7, <1>8, <1>9
     DEF Next, Insert, Store, Fail, Delete, Age, Finish, vars

LEMMA RateRoomStep == TypeOK /\ RequestsSound /\ RateRoom /\ [Next]_vars => RateRoom'
<1> SUFFICES ASSUME TypeOK, RequestsSound, RateRoom, [Next]_vars, NEW m \in Members
             PROVE  Cardinality(Recent(m)') + Cardinality(Placing(m)')
                      <= MaxPerMinute + Cardinality(Requests) - 1
  BY DEF RateRoom
<1>1. /\ Recent(m) \in SUBSET Ids /\ Recent(m)' \in SUBSET Ids
      /\ Placing(m) \in SUBSET Requests /\ Placing(m)' \in SUBSET Requests
  BY DEF Recent, Stored, Placing
<1>2. /\ Cardinality(Recent(m)) \in Nat /\ Cardinality(Recent(m)') \in Nat
      /\ IsFiniteSet(Placing(m)) /\ Cardinality(Placing(m)) \in Nat
      /\ Cardinality(Placing(m)') \in Nat /\ Cardinality(Placing(m)') <= Cardinality(Requests)
      /\ Cardinality(Requests) \in Nat /\ MaxPerMinute \in Nat
  BY <1>1, FewCaptures, FewRequests, CapturesAssumption
<1>3. Cardinality(Recent(m)) + Cardinality(Placing(m)) <= MaxPerMinute + Cardinality(Requests) - 1
  BY DEF RateRoom
<1>4. CASE ~(Recent(m)' \subseteq Recent(m))
  <2>1. PICK r \in Placing(m) :
          Insert(r) /\ req[r].id \in Ids /\ Recent(m)' \subseteq Recent(m) \cup {req[r].id}
    BY <1>4, RecentGrows
  <2>2. Cardinality(Recent(m)') <= Cardinality(Recent(m)) + 1
    BY <1>1, <2>1, OneMore
  <2>3. Placing(m)' \subseteq Placing(m) \ {r}
    <3>1. req' = [req EXCEPT ![r] = Idle]
      BY <2>1 DEF Insert, Finish
    <3>2. QED  BY <1>1, <3>1, BlankType DEF Placing, TypeOK
  <2>4. Cardinality(Placing(m) \ {r}) = Cardinality(Placing(m)) - 1 /\ IsFiniteSet(Placing(m) \ {r})
    BY <1>2, <2>1, FS_RemoveElement
  <2>5. Cardinality(Placing(m)') <= Cardinality(Placing(m)) - 1
    BY <2>3, <2>4, FS_Subset
  <2>6. QED  BY <1>2, <1>3, <2>2, <2>5
<1>5. CASE ~(Placing(m)' \subseteq Placing(m))
  <2>1. UNCHANGED capture /\ ~(Cardinality(Recent(m)) >= MaxPerMinute)
    BY <1>5, PlacingStep
  <2>2. Recent(m)' = Recent(m)
    BY <2>1 DEF Recent, Stored
  <2>3. QED  BY <1>2, <2>1, <2>2
<1>6. CASE Recent(m)' \subseteq Recent(m) /\ Placing(m)' \subseteq Placing(m)
  <2>1. Cardinality(Recent(m)') <= Cardinality(Recent(m))
    BY <1>1, <1>6, Fewer
  <2>2. Cardinality(Placing(m)') <= Cardinality(Placing(m))
    BY <1>2, <1>6, FS_Subset
  <2>3. QED  BY <1>2, <1>3, <2>1, <2>2
<1>7. QED  BY <1>4, <1>5, <1>6

------------------------------------------------------------------------------
(* Theorems.                                                               *)

LEMMA CapturesInitial == Init => CapturesInv
<1> SUFFICES ASSUME Init PROVE CapturesInv
  OBVIOUS
<1>1. TypeOK
  BY BlankType, CapturesAssumption DEF Init, TypeOK
<1>2. Stored = {} /\ Pending = {} /\ Trimmed = {}
  BY BlankType DEF Init, Stored, Pending, Asking, Trimmed
<1>3. RequestsSound
  BY BlankType DEF Init, RequestsSound, AskSound, UploadSound, Asking
<1>4. Chronology(older, Known)
  BY <1>2 DEF Init, Chronology, Known
<1>5. RetentionRoom
  BY <1>2 DEF RetentionRoom
<1>6. RetentionHolds
  BY <1>2, FS_EmptySet, FewRequests, CapturesAssumption DEF RetentionHolds
<1>7. RateRoom
  <2>1. \A m \in Members : Recent(m) = {} /\ Placing(m) = {}
    BY <1>2, BlankType DEF Init, Recent, Placing
  <2>2. QED  BY <2>1, FS_EmptySet, FewRequests, CapturesAssumption DEF RateRoom
<1>8. QED  BY <1>1, <1>3, <1>4, <1>5, <1>6, <1>7 DEF CapturesInv

LEMMA CapturesInductive == CapturesInv /\ [Next]_vars => CapturesInv'
<1> SUFFICES ASSUME CapturesInv, [Next]_vars PROVE CapturesInv'
  OBVIOUS
<1>1. /\ TypeOK /\ RequestsSound /\ Chronology(older, Known)
      /\ RetentionRoom /\ RetentionHolds /\ RateRoom
  BY DEF CapturesInv
<1>2. TypeOK'
  BY <1>1, CapturesTypeStep
<1>3. RequestsSound' /\ Chronology(older, Known)'
  BY <1>1, <1>2, SoundStep, ChronologyStep
<1>4. RetentionRoom' /\ RetentionHolds'
  BY <1>1, RetentionStep
<1>5. RateRoom'
  BY <1>1, RateRoomStep
<1>6. QED  BY <1>2, <1>3, <1>4, <1>5 DEF CapturesInv

LEMMA CapturesInvariant == Spec => []CapturesInv
  BY CapturesInitial, CapturesInductive, PTL DEF Spec

(* Rows, their order and their locks keep their types (routes.ts:1753-1863,*)
(* upload.ts:73-153).                                                      *)
THEOREM CapturesTypeCorrect == Spec => []TypeOK
<1>1. CapturesInv => TypeOK
  BY DEF CapturesInv
<1>2. QED  BY CapturesInvariant, <1>1, PTL

(* However many requests trim what they see and insert, none seeing the    *)
(* others', an organization keeps no more than the limit and one capture   *)
(* for each of them (routes.ts:1780-1798).                                 *)
THEOREM RetentionBounded == Spec => []RetentionHolds
<1>1. CapturesInv => RetentionHolds
  BY DEF CapturesInv
<1>2. QED  BY CapturesInvariant, <1>1, PTL

(* However many of a member's requests count before the others insert, each*)
(* passes the limit by one at most, and the last of them not at all        *)
(* (routes.ts:1772-1778).                                                  *)
THEOREM RateOvershoot == Spec => []RateOvershootBounded
<1>1. CapturesInv => RateOvershootBounded
  <2> SUFFICES ASSUME CapturesInv, NEW m \in Members
               PROVE  Cardinality(Recent(m)) <= MaxPerMinute + Cardinality(Requests) - 1
    BY DEF RateOvershootBounded
  <2>1. Recent(m) \in SUBSET Ids /\ Placing(m) \in SUBSET Requests
    BY DEF Recent, Stored, Placing
  <2>2. /\ Cardinality(Recent(m)) \in Nat /\ Cardinality(Placing(m)) \in Nat
        /\ Cardinality(Requests) \in Nat /\ MaxPerMinute \in Nat
    BY <2>1, FewCaptures, FewRequests, CapturesAssumption
  <2>3. Cardinality(Recent(m)) + Cardinality(Placing(m)) <= MaxPerMinute + Cardinality(Requests) - 1
    BY DEF CapturesInv, RateRoom
  <2>4. QED  BY <2>2, <2>3
<1>2. QED  BY CapturesInvariant, <1>1, PTL

(* However many uploads carry one capture's token, the first stays what is *)
(* received (upload.ts:131-151).                                           *)
THEOREM OneImagePerToken == Spec => ReceivedOnce
<1>1. CapturesInv /\ [Next]_vars =>
        [\A c \in Ids : capture[c].status = "RECEIVED" =>
           capture'[c].image \in {capture[c].image, None}]_vars
  BY ReceivedStep DEF CapturesInv
<1>2. QED  BY CapturesInvariant, <1>1, PTL DEF Spec, ReceivedOnce

(* For every limit and number of requests in flight, a member passes the   *)
(* limit only by a request whose count another has outdated                *)
(* (routes.ts:1772-1778).                                                  *)
THEOREM RatePassedByARaceOnly == Spec => RateOnlyPassedByARace
<1>1. CapturesInv /\ [Next]_vars =>
        [\A m \in Members :
           Cardinality(Recent(m)') > MaxPerMinute /\ Cardinality(Recent(m)') > Cardinality(Recent(m)) =>
             \E r \in Requests : /\ req[r].pc = "insert" /\ req[r].by = m /\ req'[r] # req[r]
                                 /\ Recent(m) \ req[r].counted # {}]_vars
  BY RateStep DEF CapturesInv
<1>2. QED  BY CapturesInvariant, <1>1, PTL DEF Spec, RateOnlyPassedByARace
==============================================================================

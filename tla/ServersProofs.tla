----------------------------- MODULE ServersProofs -----------------------------
(***************************************************************************)
(* Proofs about an organization's servers: Licensing (how many it may      *)
(* have, the keys and verdicts of their licences) and Presence (the state  *)
(* of one of them), for any numbers of servers, keys, requests and reports.*)
(***************************************************************************)
EXTENDS Licensing, Presence, FiniteSetTheorems, TLAPS

(* What a request's step says of what it carries; one about to create a    *)
(* server has counted fewer than the quota.                                *)
RequestSound(r) ==
  /\ req[r].pc # "idle" => req[r].org \in Orgs
  /\ IF req[r].pc \in {"pick", "afford", "bind"} THEN req[r].key \in Keys
                                                ELSE req[r].key = None
  /\ req[r].pc = "bind" => req[r].to \in Servers
  /\ req[r].creates => req[r].pc = "bind"
  /\ req[r].pc = "insert" \/ req[r].creates =>
       IsFiniteSet(req[r].counted) /\ Cardinality(req[r].counted) < Quota

(* Requests that have checked a key and not bound it yet: with them, its   *)
(* holders are within the bound.                                           *)
Checked(k) == {r \in Requests : req[r].key = k}

KeyRoom ==
  \A k \in Keys :
    Cardinality(Holders(k)) + Cardinality(Checked(k)) <= Cardinality(Requests)

(* Requests that have counted an organization's servers and not added      *)
(* theirs yet: with them counted in, it is within the bound.               *)
Creating(o) == {r \in Requests : /\ req[r].pc = "insert" \/ req[r].creates
                                 /\ req[r].org = o}

QuotaRoom ==
  \A o \in Orgs :
    Cardinality(Live(o)) + Cardinality(Creating(o)) <= Quota + Cardinality(Requests) - 1

LicensingInv == TypeOK /\ \A r \in Requests : RequestSound(r)

------------------------------------------------------------------------------
(* Licensing: operators.                                                   *)

LEMMA LiveFinite ==
  ASSUME NEW S \in SUBSET Servers
  PROVE  IsFiniteSet(S) /\ Cardinality(S) \in Nat
  BY LicensingAssumption, FS_Subset, FS_CardinalityType

LEMMA RequestsFinite ==
  ASSUME NEW T \in SUBSET Requests
  PROVE  /\ IsFiniteSet(T) /\ Cardinality(T) \in Nat
         /\ Cardinality(T) <= Cardinality(Requests) /\ Cardinality(Requests) \in Nat
  BY LicensingAssumption, FS_Subset, FS_CardinalityType

LEMMA OneServerMore ==
  ASSUME NEW S, IsFiniteSet(S), NEW s, NEW T \in SUBSET (S \cup {s})
  PROVE  Cardinality(T) <= Cardinality(S) + 1
<1>1. /\ IsFiniteSet(S \cup {s}) /\ Cardinality(S) \in Nat
      /\ Cardinality(S \cup {s}) \in {Cardinality(S), Cardinality(S) + 1}
  BY FS_AddElement, FS_CardinalityType
<1>2. Cardinality(T) <= Cardinality(S \cup {s}) /\ Cardinality(T) \in Nat
  BY <1>1, FS_Subset, FS_CardinalityType
<1>3. QED  BY <1>1, <1>2

LEMMA LiveServers == \A o : Live(o) \in SUBSET Servers
  BY DEF Live

LEMMA AtRest ==
  /\ Idle \in Request /\ Idle.pc = "idle" /\ Idle.key = None /\ Idle.creates = FALSE
  BY DEF Idle, Request, Steps

(* A server's licence, with another token or revocation.                   *)
Licence == [token : Keys \cup {Own, Granted, None}, revoked : BOOLEAN]

LEMMA LicenceType ==
  ASSUME NEW y \in Licence, NEW t \in Keys \cup {Own, Granted, None}, NEW off \in BOOLEAN
  PROVE  /\ [y EXCEPT !.token = t] \in Licence /\ [y EXCEPT !.revoked = off] \in Licence
         /\ [token |-> t, revoked |-> off] \in Licence
  BY DEF Licence

LEMMA LicencesType ==
  ASSUME TypeOK, NEW s \in Servers, NEW y \in Licence, licence' = [licence EXCEPT ![s] = y]
  PROVE  licence' \in [Servers -> [token : Keys \cup {Own, Granted, None}, revoked : BOOLEAN]]
<1>1. licence \in [Servers -> Licence]
  BY DEF TypeOK, Licence
<1>2. licence' \in [Servers -> Licence]
  BY <1>1
<1>3. QED  BY <1>2 DEF Licence

(* A request at rest, and the same step for the others.                    *)
LEMMA RestSound ==
  ASSUME NEW r \in Requests, req'[r] = Idle
  PROVE  RequestSound(r)'
  BY AtRest DEF RequestSound

LEMMA RequestKept ==
  ASSUME NEW r \in Requests, RequestSound(r), req'[r] = req[r]
  PROVE  RequestSound(r)'
  BY DEF RequestSound

------------------------------------------------------------------------------
(* Licensing: the invariant.                                               *)

(* A step of one request that leaves tokens and uses alone.                *)
LEMMA OneRequest ==
  ASSUME LicensingInv, NEW r \in Requests, NEW x \in Request,
         req' = [req EXCEPT ![r] = x], UNCHANGED <<licence, used, key>>, RequestSound(r)',
         server' \in [Servers -> [org : Orgs \cup {None}, deleted : BOOLEAN,
                                  print : Prints \cup {None}]]
  PROVE  LicensingInv'
<1>1. req' \in [Requests -> Request] /\ \A q \in Requests \ {r} : req'[q] = req[q]
  BY DEF LicensingInv, TypeOK
<1>2. TypeOK'
  BY <1>1 DEF LicensingInv, TypeOK
<1>3. ASSUME NEW q \in Requests \ {r} PROVE RequestSound(q)'
  BY <1>1, RequestKept DEF LicensingInv
<1>4. QED  BY <1>2, <1>3 DEF LicensingInv

(* A step of no request.                                                   *)
LEMMA NoRequest ==
  ASSUME LicensingInv, TypeOK', UNCHANGED req
  PROVE  LicensingInv'
BY RequestKept DEF LicensingInv

LEMMA BindFacts ==
  ASSUME LicensingInv, NEW r \in Requests, Bind(r)
  PROVE  /\ req[r].to \in Servers /\ req[r].key \in Keys /\ req[r].org \in Orgs
         /\ req' = [req EXCEPT ![r] = Idle] /\ key' = key
         /\ \/ UNCHANGED <<server, licence, used>>
            \/ /\ licence' = [licence EXCEPT ![req[r].to].token = req[r].key]
               /\ used' = [used EXCEPT ![req[r].key] = @ + 1]
               /\ \/ server' = server
                  \/ req[r].creates /\ server' = [server EXCEPT ![req[r].to].org = req[r].org]
  BY DEF Bind, Finish, LicensingInv, RequestSound

(* The request after its SELECT, and after its count.                      *)
LEMMA PickFacts ==
  ASSUME NEW r \in Requests, Pick(r), req[r] \in Request
  PROVE  \E x \in Request :
           /\ req' = [req EXCEPT ![r] = x] /\ x.pc \in {"afford", "bind"}
           /\ x.org = req[r].org /\ x.key = req[r].key /\ x.creates = req[r].creates
           /\ x.pc = "bind" => x.to \in Servers
<1> DEFINE bare == Live(req[r].org) \ Licensed
           aff == [req[r] EXCEPT !.pc = "afford"]
           bnd(s) == [req[r] EXCEPT !.pc = "bind", !.to = s]
<1>1. \/ req' = [req EXCEPT ![r] = aff]
      \/ \E s \in bare : req' = [req EXCEPT ![r] = bnd(s)]
  BY DEF Pick
<1>2. /\ aff \in Request /\ aff.pc = "afford" /\ aff.org = req[r].org
      /\ aff.key = req[r].key /\ aff.creates = req[r].creates
  BY DEF Request, Steps
<1>3. \A s \in bare : /\ bnd(s) \in Request /\ bnd(s).pc = "bind" /\ bnd(s).org = req[r].org
                       /\ bnd(s).key = req[r].key /\ bnd(s).creates = req[r].creates
                       /\ bnd(s).to \in Servers
  BY LiveServers DEF Request, Steps
<1> HIDE DEF aff, bnd, bare
<1>4. QED  BY <1>1, <1>2, <1>3

LEMMA AffordFacts ==
  ASSUME NEW r \in Requests, Afford(r), ~Finish(r), req[r] \in Request
  PROVE  \E x \in Request :
           /\ req' = [req EXCEPT ![r] = x] /\ x.pc = "bind"
           /\ x.org = req[r].org /\ x.key = req[r].key /\ x.to \in Servers
           /\ x.counted = Live(req[r].org) /\ x.counted \in SUBSET Servers
           /\ Cardinality(x.counted) < Quota
<1> DEFINE n == Live(req[r].org)
           bnd(s) == [req[r] EXCEPT !.pc = "bind", !.to = s, !.creates = TRUE, !.counted = n]
<1>1. Cardinality(n) < Quota /\ \E s \in Servers : req' = [req EXCEPT ![r] = bnd(s)]
  BY DEF Afford
<1>2. n \in SUBSET Servers
  BY LiveServers
<1>3. PICK s \in Servers : req' = [req EXCEPT ![r] = bnd(s)]
  BY <1>1
<1>4. /\ bnd(s) \in Request /\ bnd(s).pc = "bind" /\ bnd(s).org = req[r].org
      /\ bnd(s).key = req[r].key /\ bnd(s).to = s /\ bnd(s).counted = n
  BY <1>2 DEF Request, Steps
<1> HIDE DEF bnd
<1>5. QED  BY <1>1, <1>2, <1>3, <1>4

LEMMA LicensingInductive == LicensingInv /\ [Next]_vars => LicensingInv'
<1> SUFFICES ASSUME LicensingInv, [Next]_vars PROVE LicensingInv'
  OBVIOUS
<1>0. /\ TypeOK /\ \A r \in Requests : RequestSound(r) /\ req[r] \in Request
  BY DEF LicensingInv, TypeOK
<1>1. ASSUME NEW r \in Requests, NEW o \in Orgs, Count(r, o) PROVE LicensingInv'
  <2> DEFINE x == [req[r] EXCEPT !.pc = "insert", !.org = o, !.counted = Live(o)]
  <2>1. /\ req[r].pc = "idle" /\ Cardinality(Live(o)) < Quota
        /\ req' = [req EXCEPT ![r] = x] /\ UNCHANGED <<server, licence, key, used>>
    BY <1>1 DEF Count
  <2>2. /\ x \in Request /\ x.pc = "insert" /\ x.org = o /\ x.counted = Live(o)
        /\ x.key = req[r].key /\ x.creates = req[r].creates
    BY <1>0, LiveServers DEF Request, Steps
  <2> HIDE DEF x
  <2>3. req'[r] = x
    BY <1>0, <2>1 DEF TypeOK
  <2>4. RequestSound(r)'
    BY <1>0, <2>1, <2>2, <2>3, LiveServers, LiveFinite DEF RequestSound
  <2>5. QED  BY <1>0, <2>1, <2>2, <2>4, OneRequest DEF TypeOK
<1>2. ASSUME NEW r \in Requests, NEW o \in Orgs, NEW k \in Keys, Check(r, o, k) PROVE LicensingInv'
  <2> DEFINE x == [req[r] EXCEPT !.pc = "pick", !.org = o, !.key = k]
  <2>1. /\ req[r].pc = "idle"
        /\ req' = [req EXCEPT ![r] = x] /\ UNCHANGED <<server, licence, key, used>>
    BY <1>2 DEF Check
  <2>2. /\ x \in Request /\ x.pc = "pick" /\ x.org = o /\ x.key = k
        /\ x.creates = req[r].creates
    BY <1>0 DEF Request, Steps
  <2> HIDE DEF x
  <2>3. req'[r] = x
    BY <1>0, <2>1 DEF TypeOK
  <2>4. RequestSound(r)'
    BY <1>0, <2>1, <2>2, <2>3 DEF RequestSound
  <2>5. QED  BY <1>0, <2>1, <2>2, <2>4, OneRequest DEF TypeOK
<1>3. ASSUME NEW r \in Requests, req' = [req EXCEPT ![r] = Idle], UNCHANGED <<licence, key, used>>,
             server' \in [Servers -> [org : Orgs \cup {None}, deleted : BOOLEAN,
                                      print : Prints \cup {None}]]
      PROVE LicensingInv'
  <2>1. req'[r] = Idle
    BY <1>0, <1>3 DEF TypeOK
  <2>2. RequestSound(r)'
    BY <2>1, RestSound
  <2>3. QED  BY <1>3, <2>2, AtRest, OneRequest
<1>4. ASSUME NEW r \in Requests, NEW s \in Servers, Create(r, s) PROVE LicensingInv'
  <2>1. req[r].org \in Orgs
    BY <1>0, <1>4 DEF Create, RequestSound
  <2>2. server' \in [Servers -> [org : Orgs \cup {None}, deleted : BOOLEAN, print : Prints \cup {None}]]
    BY <1>0, <1>4, <2>1 DEF Create, TypeOK
  <2>3. QED  BY <1>3, <1>4, <2>2 DEF Create, Finish
<1>5. ASSUME NEW r \in Requests, Fail(r) PROVE LicensingInv'
  BY <1>0, <1>3, <1>5 DEF Fail, Finish, TypeOK
<1>6. ASSUME NEW r \in Requests, Pick(r) \/ Afford(r) PROVE LicensingInv'
  <2>1. req[r].pc \in {"pick", "afford"} /\ UNCHANGED <<server, licence, key, used>>
    BY <1>6 DEF Pick, Afford
  <2>2. /\ req[r].org \in Orgs /\ req[r].key \in Keys /\ ~req[r].creates
        /\ req[r].creates \in BOOLEAN
    BY <1>0, <2>1 DEF RequestSound, Request
  <2>3. ASSUME NEW x \in Request, req' = [req EXCEPT ![r] = x], x.pc \in {"afford", "bind"},
               x.org = req[r].org, x.key = req[r].key, x.pc = "bind" => x.to \in Servers,
               x.creates => /\ x.pc = "bind" /\ x.counted \in SUBSET Servers
                            /\ Cardinality(x.counted) < Quota
        PROVE  LicensingInv'
    <3>1. req'[r] = x
      BY <1>0, <2>3 DEF TypeOK
    <3>2. RequestSound(r)'
      BY <2>2, <2>3, <3>1, LiveFinite DEF RequestSound
    <3>3. QED  BY <1>0, <2>1, <2>3, <3>2, OneRequest DEF TypeOK
  <2>4. CASE Pick(r)
    BY <2>1, <2>2, <2>3, <2>4, PickFacts, <1>0
  <2>5. CASE Afford(r) /\ ~Finish(r)
    BY <2>1, <2>2, <2>3, <2>5, AffordFacts, <1>0
  <2>6. CASE Finish(r)
    BY <1>0, <1>3, <2>1, <2>6 DEF Finish, TypeOK
  <2>7. QED  BY <1>6, <2>4, <2>5, <2>6
<1>7. ASSUME NEW r \in Requests, Bind(r) PROVE LicensingInv'
  <2> DEFINE k == req[r].key
             s == req[r].to
  <2>1. CASE UNCHANGED <<server, licence, used>>
    BY <1>0, <1>3, <1>7, <2>1, BindFacts DEF TypeOK
  <2>2. CASE licence' = [licence EXCEPT ![s].token = k] /\ used' = [used EXCEPT ![k] = @ + 1]
    <3>1. /\ k \in Keys /\ s \in Servers /\ req[r].org \in Orgs /\ key' = key
          /\ req' = [req EXCEPT ![r] = Idle]
      BY <1>7, BindFacts
    <3>2. server' = server \/ server' = [server EXCEPT ![s].org = req[r].org]
      BY <1>7, BindFacts
    <3>3. TypeOK'
      <4>1. server' \in [Servers -> [org : Orgs \cup {None}, deleted : BOOLEAN,
                                     print : Prints \cup {None}]]
        <5>1. CASE server' = server
          BY <1>0, <5>1 DEF TypeOK
        <5>2. CASE server' = [server EXCEPT ![s].org = req[r].org]
          <6> DEFINE y == [server[s] EXCEPT !.org = req[r].org]
          <6>1. y \in [org : Orgs \cup {None}, deleted : BOOLEAN, print : Prints \cup {None}]
            BY <1>0, <3>1 DEF TypeOK
          <6>2. server' = [server EXCEPT ![s] = y]
            BY <5>2
          <6> HIDE DEF y
          <6>3. QED  BY <1>0, <6>1, <6>2 DEF TypeOK
        <5>3. QED  BY <3>2, <5>1, <5>2
      <4>2. licence' \in [Servers -> [token : Keys \cup {Own, Granted, None}, revoked : BOOLEAN]]
        <5> DEFINE y == [licence[s] EXCEPT !.token = k]
        <5>1. licence[s] \in Licence /\ licence' = [licence EXCEPT ![s] = y]
          BY <1>0, <2>2, <3>1 DEF TypeOK, Licence
        <5>2. y \in Licence
          BY <3>1, <5>1, LicenceType
        <5> HIDE DEF y
        <5>3. QED  BY <1>0, <3>1, <5>1, <5>2, LicencesType
      <4>3. QED  BY <1>0, <2>2, <3>1, <4>1, <4>2, AtRest DEF TypeOK
    <3>4. RequestSound(r)'
      BY <1>0, <3>1, RestSound DEF TypeOK
    <3>5. ASSUME NEW q \in Requests \ {r} PROVE RequestSound(q)'
      BY <1>0, <3>1, RequestKept DEF TypeOK
    <3>6. QED  BY <3>3, <3>4, <3>5 DEF LicensingInv
  <2>3. QED  BY <1>7, <2>1, <2>2, BindFacts
<1>8. ASSUME NEW k \in Keys, Generate(k) \/ Expire(k) PROVE LicensingInv'
  <2>1. TypeOK' /\ UNCHANGED req
    BY <1>0, <1>8 DEF Generate, Expire, TypeOK, Ages
  <2>2. QED  BY <2>1, NoRequest
<1>9. ASSUME NEW s \in Servers, Delete(s) \/ \E f \in Prints : Report(s, f) PROVE LicensingInv'
  <2>1. TypeOK' /\ UNCHANGED req
    BY <1>0, <1>9 DEF Delete, Report, TypeOK
  <2>2. QED  BY <2>1, NoRequest
<1>10. ASSUME NEW s \in Servers, Issue(s) \/ AdminIssue(s) \/ \E off \in BOOLEAN : Revoke(s, off)
       PROVE LicensingInv'
  <2>1. TypeOK' /\ UNCHANGED req
    <3>1. licence[s] \in Licence
      BY <1>0 DEF TypeOK, Licence
    <3>2. PICK y \in Licence : licence' = [licence EXCEPT ![s] = y]
      BY <1>10, <3>1, LicenceType DEF Issue, AdminIssue, Revoke
    <3>3. UNCHANGED <<server, req, key, used>>
      BY <1>10 DEF Issue, AdminIssue, Revoke
    <3>4. QED  BY <1>0, <3>2, <3>3, LicencesType DEF TypeOK
  <2>2. QED  BY <2>1, NoRequest
<1>11. CASE UNCHANGED vars
  <2>1. TypeOK' /\ UNCHANGED req
    BY <1>0, <1>11 DEF vars, TypeOK
  <2>2. QED  BY <2>1, NoRequest
<1>12. QED
  BY <1>1, <1>2, <1>4, <1>5, <1>6, <1>7, <1>8, <1>9, <1>10, <1>11 DEF Next

LEMMA LicensingInitial == Init => LicensingInv
  BY AtRest, LicensingAssumption DEF Init, LicensingInv, TypeOK, RequestSound, Ages

LEMMA LicensingInvariant == Spec => []LicensingInv
  BY LicensingInitial, LicensingInductive, PTL DEF Spec

------------------------------------------------------------------------------
(* Licensing: what a step does to the quota and the verdicts.              *)

(* A server joins an organization only by a request that counted few.      *)
LEMMA GrowthStep ==
  ASSUME LicensingInv, [Next]_vars, NEW o \in Orgs, ~(Live(o)' \subseteq Live(o))
  PROVE  \E r \in Requests, s \in Servers :
           /\ req[r].pc \in {"insert", "bind"} /\ req' = [req EXCEPT ![r] = Idle]
           /\ r \in Creating(o) /\ req'[r] # req[r] /\ req[r].org = o
           /\ IsFiniteSet(req[r].counted) /\ Cardinality(req[r].counted) < Quota
           /\ Live(o)' \subseteq Live(o) \cup {s}
<1>1. TypeOK
  BY DEF LicensingInv
<1>2. ASSUME NEW r \in Requests, NEW s \in Servers, server' = [server EXCEPT ![s].org = req[r].org]
      PROVE  Live(o)' \subseteq Live(o) \cup {s} /\ req[r].org = o
  <2>1. \A t \in Servers \ {s} : server'[t] = server[t]
    BY <1>1, <1>2 DEF TypeOK
  <2>2. Live(o)' \subseteq Live(o) \cup {s}
    BY <2>1 DEF Live
  <2>3. server'[s].org = req[r].org
    BY <1>1, <1>2 DEF TypeOK
  <2>4. s \in Live(o)'
    BY <2>2
  <2>5. QED  BY <2>2, <2>3, <2>4 DEF Live
<1>3. ASSUME NEW r \in Requests, NEW s \in Servers, Create(r, s)
      PROVE  /\ req[r].pc = "insert" /\ req' = [req EXCEPT ![r] = Idle] /\ req'[r] # req[r]
             /\ IsFiniteSet(req[r].counted) /\ Cardinality(req[r].counted) < Quota
             /\ server' = [server EXCEPT ![s].org = req[r].org]
  BY <1>1, <1>3, AtRest DEF Create, Finish, LicensingInv, RequestSound, TypeOK
<1>4. ASSUME NEW r \in Requests, Bind(r)
      PROVE  /\ req[r].pc = "bind" /\ req' = [req EXCEPT ![r] = Idle] /\ req'[r] # req[r]
             /\ req[r].creates /\ IsFiniteSet(req[r].counted) /\ Cardinality(req[r].counted) < Quota
             /\ req[r].to \in Servers /\ server' = [server EXCEPT ![req[r].to].org = req[r].org]
  <2>1. server' # server
    BY DEF Live
  <2>2. req[r].creates /\ server' = [server EXCEPT ![req[r].to].org = req[r].org]
    BY <1>4, <2>1, BindFacts
  <2>3. req[r].pc = "bind" /\ req' = [req EXCEPT ![r] = Idle] /\ req[r].to \in Servers
    BY <1>4, BindFacts DEF Bind
  <2>4. QED  BY <1>1, <2>2, <2>3, AtRest DEF LicensingInv, RequestSound, TypeOK
<1>5. ASSUME NEW s \in Servers, Delete(s) \/ \E f \in Prints : Report(s, f) PROVE FALSE
  <2>1. \A t \in Servers : /\ server'[t].org = server[t].org
                           /\ server[t].deleted => server'[t].deleted
    BY <1>1, <1>5 DEF Delete, Report, TypeOK
  <2>2. QED  BY <2>1 DEF Live
<1>6. CASE UNCHANGED server
  BY <1>6 DEF Live
<1>7. CASE \E r \in Requests, s \in Servers : Create(r, s)
  <2>1. PICK r \in Requests, s \in Servers : Create(r, s)
    BY <1>7
  <2>2. r \in Creating(o)
    BY <1>2, <1>3, <2>1 DEF Creating
  <2>3. QED  BY <1>2, <1>3, <2>1, <2>2
<1>8. CASE \E r \in Requests : Bind(r)
  <2>1. PICK r \in Requests : Bind(r)
    BY <1>8
  <2>2. r \in Creating(o)
    BY <1>2, <1>4, <2>1 DEF Creating
  <2>3. QED  BY <1>2, <1>4, <2>1, <2>2
<1>9. QED
  BY <1>5, <1>6, <1>7, <1>8
     DEF Next, Count, Check, Pick, Afford, Fail, Generate, Expire, Issue, AdminIssue, Revoke, vars

(* Only a count below the quota adds to the requests creating a server.    *)
LEMMA CreatingStep ==
  ASSUME LicensingInv, [Next]_vars, NEW o \in Orgs, ~(Creating(o)' \subseteq Creating(o))
  PROVE  UNCHANGED server /\ Cardinality(Live(o)) < Quota
<1>1. TypeOK /\ \A r \in Requests : RequestSound(r) /\ req[r] \in Request
  BY DEF LicensingInv, TypeOK
<1>2. ASSUME NEW r \in Requests, NEW x, req' = [req EXCEPT ![r] = x],
             x.pc = "insert" \/ x.creates =>
               /\ req[r].pc = "insert" \/ req[r].creates
               /\ x.org = req[r].org
      PROVE  FALSE
  BY <1>1, <1>2 DEF Creating, TypeOK
<1>3. ASSUME NEW r \in Requests, req' = [req EXCEPT ![r] = Idle] PROVE FALSE
  BY <1>2, <1>3, AtRest
<1>4. ASSUME NEW r \in Requests, NEW x, req' = [req EXCEPT ![r] = x],
             ~(req[r].pc = "insert" \/ req[r].creates)
      PROVE  x.org = o
  BY <1>1, <1>4 DEF Creating, TypeOK
<1>5. ASSUME NEW r \in Requests, NEW n \in Orgs, Count(r, n)
      PROVE  UNCHANGED server /\ Cardinality(Live(o)) < Quota
  <2> DEFINE x == [req[r] EXCEPT !.pc = "insert", !.org = n, !.counted = Live(n)]
  <2>1. /\ req[r].pc = "idle" /\ req' = [req EXCEPT ![r] = x] /\ UNCHANGED server
        /\ Cardinality(Live(n)) < Quota /\ x.org = n
    BY <1>1, <1>5 DEF Count, Request
  <2> HIDE DEF x
  <2>2. n = o
    BY <1>1, <1>4, <2>1 DEF RequestSound
  <2>3. QED  BY <2>1, <2>2
<1>6. ASSUME NEW r \in Requests, NEW n \in Orgs, NEW k \in Keys, Check(r, n, k) PROVE FALSE
  <2> DEFINE x == [req[r] EXCEPT !.pc = "pick", !.org = n, !.key = k]
  <2>1. /\ req[r].pc = "idle" /\ req' = [req EXCEPT ![r] = x]
        /\ x.pc = "pick" /\ x.creates = req[r].creates
    BY <1>1, <1>6 DEF Check, Request
  <2> HIDE DEF x
  <2>2. QED  BY <1>1, <1>2, <2>1 DEF RequestSound
<1>7. ASSUME NEW r \in Requests, Pick(r) PROVE FALSE
  <2>1. req[r].pc = "pick" /\ ~req[r].creates
    BY <1>1, <1>7 DEF Pick, RequestSound
  <2>2. PICK x \in Request : /\ req' = [req EXCEPT ![r] = x] /\ x.pc \in {"afford", "bind"}
                             /\ x.creates = req[r].creates
    BY <1>1, <1>7, PickFacts
  <2>3. QED  BY <1>2, <2>1, <2>2
<1>8. ASSUME NEW r \in Requests, Afford(r)
      PROVE  UNCHANGED server /\ Cardinality(Live(o)) < Quota
  <2>1. req[r].pc = "afford" /\ UNCHANGED server /\ ~req[r].creates /\ ~Finish(r)
    BY <1>1, <1>3, <1>8 DEF Afford, RequestSound, Finish
  <2>2. PICK x \in Request : /\ req' = [req EXCEPT ![r] = x] /\ x.org = req[r].org
                             /\ x.counted = Live(req[r].org) /\ Cardinality(x.counted) < Quota
    BY <1>1, <1>8, <2>1, AffordFacts
  <2>3. req[r].org = o
    BY <1>4, <2>1, <2>2
  <2>4. QED  BY <2>1, <2>2, <2>3
<1>9. CASE UNCHANGED req
  BY <1>9 DEF Creating
<1>10. ASSUME NEW r \in Requests, Bind(r) \/ Fail(r) \/ \E s \in Servers : Create(r, s)
       PROVE  FALSE
  BY <1>3, <1>10 DEF Bind, Fail, Create, Finish
<1>11. QED
  BY <1>5, <1>6, <1>7, <1>8, <1>9, <1>10
     DEF Next, Generate, Expire, Delete, Report, Issue, AdminIssue, Revoke, vars

LEMMA QuotaRoomStep == LicensingInv /\ QuotaRoom /\ [Next]_vars => QuotaRoom'
<1> SUFFICES ASSUME LicensingInv, QuotaRoom, [Next]_vars, NEW o \in Orgs
             PROVE  Cardinality(Live(o)') + Cardinality(Creating(o)')
                      <= Quota + Cardinality(Requests) - 1
  BY DEF QuotaRoom
<1>1. /\ Live(o) \in SUBSET Servers /\ Live(o)' \in SUBSET Servers
      /\ Creating(o) \in SUBSET Requests /\ Creating(o)' \in SUBSET Requests
  BY DEF Live, Creating
<1>2. /\ IsFiniteSet(Live(o)) /\ Cardinality(Live(o)) \in Nat /\ Cardinality(Live(o)') \in Nat
      /\ IsFiniteSet(Creating(o)) /\ Cardinality(Creating(o)) \in Nat
      /\ Cardinality(Creating(o)') \in Nat /\ Cardinality(Creating(o)') <= Cardinality(Requests)
      /\ Cardinality(Requests) \in Nat /\ Quota \in Nat
  BY <1>1, LiveFinite, RequestsFinite, LicensingAssumption
<1>3. Cardinality(Live(o)) + Cardinality(Creating(o)) <= Quota + Cardinality(Requests) - 1
  BY DEF QuotaRoom
<1>4. CASE ~(Live(o)' \subseteq Live(o))
  <2>1. PICK r \in Creating(o), s \in Servers :
          req' = [req EXCEPT ![r] = Idle] /\ Live(o)' \subseteq Live(o) \cup {s}
    BY <1>4, GrowthStep
  <2>2. Cardinality(Live(o)') <= Cardinality(Live(o)) + 1
    BY <1>2, <2>1, OneServerMore
  <2>3. Creating(o)' \subseteq Creating(o) \ {r}
    BY <1>1, <2>1, AtRest DEF Creating, LicensingInv, TypeOK
  <2>4. Cardinality(Creating(o) \ {r}) = Cardinality(Creating(o)) - 1 /\ IsFiniteSet(Creating(o) \ {r})
    BY <1>2, <2>1, FS_RemoveElement
  <2>5. Cardinality(Creating(o)') <= Cardinality(Creating(o)) - 1
    BY <2>3, <2>4, FS_Subset
  <2>6. QED  BY <1>2, <1>3, <2>2, <2>5
<1>5. CASE ~(Creating(o)' \subseteq Creating(o))
  <2>1. UNCHANGED server /\ Cardinality(Live(o)) < Quota
    BY <1>5, CreatingStep
  <2>2. Live(o)' = Live(o)
    BY <2>1 DEF Live
  <2>3. QED  BY <1>2, <2>1, <2>2
<1>6. CASE Live(o)' \subseteq Live(o) /\ Creating(o)' \subseteq Creating(o)
  <2>1. Cardinality(Live(o)') <= Cardinality(Live(o))
    BY <1>2, <1>6, FS_Subset
  <2>2. Cardinality(Creating(o)') <= Cardinality(Creating(o))
    BY <1>2, <1>6, FS_Subset
  <2>3. QED  BY <1>2, <1>3, <2>1, <2>2
<1>7. QED  BY <1>4, <1>5, <1>6

LEMMA QuotaRoomInitial == Init => QuotaRoom
<1> SUFFICES ASSUME Init, NEW o \in Orgs
             PROVE  Cardinality(Live(o)) + Cardinality(Creating(o)) <= Quota + Cardinality(Requests) - 1
  BY DEF QuotaRoom
<1>1. Live(o) = {} /\ Creating(o) = {}
  BY AtRest, LicensingAssumption DEF Init, Live, Creating
<1>2. Cardinality(Requests) \in Nat /\ Quota \in Nat \ {0}
  BY RequestsFinite, LicensingAssumption
<1>3. QED  BY <1>1, <1>2, FS_EmptySet

LEMMA QuotaStep ==
  ASSUME LicensingInv, [Next]_vars, NEW o \in Orgs,
         Cardinality(Live(o)') > Quota, Cardinality(Live(o)') > Cardinality(Live(o))
  PROVE  \E r \in Requests : /\ req[r].pc \in {"insert", "bind"} /\ req'[r] # req[r]
                             /\ req[r].org = o /\ Live(o) \ req[r].counted # {}
<1>1. /\ IsFiniteSet(Live(o)) /\ Cardinality(Live(o)) \in Nat /\ Live(o) \in SUBSET Servers
      /\ IsFiniteSet(Live(o)') /\ Cardinality(Live(o)') \in Nat /\ Quota \in Nat
  <2>1. Live(o)' \in SUBSET Servers
    BY DEF Live
  <2>2. QED  BY <2>1, LiveServers, LiveFinite, LicensingAssumption
<1>2. ~(Live(o)' \subseteq Live(o))
  BY <1>1, FS_Subset
<1>3. PICK r \in Requests, s \in Servers :
        /\ req[r].pc \in {"insert", "bind"} /\ req'[r] # req[r] /\ req[r].org = o
        /\ IsFiniteSet(req[r].counted) /\ Cardinality(req[r].counted) < Quota
        /\ Live(o)' \subseteq Live(o) \cup {s}
  BY <1>2, GrowthStep
<1>4. Cardinality(Live(o)') <= Cardinality(Live(o)) + 1
  BY <1>1, <1>3, OneServerMore
<1>5. Live(o) \ req[r].counted # {}
  <2>1. SUFFICES ASSUME Live(o) \subseteq req[r].counted PROVE FALSE
    OBVIOUS
  <2>2. Cardinality(Live(o)) <= Cardinality(req[r].counted) /\ Cardinality(req[r].counted) \in Nat
    BY <1>3, <2>1, FS_Subset, FS_CardinalityType
  <2>3. QED  BY <1>1, <1>3, <1>4, <2>2
<1>6. QED  BY <1>3, <1>5

(* Which licensed servers of a fingerprint keep it, revoked, until the     *)
(* vendor's hand: one in whose row the revocation is gone is his.          *)
LEMMA VerdictStep ==
  ASSUME LicensingInv, [Next]_vars, NEW f \in Prints,
         Verdicts(f) = {"revoked"}, "active" \in Verdicts(f)', Bearers(f)' # {},
         \A s \in Bearers(f)' \ Bearers(f) : licence'[s].revoked
  PROVE  \E s \in Bearers(f) : AdminIssue(s) \/ Revoke(s, FALSE)
<1>1. TypeOK
  BY DEF LicensingInv
<1>2. /\ Bearers(f) \subseteq Servers /\ \A b \in Bearers(f) : licence[b].revoked
  <2>1. Bearers(f) # {} /\ Bearers(f) \subseteq Servers
    BY DEF Verdicts, Bearers, Licensed
  <2>2. ASSUME NEW b \in Bearers(f), ~licence[b].revoked PROVE FALSE
    BY <2>1, <2>2 DEF Verdicts
  <2>3. QED  BY <2>1, <2>2
<1>3. PICK b \in Bearers(f) : ~licence'[b].revoked
  <2>1. PICK b \in Bearers(f)' : ~licence'[b].revoked
    BY DEF Verdicts
  <2>2. QED  BY <2>1
<1>4. b \in Servers /\ licence[b].revoked /\ licence'[b].revoked # licence[b].revoked
  BY <1>1, <1>2, <1>3 DEF TypeOK
<1>5. ASSUME NEW r \in Requests, Bind(r) PROVE FALSE
  <2> DEFINE s == req[r].to
             y == [licence[s] EXCEPT !.token = req[r].key]
  <2>1. s \in Servers /\ licence' = [licence EXCEPT ![s] = y]
    BY <1>4, <1>5, BindFacts
  <2>2. y.revoked = licence[s].revoked
    BY <1>1, <2>1 DEF TypeOK
  <2> HIDE DEF y
  <2>3. QED  BY <1>1, <1>4, <2>1, <2>2 DEF TypeOK
<1>6. ASSUME NEW s \in Servers, Issue(s) PROVE FALSE
  BY <1>1, <1>4, <1>6 DEF Issue, TypeOK
<1>7. ASSUME NEW s \in Servers, Revoke(s, TRUE) PROVE FALSE
  BY <1>1, <1>4, <1>7 DEF Revoke, TypeOK
<1>8. licence' # licence
  BY <1>4
<1>9. ASSUME NEW s \in Servers \ {b}, AdminIssue(s) \/ Revoke(s, FALSE) PROVE FALSE
  BY <1>1, <1>4, <1>9 DEF AdminIssue, Revoke, TypeOK
<1>10. QED
  BY <1>5, <1>6, <1>7, <1>8, <1>9
     DEF Next, Count, Check, Create, Pick, Afford, Fail, Generate, Expire, Delete, Report, vars

(* A licence gets a key only from a request that checked it.               *)
LEMMA HoldersStep ==
  ASSUME LicensingInv, [Next]_vars, NEW k \in Keys, ~(Holders(k)' \subseteq Holders(k))
  PROVE  \E r \in Checked(k), s \in Servers :
           req' = [req EXCEPT ![r] = Idle] /\ Holders(k)' \subseteq Holders(k) \cup {s}
<1>1. TypeOK
  BY DEF LicensingInv
<1>2. ASSUME NEW s \in Servers, NEW t, t \notin Keys, NEW y,
             licence' = [licence EXCEPT ![s] = y], y.token \in {licence[s].token, t}
      PROVE  FALSE
  BY <1>1, <1>2 DEF Holders, TypeOK
<1>3. ASSUME NEW s \in Servers, Issue(s) \/ AdminIssue(s) \/ \E off \in BOOLEAN : Revoke(s, off)
      PROVE  FALSE
  <2>1. CASE Issue(s)
    <3> DEFINE y == [licence[s] EXCEPT !.token = Own]
    <3>1. y.token = Own /\ licence' = [licence EXCEPT ![s] = y]
      BY <1>1, <2>1 DEF Issue, TypeOK
    <3> HIDE DEF y
    <3>2. QED  BY <1>2, <3>1, LicensingAssumption
  <2>2. CASE AdminIssue(s)
    <3> DEFINE y == [token |-> Granted, revoked |-> FALSE]
    <3>1. y.token = Granted /\ licence' = [licence EXCEPT ![s] = y]
      BY <2>2 DEF AdminIssue
    <3> HIDE DEF y
    <3>2. QED  BY <1>2, <3>1, LicensingAssumption
  <2>3. ASSUME NEW off \in BOOLEAN, Revoke(s, off) PROVE FALSE
    <3> DEFINE y == [licence[s] EXCEPT !.revoked = off]
    <3>1. y.token = licence[s].token /\ licence' = [licence EXCEPT ![s] = y]
      BY <1>1, <2>3 DEF Revoke, TypeOK
    <3> HIDE DEF y
    <3>2. QED  BY <1>2, <3>1, LicensingAssumption
  <2>4. QED  BY <1>3, <2>1, <2>2, <2>3
<1>4. licence' # licence
  BY DEF Holders
<1>5. ASSUME NEW r \in Requests, Bind(r)
      PROVE  \E q \in Checked(k), s \in Servers :
               req' = [req EXCEPT ![q] = Idle] /\ Holders(k)' \subseteq Holders(k) \cup {s}
  <2> DEFINE s == req[r].to
             y == [licence[s] EXCEPT !.token = req[r].key]
  <2>1. /\ s \in Servers /\ licence' = [licence EXCEPT ![s] = y]
        /\ req' = [req EXCEPT ![r] = Idle]
    BY <1>4, <1>5, BindFacts
  <2>2. y.token = req[r].key
    BY <1>1, <2>1 DEF TypeOK
  <2> HIDE DEF y
  <2>3. Holders(k)' \subseteq Holders(k) \cup {s}
    <3> HIDE DEF s
    <3>1. \A t \in Servers \ {s} : licence'[t] = licence[t]
      BY <1>1, <2>1 DEF TypeOK
    <3>2. QED  BY <3>1 DEF Holders
  <2>4. req[r].key = k
    <3>1. s \in Holders(k)'
      BY <2>3
    <3>2. QED  BY <1>1, <2>1, <2>2, <3>1 DEF Holders, TypeOK
  <2>5. QED  BY <2>1, <2>3, <2>4 DEF Checked
<1>6. QED
  BY <1>3, <1>4, <1>5
     DEF Next, Count, Check, Create, Pick, Afford, Fail, Generate, Expire, Delete, Report, vars

(* And only a key no licence holds gets another request in.                *)
LEMMA CheckedStep ==
  ASSUME LicensingInv, [Next]_vars, NEW k \in Keys, ~(Checked(k)' \subseteq Checked(k))
  PROVE  UNCHANGED licence /\ Holders(k) = {}
<1>1. TypeOK /\ \A r \in Requests : req[r] \in Request /\ k # None
  BY LicensingAssumption DEF LicensingInv, TypeOK
<1>2. ASSUME NEW r \in Requests, NEW x, req' = [req EXCEPT ![r] = x],
             x.key \in {req[r].key, None}
      PROVE  FALSE
  BY <1>1, <1>2, LicensingAssumption DEF Checked, TypeOK
<1>3. ASSUME NEW r \in Requests, NEW o \in Orgs, Count(r, o) PROVE FALSE
  <2> DEFINE x == [req[r] EXCEPT !.pc = "insert", !.org = o, !.counted = Live(o)]
  <2>1. x.key = req[r].key /\ req' = [req EXCEPT ![r] = x]
    BY <1>1, <1>3 DEF Count, Request
  <2> HIDE DEF x
  <2>2. QED  BY <1>2, <2>1
<1>4. ASSUME NEW r \in Requests, NEW o \in Orgs, NEW j \in Keys, Check(r, o, j)
      PROVE  UNCHANGED licence /\ Holders(k) = {}
  <2> DEFINE x == [req[r] EXCEPT !.pc = "pick", !.org = o, !.key = j]
  <2>1. /\ x.key = j /\ req' = [req EXCEPT ![r] = x]
        /\ UNCHANGED licence /\ Holders(j) = {}
    BY <1>1, <1>4 DEF Check, Request
  <2> HIDE DEF x
  <2>2. j = k
    BY <1>1, <2>1 DEF Checked, TypeOK
  <2>3. QED  BY <2>1, <2>2
<1>5. ASSUME NEW r \in Requests, Finish(r) PROVE FALSE
  BY <1>2, <1>5, AtRest DEF Finish
<1>6. ASSUME NEW r \in Requests, Pick(r) PROVE FALSE
  BY <1>1, <1>2, <1>6, PickFacts
<1>7. ASSUME NEW r \in Requests, Afford(r) PROVE FALSE
  BY <1>1, <1>2, <1>5, <1>7, AffordFacts
<1>8. CASE UNCHANGED req
  BY <1>8 DEF Checked
<1>9. QED
  BY <1>3, <1>4, <1>5, <1>6, <1>7, <1>8
     DEF Next, Bind, Fail, Create, Generate, Expire, Delete, Report, Issue, AdminIssue,
         Revoke, vars

LEMMA KeyRoomStep == LicensingInv /\ KeyRoom /\ [Next]_vars => KeyRoom'
<1> SUFFICES ASSUME LicensingInv, KeyRoom, [Next]_vars, NEW k \in Keys
             PROVE  Cardinality(Holders(k)') + Cardinality(Checked(k)') <= Cardinality(Requests)
  BY DEF KeyRoom
<1>1. /\ Holders(k) \in SUBSET Servers /\ Holders(k)' \in SUBSET Servers
      /\ Checked(k) \in SUBSET Requests /\ Checked(k)' \in SUBSET Requests
  BY DEF Holders, Checked
<1>2. /\ IsFiniteSet(Holders(k)) /\ Cardinality(Holders(k)) \in Nat
      /\ Cardinality(Holders(k)') \in Nat
      /\ IsFiniteSet(Checked(k)) /\ Cardinality(Checked(k)) \in Nat
      /\ Cardinality(Checked(k)') \in Nat /\ Cardinality(Checked(k)') <= Cardinality(Requests)
      /\ Cardinality(Requests) \in Nat
  BY <1>1, LiveFinite, RequestsFinite
<1>3. Cardinality(Holders(k)) + Cardinality(Checked(k)) <= Cardinality(Requests)
  BY DEF KeyRoom
<1>4. CASE ~(Holders(k)' \subseteq Holders(k))
  <2>1. PICK r \in Checked(k), s \in Servers :
          req' = [req EXCEPT ![r] = Idle] /\ Holders(k)' \subseteq Holders(k) \cup {s}
    BY <1>4, HoldersStep
  <2>2. Cardinality(Holders(k)') <= Cardinality(Holders(k)) + 1
    BY <1>2, <2>1, OneServerMore
  <2>3. Checked(k)' \subseteq Checked(k) \ {r}
    BY <1>1, <2>1, AtRest, LicensingAssumption DEF Checked, LicensingInv, TypeOK
  <2>4. /\ Cardinality(Checked(k) \ {r}) = Cardinality(Checked(k)) - 1
        /\ IsFiniteSet(Checked(k) \ {r})
    BY <1>2, <2>1, FS_RemoveElement
  <2>5. Cardinality(Checked(k)') <= Cardinality(Checked(k)) - 1
    BY <2>3, <2>4, FS_Subset
  <2>6. QED  BY <1>2, <1>3, <2>2, <2>5
<1>5. CASE ~(Checked(k)' \subseteq Checked(k))
  <2>1. Holders(k)' = {}
    BY <1>5, CheckedStep DEF Holders
  <2>2. QED  BY <1>2, <2>1, FS_EmptySet
<1>6. CASE Holders(k)' \subseteq Holders(k) /\ Checked(k)' \subseteq Checked(k)
  <2>1. Cardinality(Holders(k)') <= Cardinality(Holders(k))
    BY <1>2, <1>6, FS_Subset
  <2>2. Cardinality(Checked(k)') <= Cardinality(Checked(k))
    BY <1>2, <1>6, FS_Subset
  <2>3. QED  BY <1>2, <1>3, <2>1, <2>2
<1>7. QED  BY <1>4, <1>5, <1>6

LEMMA KeyRoomInitial == Init => KeyRoom
<1> SUFFICES ASSUME Init, NEW k \in Keys
             PROVE  Cardinality(Holders(k)) + Cardinality(Checked(k)) <= Cardinality(Requests)
  BY DEF KeyRoom
<1>1. Holders(k) = {} /\ Checked(k) = {}
  BY AtRest, LicensingAssumption DEF Init, Holders, Checked
<1>2. Cardinality(Requests) \in Nat
  BY RequestsFinite
<1>3. QED  BY <1>1, <1>2, FS_EmptySet

------------------------------------------------------------------------------
(* Licensing: theorems.                                                    *)

(* Servers, licences and keys keep their types; activations are counted    *)
(* (routes.ts:863-929 and 3346-3470).                                      *)
THEOREM LicensingTypeCorrect == Spec => []TypeOK
<1>1. LicensingInv => TypeOK
  BY DEF LicensingInv
<1>2. QED  BY LicensingInvariant, <1>1, PTL

(* For every quota and number of requests, an organization grows past its  *)
(* quota only by a request whose count another has outdated                *)
(* (routes.ts:872-897 and 3410-3433).                                      *)
THEOREM QuotaPassedByARaceOnly == Spec => QuotaOnlyPassedByARace
<1>1. LicensingInv /\ [Next]_vars =>
        [\A o \in Orgs :
           Cardinality(Live(o)') > Quota /\ Cardinality(Live(o)') > Cardinality(Live(o)) =>
             \E r \in Requests : /\ req[r].pc \in {"insert", "bind"} /\ req'[r] # req[r]
                                 /\ req[r].org = o /\ Live(o) \ req[r].counted # {}]_vars
  BY QuotaStep
<1>2. QED  BY LicensingInvariant, <1>1, PTL DEF Spec, QuotaOnlyPassedByARace

(* However many requests count before the others insert, each passes the   *)
(* quota by one server at most, and the last of them not at all            *)
(* (routes.ts:872-897 and 3410-3433).                                      *)
THEOREM QuotaOvershoot == Spec => []QuotaOvershootBounded
<1>1. QuotaRoom => QuotaOvershootBounded
  <2> SUFFICES ASSUME QuotaRoom, NEW o \in Orgs
               PROVE  Cardinality(Live(o)) <= Quota + Cardinality(Requests) - 1
    BY DEF QuotaOvershootBounded
  <2>1. Live(o) \in SUBSET Servers /\ Creating(o) \in SUBSET Requests
    BY DEF Live, Creating
  <2>2. /\ Cardinality(Live(o)) \in Nat /\ Cardinality(Creating(o)) \in Nat
        /\ Cardinality(Requests) \in Nat /\ Quota \in Nat
    BY <2>1, LiveFinite, RequestsFinite, LicensingAssumption
  <2>3. Cardinality(Live(o)) + Cardinality(Creating(o)) <= Quota + Cardinality(Requests) - 1
    BY DEF QuotaRoom
  <2>4. QED  BY <2>2, <2>3
<1>2. QED  BY LicensingInvariant, QuotaRoomInitial, QuotaRoomStep, <1>1, PTL DEF Spec

(* However many requests check a key before the first of them writes it,   *)
(* it is on no more licences than there are requests, and one that a       *)
(* licence holds lets none in (routes.ts:3373-3383 and 3439-3443).         *)
THEOREM KeyShare == Spec => []KeyShareBounded
<1>1. KeyRoom => KeyShareBounded
  <2> SUFFICES ASSUME KeyRoom, NEW k \in Keys
               PROVE  Cardinality(Holders(k)) <= Cardinality(Requests)
    BY DEF KeyShareBounded
  <2>1. Holders(k) \in SUBSET Servers /\ Checked(k) \in SUBSET Requests
    BY DEF Holders, Checked
  <2>2. /\ Cardinality(Holders(k)) \in Nat /\ Cardinality(Checked(k)) \in Nat
        /\ Cardinality(Requests) \in Nat
    BY <2>1, LiveFinite, RequestsFinite
  <2>3. Cardinality(Holders(k)) + Cardinality(Checked(k)) <= Cardinality(Requests)
    BY DEF KeyRoom
  <2>4. QED  BY <2>2, <2>3
<1>2. QED  BY LicensingInvariant, KeyRoomInitial, KeyRoomStep, <1>1, PTL DEF Spec

(* Once revoked everywhere, a fingerprint's verdict turns active only by   *)
(* the vendor's hand, when no licensed server bears it any more or when an *)
(* unrevoked one comes to: no customer's upsert clears it                  *)
(* (routes.ts:3605 and 3675-3691).                                         *)
THEOREM KillSwitchHolds == Spec => RevokedVerdictLasts
<1>1. LicensingInv /\ [Next]_vars =>
        [\A f \in Prints : Verdicts(f) = {"revoked"} /\ "active" \in Verdicts(f)' =>
           \/ Bearers(f)' = {}
           \/ \E s \in Bearers(f)' \ Bearers(f) : ~licence'[s].revoked
           \/ \E s \in Bearers(f) : AdminIssue(s) \/ Revoke(s, FALSE)]_vars
  BY VerdictStep
<1>2. QED  BY LicensingInvariant, <1>1, PTL DEF Spec, RevokedVerdictLasts

------------------------------------------------------------------------------
(* Presence: the invariant.                                                *)

(* A report that has written the row holds it until COMMIT, and what it    *)
(* has written was not deleted.                                            *)
Writing(r) == report[r].pc = "commit" \/ (report[r].pc = "publish" /\ ~report[r].hello)

PresenceInv ==
  /\ PresenceTypeOK
  /\ \A r \in Reports : Writing(r) => rowLock = r /\ ~row.deleted

ReportType == [pc : {"idle", "update", "publish", "commit"}, state : States, hello : BOOLEAN]
LoadType    == [pc : {"idle", "ask", "answer"}, tries : 0..(MaxTries - 1), got : Views]

LEMMA StateOfType == \A state, health : StateOf(state, health) \in States
  BY DEF StateOf, States

LEMMA PresenceBlank ==
  /\ Resting \in ReportType /\ Resting.pc = "idle"
  /\ Unused \in LoadType /\ Unused.pc = "idle" /\ Unused.got = "nothing" /\ Unused.tries = 0
  BY PresenceAssumption DEF Resting, Unused, ReportType, LoadType, States, Views

(* A step of one report.                                                   *)
LEMMA ReportStep ==
  ASSUME PresenceInv, NEW r \in Reports, NEW x \in ReportType, report' = [report EXCEPT ![r] = x],
         UNCHANGED pageVars, stopped' = stopped,
         row' = row \/ (~row.deleted /\ rowLock = r /\ \E s \in States : row' = [row EXCEPT !.state = s]),
         \/ rowLock' = rowLock
         \/ rowLock' = r /\ rowLock = Free /\ ~row.deleted
         \/ rowLock' = Free /\ rowLock = r,
         x.pc = "commit" \/ (x.pc = "publish" /\ ~x.hello) => rowLock' = r /\ ~row.deleted
  PROVE  PresenceInv'
<1>1. /\ PresenceTypeOK /\ report \in [Reports -> ReportType]
      /\ \A q \in Reports : Writing(q) => rowLock = q /\ ~row.deleted
  BY DEF PresenceInv, PresenceTypeOK, ReportType
<1>2. report' \in [Reports -> ReportType] /\ report'[r] = x /\ \A q \in Reports \ {r} : report'[q] = report[q]
  BY <1>1
<1>3. row' \in [state : States, deleted : BOOLEAN] /\ (row'.deleted => row'.state = "OFFLINE")
      /\ (~row.deleted => ~row'.deleted)
  BY <1>1 DEF PresenceTypeOK
<1>4. PresenceTypeOK'
  <2>1. rowLock' \in Reports \cup {Free}
    BY <1>1 DEF PresenceTypeOK
  <2>2. stopped' \in BOOLEAN /\ UNCHANGED <<inbox, entitled, load, page>>
    BY <1>1 DEF PresenceTypeOK, pageVars
  <2>3. report' \in [Reports -> [pc : {"idle", "update", "publish", "commit"},
                                 state : States, hello : BOOLEAN]]
    BY <1>2 DEF ReportType
  <2>4. QED  BY <1>1, <1>3, <2>1, <2>2, <2>3 DEF PresenceTypeOK
<1>5. ASSUME NEW q \in Reports, Writing(q)' PROVE rowLock' = q /\ ~row'.deleted
  <2>1. CASE q = r
    BY <1>2, <1>3, <1>5, <2>1 DEF Writing
  <2>2. CASE q # r
    <3>1. Writing(q)
      BY <1>2, <1>5, <2>2 DEF Writing
    <3>2. QED  BY <1>1, <1>3, <2>2, <3>1, PresenceAssumption
  <2>3. QED  BY <2>1, <2>2
<1>6. QED  BY <1>4, <1>5 DEF PresenceInv

(* A step of the pages.                                                    *)
LEMMA PageStep ==
  ASSUME PresenceInv, UNCHANGED agentVars,
         inbox' \in [Pages -> BOOLEAN], entitled' \in [Pages -> BOOLEAN],
         load' \in [Pages -> [Loads -> LoadType]],
         page' \in [Pages -> [shown : Views, there : BOOLEAN]]
  PROVE  PresenceInv'
BY DEF PresenceInv, PresenceTypeOK, agentVars, Writing, LoadType

(* One request of a page, changed.                                         *)
LEMMA LoadStep ==
  ASSUME PresenceInv, NEW p \in Pages, NEW i \in Loads, NEW x \in LoadType
  PROVE  [load EXCEPT ![p][i] = x] \in [Pages -> [Loads -> LoadType]]
<1>1. load \in [Pages -> [Loads -> LoadType]]
  BY DEF PresenceInv, PresenceTypeOK, LoadType
<1>2. QED  BY <1>1

LEMMA PresenceInductive == PresenceInv /\ [PresenceNext]_presenceVars => PresenceInv'
<1> SUFFICES ASSUME PresenceInv, [PresenceNext]_presenceVars PROVE PresenceInv'
  OBVIOUS
<1>0. /\ PresenceTypeOK /\ report \in [Reports -> ReportType] /\ load \in [Pages -> [Loads -> LoadType]]
      /\ \A r \in Reports : Writing(r) => rowLock = r /\ ~row.deleted
      /\ inbox \in [Pages -> BOOLEAN] /\ entitled \in [Pages -> BOOLEAN]
      /\ page \in [Pages -> [shown : Views, there : BOOLEAN]]
  BY DEF PresenceInv, PresenceTypeOK, ReportType, LoadType
<1>1. ASSUME NEW r \in Reports, NEW s \in States, NEW hello \in BOOLEAN, Receive(r, s, hello)
      PROVE  PresenceInv'
  <2> DEFINE x == [pc |-> "update", state |-> s, hello |-> hello]
  <2>1. x \in ReportType /\ x.pc = "update"
    BY DEF ReportType
  <2>2. /\ report' = [report EXCEPT ![r] = x] /\ UNCHANGED pageVars
        /\ row' = row /\ rowLock' = rowLock /\ stopped' = stopped
    BY <1>1 DEF Receive
  <2> HIDE DEF x
  <2>3. QED  BY <2>1, <2>2, ReportStep
<1>2. ASSUME NEW r \in Reports, Update(r) PROVE PresenceInv'
  <2>1. CASE row.deleted
    BY <1>2, <2>1, PresenceBlank, ReportStep DEF Update
  <2>2. CASE ~row.deleted
    <3> DEFINE x == [report[r] EXCEPT !.pc = IF report[r].hello THEN "commit" ELSE "publish"]
    <3>1. x \in ReportType
      BY <1>0 DEF ReportType
    <3>2. /\ report' = [report EXCEPT ![r] = x] /\ rowLock = Free /\ rowLock' = r
          /\ UNCHANGED pageVars /\ row' = row /\ stopped' = stopped
      BY <1>2, <2>2 DEF Update
    <3> HIDE DEF x
    <3>3. QED  BY <2>2, <3>1, <3>2, ReportStep
  <2>3. QED  BY <2>1, <2>2
<1>3. ASSUME NEW r \in Reports, Publish(r) PROVE PresenceInv'
  <2>1. inbox' \in [Pages -> BOOLEAN]
    BY <1>0, <1>3 DEF Publish
  <2> DEFINE x == IF report[r].hello THEN Resting ELSE [report[r] EXCEPT !.pc = "commit"]
  <2>2. /\ x \in ReportType
        /\ x.pc = "commit" \/ (x.pc = "publish" /\ ~x.hello) => ~report[r].hello
    BY <1>0, PresenceBlank DEF ReportType
  <2>3. /\ report' = [report EXCEPT ![r] = x] /\ report[r].pc = "publish"
        /\ UNCHANGED <<row, rowLock, stopped, entitled, load, page>>
    BY <1>3 DEF Publish
  <2> HIDE DEF x
  <2>4. report' \in [Reports -> ReportType] /\ report'[r] = x
        /\ \A q \in Reports \ {r} : report'[q] = report[q]
    BY <1>0, <2>2, <2>3
  <2>5. PresenceTypeOK'
    BY <1>0, <2>1, <2>3, <2>4 DEF PresenceTypeOK, ReportType
  <2>6. ASSUME NEW q \in Reports, Writing(q)' PROVE rowLock' = q /\ ~row'.deleted
    <3>1. Writing(q)
      BY <2>2, <2>3, <2>4, <2>6 DEF Writing
    <3>2. QED  BY <1>0, <2>3, <3>1
  <2>7. QED  BY <2>5, <2>6 DEF PresenceInv
<1>4. ASSUME NEW r \in Reports, Commit(r) PROVE PresenceInv'
  <2> DEFINE x == IF report[r].hello THEN [report[r] EXCEPT !.pc = "publish"] ELSE Resting
  <2>1. /\ x \in ReportType
        /\ ~(x.pc = "commit" \/ (x.pc = "publish" /\ ~x.hello))
    BY <1>0, PresenceBlank DEF ReportType
  <2>2. /\ report' = [report EXCEPT ![r] = x] /\ rowLock' = Free /\ UNCHANGED pageVars
        /\ row' = [row EXCEPT !.state = report[r].state] /\ stopped' = stopped
    BY <1>4 DEF Commit
  <2>3. rowLock = r /\ ~row.deleted /\ report[r].state \in States
    BY <1>0, <1>4 DEF Commit, Writing, ReportType
  <2> HIDE DEF x
  <2>4. QED  BY <2>1, <2>2, <2>3, ReportStep
<1>5. ASSUME NEW r \in Reports, Abort(r) PROVE PresenceInv'
  <2>1. /\ report' = [report EXCEPT ![r] = Resting] /\ UNCHANGED pageVars
        /\ row' = row /\ stopped' = stopped
        /\ rowLock' = rowLock \/ (rowLock' = Free /\ rowLock = r)
    BY <1>5 DEF Abort
  <2>2. QED  BY <2>1, PresenceBlank, ReportStep
<1>6. CASE Stop
  BY <1>6, <1>0 DEF Stop, PresenceInv, PresenceTypeOK, Writing, pageVars
<1>7. CASE DeleteServer
  <2>1. \A r \in Reports : ~Writing(r)
    BY <1>0, <1>7, PresenceAssumption DEF DeleteServer
  <2>2. \A r \in Reports : ~Writing(r)'
    BY <1>7, <2>1 DEF DeleteServer, Writing
  <2>3. PresenceTypeOK'
    BY <1>0, <1>7 DEF DeleteServer, PresenceTypeOK, pageVars, States
  <2>4. QED  BY <2>2, <2>3 DEF PresenceInv
<1>8. ASSUME NEW p \in Pages, Exclude(p) PROVE PresenceInv'
  BY <1>0, <1>8, PageStep DEF Exclude
<1>9. ASSUME NEW p \in Pages, NEW i \in Loads, Reload(p, i), UNCHANGED <<agentVars, entitled, page>>,
             inbox' \in [Pages -> BOOLEAN]
      PROVE  PresenceInv'
  <2> DEFINE x == [Unused EXCEPT !.pc = "ask"]
  <2>1. x \in LoadType
    BY PresenceBlank DEF LoadType
  <2>2. load' = [load EXCEPT ![p][i] = x]
    BY <1>9 DEF Reload
  <2> HIDE DEF x
  <2>3. QED  BY <1>0, <1>9, <2>1, <2>2, LoadStep, PageStep
<1>10. ASSUME NEW p \in Pages, NEW i \in Loads, Hear(p, i) \/ Tick(p, i) PROVE PresenceInv'
  <2>1. inbox' \in [Pages -> BOOLEAN]
    BY <1>0, <1>10 DEF Hear, Tick
  <2>2. QED  BY <1>9, <1>10, <2>1 DEF Hear, Tick
<1>11. ASSUME NEW p \in Pages, NEW i \in Loads, Answer(p, i) PROVE PresenceInv'
  <2> DEFINE x == [load[p][i] EXCEPT !.pc = "answer", !.got = View]
  <2>1. View \in Views
    BY <1>0 DEF View, Views, PresenceTypeOK
  <2>2. load[p][i] \in LoadType
    BY <1>0
  <2>3. x \in LoadType
    BY <2>1, <2>2 DEF LoadType
  <2>4. load' = [load EXCEPT ![p][i] = x]
    BY <1>11 DEF Answer
  <2> HIDE DEF x
  <2>5. QED  BY <1>0, <1>11, <2>3, <2>4, LoadStep, PageStep DEF Answer
<1>12. ASSUME NEW p \in Pages, NEW i \in Loads, GoToLogin(p, i) PROVE PresenceInv'
  <2>1. load' \in [Pages -> [Loads -> LoadType]]
    BY <1>0, <1>12, PresenceBlank DEF GoToLogin
  <2>2. inbox' \in [Pages -> BOOLEAN] /\ page' \in [Pages -> [shown : Views, there : BOOLEAN]]
    BY <1>0, <1>12 DEF GoToLogin
  <2>3. QED  BY <1>0, <1>12, <2>1, <2>2, PageStep DEF GoToLogin
<1>13. ASSUME NEW p \in Pages, NEW i \in Loads, Arrive(p, i) PROVE PresenceInv'
  <2>1. load[p][i].got \in Views
    BY <1>0 DEF LoadType
  <2>2. page' \in [Pages -> [shown : Views, there : BOOLEAN]]
    BY <1>0, <1>13, <2>1 DEF Arrive
  <2>3. QED  BY <1>0, <1>13, <2>2, PresenceBlank, LoadStep, PageStep DEF Arrive
<1>14. ASSUME NEW p \in Pages, NEW i \in Loads, Retry(p, i) PROVE PresenceInv'
  <2> DEFINE y == load[p][i]
             x == IF y.tries + 1 = MaxTries THEN Unused
                  ELSE [pc |-> "ask", tries |-> y.tries + 1, got |-> "nothing"]
  <2>1. y.tries \in 0..(MaxTries - 1) /\ MaxTries \in Nat
    BY <1>0, PresenceAssumption DEF LoadType
  <2>2. x \in LoadType
    BY <2>1, PresenceBlank DEF LoadType, Views
  <2>3. load' = [load EXCEPT ![p][i] = x]
    BY <1>0, <1>14 DEF Retry
  <2> HIDE DEF x
  <2>4. QED  BY <1>0, <1>14, <2>2, <2>3, LoadStep, PageStep DEF Retry
<1>15. CASE UNCHANGED presenceVars
  BY <1>0, <1>15, PageStep DEF presenceVars, pageVars
<1>16. ASSUME NEW r \in Reports, Handshake(r) \/ \E x \in Payloads : Heartbeat(r, x[1], x[2])
       PROVE  PresenceInv'
  BY <1>1, <1>16, StateOfType DEF Handshake, Heartbeat, States
<1>17. QED
  BY <1>2, <1>3, <1>4, <1>5, <1>6, <1>7, <1>8, <1>10, <1>11, <1>12, <1>13, <1>14, <1>15, <1>16
     DEF PresenceNext

LEMMA PresenceInitial == PresenceInit => PresenceInv
<1> SUFFICES ASSUME PresenceInit PROVE PresenceInv
  OBVIOUS
<1>1. PresenceTypeOK
  BY PresenceBlank DEF PresenceInit, PresenceTypeOK, ReportType, LoadType, States, Views
<1>2. QED  BY <1>1, PresenceBlank DEF PresenceInit, PresenceInv, Writing

LEMMA PresenceInvariant == PresenceSpec => []PresenceInv
  BY PresenceInitial, PresenceInductive, PTL DEF PresenceSpec

(* A report that waited for the deletion of its server, or overtook it,    *)
(* does not bring it back (service.ts:202-234, routes.ts:921-925).         *)
THEOREM PresenceTypeCorrect == PresenceSpec => []PresenceTypeOK
<1>1. PresenceInv => PresenceTypeOK
  BY DEF PresenceInv
<1>2. QED  BY PresenceInvariant, <1>1, PTL

(* Whoever would COMMIT holds a row that is not deleted.                   *)
LEMMA DeletedStep ==
  ASSUME PresenceInv, [PresenceNext]_presenceVars, row.deleted
  PROVE  row' = row
<1>1. \A r \in Reports : ~Commit(r)
  BY DEF PresenceInv, Writing, Commit
<1>2. QED
  BY <1>1 DEF PresenceNext, Handshake, Heartbeat, Receive, Update, Publish, Abort, Stop,
              DeleteServer, Exclude, Hear, Tick, Answer, GoToLogin, Arrive, Retry,
              agentVars, presenceVars

(* No handshake or heartbeat, however late, writes the row of a deleted    *)
(* server (service.ts:111-133 and 202-234).                                *)
THEOREM DeletedForGood == PresenceSpec => [][row.deleted => row' = row]_presenceVars
<1>1. PresenceInv /\ [PresenceNext]_presenceVars => [row.deleted => row' = row]_presenceVars
  BY DeletedStep
<1>2. QED  BY PresenceInvariant, <1>1, PTL DEF PresenceSpec
==============================================================================

---------------------------- MODULE GatewayProofs ----------------------------
(***************************************************************************)
(* Proofs about what an agent asks of the gateway: AgentAuth, the gate in  *)
(* front of every request, and RemoteConfig, the document it fetches there.*)
(* For every number of deliveries, messages, keys, protections and         *)
(* requests, every tolerance and every clock.                              *)
(***************************************************************************)
EXTENDS AgentAuth, RemoteConfig, FiniteSetTheorems, TLAPS

------------------------------------------------------------------------------
(***************************************************************************)
(* AgentAuth: type correctness, revoked keys, the causes of a verdict of   *)
(* replay, the rate limit, and the anti-replay guarantee; the last as soon *)
(* as the nonce lifetime covers the window TtlCovers states.               *)
(***************************************************************************)
(* Ticks during which a delivery of m can pass the clock check             *)
Opens(m)  == (stamp[m] - ClockSkew) * TicksPerSecond
Closes(m) == (stamp[m] + ClockSkew + 1) * TicksPerSecond

(* The nonce outlives the window: its length, rounded up to whole seconds  *)
(* by Math.floor, and the time a claim may take to reach Redis.            *)
TtlCovers ==
  NonceTtl * TicksPerSecond + 1 >= (2 * ClockSkew + 1) * TicksPerSecond + MaxDelay

Granted(d) == pc[d] \in {"verify", "accepted"}

(* A nonce key set for m lives at least its lifetime past the opening.     *)
NonceOutlives ==
  \A m \in Messages :
    nonces[m] # -1 => nonces[m] >= Opens(m) + NonceTtl * TicksPerSecond

(* A claim on its way to Redis passed the clock check not long ago.        *)
ClaimTimely ==
  \A d \in Deliveries : pc[d] = "claim" =>
    /\ Opens(msg[d]) <= checkedAt[d]
    /\ checkedAt[d] < Closes(msg[d])
    /\ checkedAt[d] <= clock
    /\ clock <= checkedAt[d] + MaxDelay

(* A granted message left its nonce in Redis, unless Redis restarted.      *)
GrantRecorded ==
  \A d \in Deliveries : Granted(d) => msg[d] \in lost \/ nonces[msg[d]] # -1

GrantUnique ==
  \A d, e \in Deliveries :
    (Granted(d) /\ Granted(e) /\ msg[d] = msg[e] /\ msg[d] \notin lost) => d = e

ReplayInv == TypeOK /\ NonceOutlives /\ ClaimTimely /\ GrantRecorded /\ GrantUnique
------------------------------------------------------------------------------
LEMMA FloorBounds ==
  ASSUME NEW c \in Nat, NEW r \in Nat \ {0}
  PROVE  /\ c \div r \in Nat
         /\ (c \div r) * r <= c
         /\ c < (c \div r + 1) * r
  BY SMT

LEMMA WindowLength ==
  ASSUME NEW s \in Int, NEW k \in Int, NEW r \in Int
  PROVE  (s + k + 1) * r = (s - k) * r + (2 * k + 1) * r
  BY SMT

LEMMA ScaleMonotone ==
  ASSUME NEW a \in Int, NEW b \in Int, NEW r \in Nat, a <= b
  PROVE  a * r <= b * r
  BY SMT

LEMMA DivMonotone ==
  ASSUME NEW c \in Nat, NEW e \in Nat, NEW r \in Nat \ {0}, c <= e
  PROVE  c \div r <= e \div r
<1> DEFINE a == c \div r
           b == e \div r
<1>1. /\ a \in Nat /\ a * r <= c
      /\ b \in Nat /\ e < (b + 1) * r
  BY FloorBounds
<1> HIDE DEF a, b
<1>2. SUFFICES ASSUME b + 1 <= a PROVE FALSE
  BY <1>1 DEF a, b
<1>3. (b + 1) * r <= a * r
  BY <1>1, <1>2, ScaleMonotone
<1>4. QED
  <2>1. (b + 1) * r \in Int /\ a * r \in Int
    BY <1>1
  <2>2. QED  BY <1>1, <1>3, <2>1

(* The clock check bounds the tick at which it ran.                        *)
LEMMA InWindowBounds ==
  ASSUME NEW m \in Messages, TypeOK, InWindow(m)
  PROVE  Opens(m) <= clock /\ clock < Closes(m)
<1>1. /\ clock \in Nat /\ stamp[m] \in Nat /\ ClockSkew \in Nat
      /\ TicksPerSecond \in Nat \ {0}
  BY AuthAssumption DEF TypeOK
<1>2. /\ Now \in Nat
      /\ Now * TicksPerSecond <= clock
      /\ clock < (Now + 1) * TicksPerSecond
  BY <1>1, FloorBounds DEF Now
<1>3. stamp[m] - ClockSkew <= Now /\ Now + 1 <= stamp[m] + ClockSkew + 1
  BY <1>1, <1>2 DEF InWindow
<1>4. /\ (stamp[m] - ClockSkew) * TicksPerSecond <= Now * TicksPerSecond
      /\ (Now + 1) * TicksPerSecond <= (stamp[m] + ClockSkew + 1) * TicksPerSecond
  <2>1. (stamp[m] - ClockSkew) * TicksPerSecond <= Now * TicksPerSecond
    BY <1>1, <1>2, <1>3, ScaleMonotone
  <2>2. (Now + 1) * TicksPerSecond <= (stamp[m] + ClockSkew + 1) * TicksPerSecond
    BY <1>1, <1>2, <1>3, ScaleMonotone
  <2>3. QED  BY <2>1, <2>2
<1>5. /\ (stamp[m] - ClockSkew) * TicksPerSecond \in Int
      /\ Now * TicksPerSecond \in Int
      /\ (Now + 1) * TicksPerSecond \in Int
      /\ (stamp[m] + ClockSkew + 1) * TicksPerSecond \in Int
  BY <1>1, <1>2
<1>6. QED
  BY <1>1, <1>2, <1>4, <1>5 DEF Opens, Closes

(* The heart of the argument: while a claim for m may still reach Redis, a *)
(* nonce set earlier for m is alive.                                       *)
LEMMA NonceStillLive ==
  ASSUME TtlCovers, ReplayInv, NEW d \in Deliveries, pc[d] = "claim",
         nonces[msg[d]] # -1
  PROVE  NonceLive(msg[d])
<1> DEFINE m == msg[d]
<1>1. /\ m \in Messages /\ stamp[m] \in Int /\ ClockSkew \in Int
      /\ TicksPerSecond \in Int /\ NonceTtl \in Int /\ MaxDelay \in Int
      /\ clock \in Int /\ checkedAt[d] \in Int /\ nonces[m] \in Int
  BY AuthAssumption DEF ReplayInv, TypeOK
<1>2. Closes(m) = Opens(m) + (2 * ClockSkew + 1) * TicksPerSecond
  BY <1>1, WindowLength DEF Opens, Closes
<1>3. checkedAt[d] < Closes(m) /\ clock <= checkedAt[d] + MaxDelay
  BY DEF ReplayInv, ClaimTimely
<1>4. nonces[m] >= Opens(m) + NonceTtl * TicksPerSecond
  BY <1>1 DEF ReplayInv, NonceOutlives
<1>5. NonceTtl * TicksPerSecond + 1 >= (2 * ClockSkew + 1) * TicksPerSecond + MaxDelay
  BY DEF TtlCovers
<1> DEFINE ttl == NonceTtl * TicksPerSecond
           span == (2 * ClockSkew + 1) * TicksPerSecond
           op == Opens(m)
           cl == Closes(m)
<1>6. ttl \in Int /\ span \in Int /\ op \in Int /\ cl \in Int
  BY <1>1 DEF Opens, Closes
<1>7. cl = op + span /\ checkedAt[d] < cl /\ nonces[m] >= op + ttl /\ ttl + 1 >= span + MaxDelay
  BY <1>2, <1>3, <1>4, <1>5
<1> HIDE DEF ttl, span, op, cl
<1>8. clock <= nonces[m]
  BY <1>1, <1>3, <1>6, <1>7
<1>9. QED
  BY <1>8 DEF NonceLive, m
------------------------------------------------------------------------------
LEMMA ReplayInvInit == Init => ReplayInv
<1> SUFFICES ASSUME Init PROVE ReplayInv
  OBVIOUS
<1>1. 0 \in Windows
  BY AuthAssumption DEF Windows
<1>2. \A d \in Deliveries : msg[d] \in Messages
  BY AuthAssumption DEF Init
<1>3. TypeOK
  BY <1>1, <1>2, AuthAssumption DEF Init, TypeOK, Steps, Shapes, Codes
<1>4. NonceOutlives /\ ClaimTimely /\ GrantRecorded /\ GrantUnique
  BY DEF Init, NonceOutlives, ClaimTimely, GrantRecorded, GrantUnique, Granted
<1>5. QED
  BY <1>3, <1>4 DEF ReplayInv

(* Types are preserved by every step.                                      *)
LEMMA TypeStep == TypeOK /\ [Next]_vars => TypeOK'
<1> SUFFICES ASSUME TypeOK, [Next]_vars PROVE TypeOK'
  OBVIOUS
<1> USE AuthAssumption DEF TypeOK
<1>0. /\ CurrentWindow \in Windows
      /\ \A c \in 0 .. MaxClock : c \div WindowTicks \in Windows
  <2>1. ASSUME NEW c \in 0 .. MaxClock PROVE c \div WindowTicks \in Windows
    <3>1. c \in Nat /\ MaxClock \in Nat /\ WindowTicks \in Nat \ {0} /\ c <= MaxClock
      BY <2>1
    <3>2. /\ c \div WindowTicks \in Nat
          /\ MaxClock \div WindowTicks \in Nat
          /\ c \div WindowTicks <= MaxClock \div WindowTicks
      BY <3>1, DivMonotone, FloorBounds
    <3>3. QED  BY <3>2 DEF Windows
  <2>2. QED  BY <2>1 DEF CurrentWindow
<1>1. \A n \in Nat : n + NonceTtl * TicksPerSecond \in Nat
  OBVIOUS
<1>2. ASSUME NEW d \in Deliveries, DeliveryStep(d) PROVE TypeOK'
  <2> USE DEF Reject, Advance, Steps, Codes, envVars, nonceVars, rateVars, reqVars
  <2>1. ASSUME NEW m \in Messages, NEW s \in Shapes, Receive(d, m, s) PROVE TypeOK'
    <3>1. s \in DOMAIN Refusal => Refusal[s] \in Codes
      BY DEF Refusal
    <3>2. CurrentWindow \in Windows
      BY <1>0
    <3>3. QED  BY <2>1, <3>1, <3>2 DEF Receive
  <2>2. CASE Consume(d) \/ ConsumeResend(d) \/ ConsumeUnanswered(d)
    BY <2>2 DEF Consume, ConsumeResend, ConsumeUnanswered, CountRequest
  <2>3. CASE Resolve(d)
    BY <2>3 DEF Resolve
  <2>4. CASE CheckClock(d)
    BY <2>4 DEF CheckClock
  <2>5. CASE ClaimFresh(d)
    BY <2>5, <1>1 DEF ClaimFresh, ClaimExecuted
  <2>6. CASE ClaimSeen(d)
    BY <2>6 DEF ClaimSeen
  <2>7. CASE ClaimUnavailable(d)
    BY <2>7, <1>1 DEF ClaimUnavailable, ClaimExecuted
  <2>8. CASE ClaimResend(d)
    BY <2>8, <1>1 DEF ClaimResend, ClaimExecuted
  <2>9. CASE Verify(d)
    BY <2>9 DEF Verify
  <2>10. QED
    BY <1>2, <2>1, <2>2, <2>3, <2>4, <2>5, <2>6, <2>7, <2>8, <2>9 DEF DeliveryStep
<1>3. ASSUME EnvStep PROVE TypeOK'
  <2> USE DEF deliveryVars
  <2>1. CASE Tick
    BY <2>1 DEF Tick
  <2>2. ASSUME NEW k \in Keys, RevokeKey(k) PROVE TypeOK'
    BY <2>2 DEF RevokeKey
  <2>3. CASE RedisDown
    BY <2>3 DEF RedisDown
  <2>4. CASE RedisBack
    BY <2>4 DEF RedisBack
  <2>5. CASE RedisRestart
    BY <2>5 DEF RedisRestart
  <2>6. QED
    BY <1>3, <2>1, <2>2, <2>3, <2>4, <2>5 DEF EnvStep
<1>4. CASE UNCHANGED vars
  BY <1>4 DEF vars
<1>5. QED
  BY <1>2, <1>3, <1>4 DEF Next

(* Every step preserves the rest of the invariant.                         *)
LEMMA ReplayStep ==
  ASSUME TtlCovers, ReplayInv, [Next]_vars
  PROVE  NonceOutlives' /\ ClaimTimely' /\ GrantRecorded' /\ GrantUnique'
<1> USE DEF ReplayInv
<1>t. TypeOK'
  BY TypeStep
<1>0. \A m \in Messages : Opens(m) \in Int /\ Closes(m) \in Int
  BY AuthAssumption DEF TypeOK, Opens, Closes
<1> DEFINE ttl == NonceTtl * TicksPerSecond
<1>ttl. ttl \in Nat
  BY AuthAssumption
<1> HIDE DEF ttl
<1>1. ASSUME NEW d \in Deliveries, DeliveryStep(d)
      PROVE  NonceOutlives' /\ ClaimTimely' /\ GrantRecorded' /\ GrantUnique'
  <2> USE DEF Reject, Advance, envVars, nonceVars, rateVars, reqVars
  (* Nothing but the control of d moves, and d is granted nothing.         *)
  <2>quiet. ASSUME UNCHANGED <<clock, nonces, stamp, lost>>,
                   \A e \in Deliveries \ {d} :
                     pc'[e] = pc[e] /\ msg'[e] = msg[e] /\ checkedAt'[e] = checkedAt[e],
                   ~Granted(d)' \/ (Granted(d) /\ msg'[d] = msg[d]),
                   pc'[d] # "claim"
            PROVE  NonceOutlives' /\ ClaimTimely' /\ GrantRecorded' /\ GrantUnique'
    <3>1. NonceOutlives'
      BY <2>quiet DEF NonceOutlives, Opens
    <3>2. ClaimTimely'
      BY <2>quiet DEF ClaimTimely, Opens, Closes
    <3>3. GrantRecorded'
      BY <2>quiet DEF GrantRecorded, Granted
    <3>4. GrantUnique'
      BY <2>quiet DEF GrantUnique, Granted
    <3>5. QED  BY <3>1, <3>2, <3>3, <3>4
  <2>1. ASSUME NEW m \in Messages, NEW s \in Shapes, Receive(d, m, s)
        PROVE  NonceOutlives' /\ ClaimTimely' /\ GrantRecorded' /\ GrantUnique'
    BY <2>1, <2>quiet DEF Receive, TypeOK, Granted
  <2>2. CASE Consume(d) \/ ConsumeResend(d) \/ ConsumeUnanswered(d)
    BY <2>2, <2>quiet DEF Consume, ConsumeResend, ConsumeUnanswered, TypeOK, Granted
  <2>3. CASE Resolve(d)
    BY <2>3, <2>quiet DEF Resolve, TypeOK, Granted
  <2>4. CASE CheckClock(d)
    <3>1. CASE ~InWindow(msg[d]) \/ shape[d] = "misrouted"
      BY <2>4, <3>1, <2>quiet DEF CheckClock, TypeOK, Granted
    <3>2. CASE InWindow(msg[d]) /\ shape[d] # "misrouted"
      <4>1. /\ Opens(msg[d]) <= clock /\ clock < Closes(msg[d])
            /\ clock \in Nat /\ MaxDelay \in Nat
        BY <3>2, InWindowBounds, AuthAssumption DEF TypeOK
      <4>2. /\ pc' = [pc EXCEPT ![d] = "claim"]
            /\ checkedAt' = [checkedAt EXCEPT ![d] = clock]
            /\ UNCHANGED <<clock, nonces, stamp, lost, msg>>
        BY <2>4, <3>2 DEF CheckClock
      <4>3. ClaimTimely'
        BY <4>1, <4>2 DEF ClaimTimely, TypeOK, Opens, Closes
      <4>4. NonceOutlives'
        BY <4>2 DEF NonceOutlives, Opens
      <4>5. GrantRecorded'
        BY <4>2 DEF GrantRecorded, Granted, TypeOK
      <4>6. GrantUnique'
        BY <4>2 DEF GrantUnique, Granted, TypeOK
      <4>7. QED  BY <4>3, <4>4, <4>5, <4>6
    <3>3. QED  BY <3>1, <3>2
  (* A nonce is set now: it outlives the window of its message.            *)
  <2>set. ASSUME pc[d] = "claim", UNCHANGED <<clock, stamp>>,
                 \/ nonces' = nonces
                 \/ nonces' = [nonces EXCEPT ![msg[d]] = clock + NonceTtl * TicksPerSecond]
          PROVE  /\ NonceOutlives'
                 /\ \A m \in Messages : nonces[m] # -1 => nonces'[m] # -1
    <3>1. Opens(msg[d]) <= checkedAt[d] /\ checkedAt[d] <= clock
      BY <2>set DEF ClaimTimely
    <3>2. /\ msg[d] \in Messages /\ clock \in Nat /\ checkedAt[d] \in Nat
          /\ Opens(msg[d]) \in Int
      BY <1>0 DEF TypeOK
    <3>3. clock + ttl >= Opens(msg[d]) + ttl
      BY <3>1, <3>2, <1>ttl
    <3>4. NonceOutlives'
      <4>1. \A m \in Messages : nonces[m] # -1 => nonces[m] >= Opens(m) + ttl
        BY DEF NonceOutlives, ttl
      <4>2. \/ nonces' = nonces
            \/ nonces' = [nonces EXCEPT ![msg[d]] = clock + ttl]
        BY <2>set DEF ttl
      <4>3. \A m \in Messages : nonces'[m] # -1 => nonces'[m] >= Opens(m) + ttl
        BY <3>2, <3>3, <4>1, <4>2 DEF TypeOK
      <4>4. \A m \in Messages : Opens(m)' = Opens(m)
        BY <2>set DEF Opens
      <4>5. QED  BY <4>3, <4>4 DEF NonceOutlives, ttl
    <3>5. \A m \in Messages : nonces[m] # -1 => nonces'[m] # -1
      BY <2>set, <3>2, <1>ttl DEF TypeOK, ttl
    <3>6. QED  BY <3>4, <3>5
  <2>5. CASE ClaimFresh(d)
    <3>1. nonces[msg[d]] = -1
      BY <2>5, NonceStillLive DEF ClaimFresh
    <3>2. /\ pc' = [pc EXCEPT ![d] = "verify"] /\ pc[d] = "claim"
          /\ nonces' = [nonces EXCEPT ![msg[d]] = clock + NonceTtl * TicksPerSecond]
          /\ UNCHANGED <<clock, stamp, lost, msg, checkedAt>>
      BY <2>5 DEF ClaimFresh, ClaimExecuted
    <3>3. /\ NonceOutlives'
          /\ \A m \in Messages : nonces[m] # -1 => nonces'[m] # -1
      BY <2>set, <3>2
    <3>4. msg[d] \in Messages /\ nonces'[msg[d]] # -1
      BY <3>2, <1>ttl DEF TypeOK, ttl
    <3>5. GrantRecorded'
      BY <3>2, <3>3, <3>4 DEF GrantRecorded, Granted, TypeOK
    <3>6. \A e \in Deliveries : Granted(e) /\ msg[e] = msg[d] => msg[d] \in lost
      BY <3>1 DEF GrantRecorded
    <3>7. GrantUnique'
      BY <3>2, <3>6 DEF GrantUnique, Granted, TypeOK
    <3>8. ClaimTimely'
      BY <3>2 DEF ClaimTimely, Opens, Closes, TypeOK
    <3>9. QED  BY <3>3, <3>5, <3>7, <3>8
  <2>6. CASE ClaimSeen(d)
    BY <2>6, <2>quiet DEF ClaimSeen, TypeOK, Granted
  <2>7. CASE ClaimUnavailable(d)
    <3>1. /\ pc' = [pc EXCEPT ![d] = "rejected"] /\ pc[d] = "claim"
          /\ \/ nonces' = nonces
             \/ nonces' = [nonces EXCEPT ![msg[d]] = clock + NonceTtl * TicksPerSecond]
          /\ UNCHANGED <<clock, stamp, lost, msg, checkedAt>>
      BY <2>7 DEF ClaimUnavailable, ClaimExecuted
    <3>2. /\ NonceOutlives'
          /\ \A m \in Messages : nonces[m] # -1 => nonces'[m] # -1
      BY <2>set, <3>1
    <3>3. ClaimTimely'
      BY <3>1 DEF ClaimTimely, Opens, Closes, TypeOK
    <3>4. GrantRecorded'
      BY <3>1, <3>2 DEF GrantRecorded, Granted, TypeOK
    <3>5. GrantUnique'
      BY <3>1 DEF GrantUnique, Granted, TypeOK
    <3>6. QED  BY <3>2, <3>3, <3>4, <3>5
  <2>8. CASE ClaimResend(d)
    <3>1. /\ pc[d] = "claim"
          /\ \/ nonces' = nonces
             \/ nonces' = [nonces EXCEPT ![msg[d]] = clock + NonceTtl * TicksPerSecond]
          /\ UNCHANGED <<clock, stamp, lost, msg, checkedAt, pc>>
      BY <2>8 DEF ClaimResend, ClaimExecuted
    <3>2. /\ NonceOutlives'
          /\ \A m \in Messages : nonces[m] # -1 => nonces'[m] # -1
      BY <2>set, <3>1
    <3>3. ClaimTimely'
      BY <3>1 DEF ClaimTimely, Opens, Closes
    <3>4. GrantRecorded'
      BY <3>1, <3>2 DEF GrantRecorded, Granted, TypeOK
    <3>5. GrantUnique'
      BY <3>1 DEF GrantUnique, Granted
    <3>6. QED  BY <3>2, <3>3, <3>4, <3>5
  <2>9. CASE Verify(d)
    BY <2>9, <2>quiet DEF Verify, TypeOK, Granted
  <2>10. QED
    BY <1>1, <2>1, <2>2, <2>3, <2>4, <2>5, <2>6, <2>7, <2>8, <2>9 DEF DeliveryStep
<1>2. ASSUME EnvStep
      PROVE  NonceOutlives' /\ ClaimTimely' /\ GrantRecorded' /\ GrantUnique'
  <2> USE DEF deliveryVars
  <2>1. CASE Tick
    <3>1. /\ clock' = clock + 1
          /\ UNCHANGED <<nonces, stamp, lost, pc, msg, checkedAt>>
          /\ \A d \in Deliveries : pc[d] = "claim" => clock < checkedAt[d] + MaxDelay
      BY <2>1 DEF Tick
    <3>2. ClaimTimely'
      BY <3>1, AuthAssumption DEF ClaimTimely, Opens, Closes, TypeOK
    <3>3. NonceOutlives' /\ GrantRecorded' /\ GrantUnique'
      BY <3>1 DEF NonceOutlives, GrantRecorded, GrantUnique, Granted, Opens
    <3>4. QED  BY <3>2, <3>3
  <2>2. CASE (\E k \in Keys : RevokeKey(k)) \/ RedisDown \/ RedisBack
    <3>1. UNCHANGED <<clock, nonces, stamp, lost, pc, msg, checkedAt>>
      BY <2>2 DEF RevokeKey, RedisDown, RedisBack
    <3>2. QED
      BY <3>1 DEF NonceOutlives, ClaimTimely, GrantRecorded, GrantUnique,
                  Granted, Opens, Closes
  <2>3. CASE RedisRestart
    <3>1. /\ nonces' = [m \in Messages |-> -1]
          /\ lost' = lost \cup {m \in Messages : nonces[m] # -1}
          /\ UNCHANGED <<clock, stamp, pc, msg, checkedAt>>
      BY <2>3 DEF RedisRestart
    <3>2. NonceOutlives' /\ ClaimTimely'
      BY <3>1 DEF NonceOutlives, ClaimTimely, Opens, Closes
    <3>3. GrantRecorded'
      BY <3>1 DEF GrantRecorded, Granted, TypeOK
    <3>4. GrantUnique'
      BY <3>1 DEF GrantUnique, Granted
    <3>5. QED  BY <3>2, <3>3, <3>4
  <2>4. QED
    BY <1>2, <2>1, <2>2, <2>3 DEF EnvStep
<1>3. CASE UNCHANGED vars
  BY <1>3 DEF vars, NonceOutlives, ClaimTimely, GrantRecorded, GrantUnique,
              Granted, Opens, Closes
<1>4. QED
  BY <1>1, <1>2, <1>3 DEF Next
------------------------------------------------------------------------------
(* Every reachable state is well typed, for all values of the constants.   *)
THEOREM TypeCorrect == Spec => []TypeOK
<1>1. Init => TypeOK
  BY ReplayInvInit DEF ReplayInv
<1>2. QED
  BY <1>1, TypeStep, PTL DEF Spec

(* The anti-replay guarantee: whenever the nonce lifetime covers the       *)
(* window, no signed message is handed to a handler twice.                 *)
THEOREM NoReplayHolds == ASSUME TtlCovers PROVE Spec => []NoReplay
<1>1. ReplayInv /\ [Next]_vars => ReplayInv'
  BY TypeStep, ReplayStep DEF ReplayInv
<1>2. ReplayInv => NoReplay
  BY DEF ReplayInv, GrantUnique, Granted, NoReplay
<1>3. QED
  BY <1>1, <1>2, ReplayInvInit, PTL DEF Spec
------------------------------------------------------------------------------
(* Revoked keys.                                                           *)

(* A delivery whose key was unusable when it came never gets past Resolve. *)
LateHeld ==
  \A d \in Deliveries : lateKey[d] =>
    ~keyUsable[keyOf[msg[d]]] /\ pc[d] \in {"rate", "resolve", "rejected"}

LEMMA LateStep == TypeOK /\ LateHeld /\ [Next]_vars => LateHeld'
<1> SUFFICES ASSUME TypeOK, LateHeld, [Next]_vars PROVE LateHeld'
  OBVIOUS
<1> USE DEF TypeOK, LateHeld
<1>1. ASSUME NEW d \in Deliveries, DeliveryStep(d) PROVE LateHeld'
  <2> USE DEF Reject, Advance, Steps, envVars, nonceVars, rateVars, reqVars
  <2>1. ASSUME NEW m \in Messages, NEW s \in Shapes, Receive(d, m, s) PROVE LateHeld'
    BY <2>1 DEF Receive
  <2>2. CASE Consume(d) \/ ConsumeResend(d) \/ ConsumeUnanswered(d)
    BY <2>2 DEF Consume, ConsumeResend, ConsumeUnanswered
  <2>3. CASE Resolve(d)
    BY <2>3 DEF Resolve
  <2>4. CASE CheckClock(d)
    BY <2>4 DEF CheckClock
  <2>5. CASE ClaimFresh(d)
    BY <2>5 DEF ClaimFresh
  <2>6. CASE ClaimSeen(d)
    BY <2>6 DEF ClaimSeen
  <2>7. CASE ClaimUnavailable(d)
    BY <2>7 DEF ClaimUnavailable
  <2>8. CASE ClaimResend(d)
    BY <2>8 DEF ClaimResend
  <2>9. CASE Verify(d)
    BY <2>9 DEF Verify
  <2>10. QED
    BY <1>1, <2>1, <2>2, <2>3, <2>4, <2>5, <2>6, <2>7, <2>8, <2>9 DEF DeliveryStep
<1>2. CASE EnvStep
  BY <1>2 DEF EnvStep, Tick, RevokeKey, RedisDown, RedisBack, RedisRestart, deliveryVars
<1>3. CASE UNCHANGED vars
  BY <1>3 DEF vars
<1>4. QED
  BY <1>1, <1>2, <1>3 DEF Next

(* A request that arrives with a revoked key never reaches a handler,      *)
(* whatever was in flight (credentials.ts:42-59).                          *)
THEOREM RevokedRefused == Spec => []RevokedKeyRefused
<1>1. Init => TypeOK /\ LateHeld
  BY ReplayInvInit DEF ReplayInv, Init, LateHeld
<1>2. TypeOK /\ LateHeld => RevokedKeyRefused
  BY DEF LateHeld, RevokedKeyRefused
<1>3. QED
  BY <1>1, <1>2, TypeStep, LateStep, PTL DEF Spec
------------------------------------------------------------------------------
(* Verdicts of replay.                                                     *)

(* Nothing happens to a delivery before it arrives, and it has a code only *)
(* once it is rejected.                                                    *)
Fresh ==
  \A d \in Deliveries :
    (pc[d] = "idle" => d \notin claimed) /\ (pc[d] # "rejected" => code[d] = "none")

(* A nonce in Redis was put there by a delivery of its message.            *)
NonceClaimed ==
  \A m \in Messages : nonces[m] # -1 => \E d \in claimed : msg[d] = m

VerdictInv == TypeOK /\ Fresh /\ NonceClaimed /\ ReplayVerdictJustified

LEMMA FreshStep == TypeOK /\ Fresh /\ [Next]_vars => Fresh'
<1> SUFFICES ASSUME TypeOK, Fresh, [Next]_vars PROVE Fresh'
  OBVIOUS
<1> USE DEF TypeOK, Fresh
<1>1. ASSUME NEW d \in Deliveries, DeliveryStep(d) PROVE Fresh'
  <2> USE DEF Reject, Advance, Steps, envVars, nonceVars, rateVars, reqVars
  <2>1. ASSUME NEW m \in Messages, NEW s \in Shapes, Receive(d, m, s) PROVE Fresh'
    BY <2>1 DEF Receive
  <2>2. CASE Consume(d) \/ ConsumeResend(d) \/ ConsumeUnanswered(d)
    BY <2>2 DEF Consume, ConsumeResend, ConsumeUnanswered
  <2>3. CASE Resolve(d)
    BY <2>3 DEF Resolve
  <2>4. CASE CheckClock(d)
    BY <2>4 DEF CheckClock
  <2>5. CASE ClaimFresh(d)
    BY <2>5 DEF ClaimFresh, ClaimExecuted
  <2>6. CASE ClaimSeen(d)
    BY <2>6 DEF ClaimSeen
  <2>7. CASE ClaimUnavailable(d)
    BY <2>7 DEF ClaimUnavailable, ClaimExecuted
  <2>8. CASE ClaimResend(d)
    BY <2>8 DEF ClaimResend, ClaimExecuted
  <2>9. CASE Verify(d)
    BY <2>9 DEF Verify
  <2>10. QED
    BY <1>1, <2>1, <2>2, <2>3, <2>4, <2>5, <2>6, <2>7, <2>8, <2>9 DEF DeliveryStep
<1>2. CASE EnvStep
  BY <1>2 DEF EnvStep, Tick, RevokeKey, RedisDown, RedisBack, RedisRestart, deliveryVars
<1>3. CASE UNCHANGED vars
  BY <1>3 DEF vars
<1>4. QED
  BY <1>1, <1>2, <1>3 DEF Next

(* A delivery that created a nonce key goes on having created it, for the  *)
(* message it arrived with.                                                *)
LEMMA ClaimedStays ==
  ASSUME TypeOK, Fresh, [Next]_vars, NEW e \in claimed
  PROVE  e \in claimed' /\ msg'[e] = msg[e]
<1>1. ASSUME NEW d \in Deliveries, DeliveryStep(d) PROVE e \in claimed' /\ msg'[e] = msg[e]
  <2>1. CASE \E m \in Messages, s \in Shapes : Receive(d, m, s)
    BY <2>1 DEF Receive, nonceVars, TypeOK, Fresh
  <2>2. CASE ~\E m \in Messages, s \in Shapes : Receive(d, m, s)
    BY <1>1, <2>2 DEF DeliveryStep, Consume, ConsumeResend, ConsumeUnanswered, Resolve,
       CheckClock, ClaimFresh, ClaimSeen, ClaimUnavailable, ClaimResend, Verify,
       ClaimExecuted, nonceVars, reqVars
  <2>3. QED  BY <2>1, <2>2
<1>2. CASE EnvStep
  BY <1>2 DEF EnvStep, Tick, RevokeKey, RedisDown, RedisBack, RedisRestart, deliveryVars
<1>3. CASE UNCHANGED vars
  BY <1>3 DEF vars
<1>4. QED
  BY <1>1, <1>2, <1>3 DEF Next

(* A step that puts a nonce in Redis is a claim of its message.            *)
LEMMA NewNonce ==
  ASSUME TypeOK, [Next]_vars, NEW m \in Messages, nonces[m] = -1, nonces'[m] # -1
  PROVE  \E d \in claimed' : msg'[d] = m
<1> USE AuthAssumption DEF TypeOK
<1>1. ASSUME NEW d \in Deliveries, DeliveryStep(d)
      PROVE  msg'[d] = m /\ d \in claimed'
  <2> USE DEF envVars, nonceVars, rateVars, reqVars, ClaimExecuted
  <2>1. \/ ClaimFresh(d) \/ ClaimUnavailable(d) \/ ClaimResend(d)
    BY <1>1 DEF DeliveryStep, Receive, Consume, ConsumeResend, ConsumeUnanswered, Resolve,
       CheckClock, ClaimSeen, Verify
  <2>2. CASE ClaimFresh(d)
    BY <2>2 DEF ClaimFresh
  <2>3. CASE ClaimUnavailable(d)
    BY <2>3 DEF ClaimUnavailable
  <2>4. CASE ClaimResend(d)
    BY <2>4 DEF ClaimResend
  <2>5. QED  BY <2>1, <2>2, <2>3, <2>4
<1>2. CASE EnvStep
  BY <1>2 DEF EnvStep, Tick, RevokeKey, RedisDown, RedisBack, RedisRestart
<1>3. CASE UNCHANGED vars
  BY <1>3 DEF vars
<1>4. QED
  BY <1>1, <1>2, <1>3 DEF Next

(* A delivery is refused as a replay by the answer to its SET, and stays.  *)
LEMMA NewVerdict ==
  ASSUME TypeOK, Fresh, [Next]_vars, NEW d \in Deliveries, code'[d] = "E_AUTH_REPLAY"
  PROVE  \/ ClaimSeen(d)
         \/ code[d] = "E_AUTH_REPLAY" /\ msg'[d] = msg[d]
<1> USE DEF TypeOK, Fresh
<1>1. ASSUME NEW e \in Deliveries, DeliveryStep(e)
      PROVE  ClaimSeen(d) \/ (code[d] = "E_AUTH_REPLAY" /\ msg'[d] = msg[d])
  <2> USE DEF Reject, Advance, envVars, nonceVars, rateVars, reqVars
  <2>1. ASSUME NEW m \in Messages, NEW s \in Shapes, Receive(e, m, s)
        PROVE  code[d] = "E_AUTH_REPLAY" /\ msg'[d] = msg[d]
    <3>1. s \in DOMAIN Refusal => Refusal[s] # "E_AUTH_REPLAY"
      BY DEF Refusal
    <3>2. d # e
      BY <2>1, <3>1 DEF Receive
    <3>3. QED  BY <2>1, <3>2 DEF Receive
  <2>2. CASE ClaimSeen(e)
    BY <2>2 DEF ClaimSeen
  <2>3. CASE ~ClaimSeen(e) /\ ~\E m \in Messages, s \in Shapes : Receive(e, m, s)
    BY <1>1, <2>3 DEF DeliveryStep, Consume, ConsumeResend, ConsumeUnanswered, Resolve,
       CheckClock, ClaimFresh, ClaimUnavailable, ClaimResend, Verify
  <2>4. QED  BY <2>1, <2>2, <2>3
<1>2. CASE EnvStep
  BY <1>2 DEF EnvStep, Tick, RevokeKey, RedisDown, RedisBack, RedisRestart, deliveryVars
<1>3. CASE UNCHANGED vars
  BY <1>3 DEF vars
<1>4. QED
  BY <1>1, <1>2, <1>3 DEF Next

LEMMA VerdictStep == VerdictInv /\ [Next]_vars => VerdictInv'
<1> SUFFICES ASSUME VerdictInv, [Next]_vars PROVE VerdictInv'
  OBVIOUS
<1> USE DEF VerdictInv
<1>1. TypeOK' /\ Fresh'
  BY TypeStep, FreshStep
<1>2. NonceClaimed'
  <2> SUFFICES ASSUME NEW m \in Messages, nonces'[m] # -1
               PROVE  \E d \in claimed' : msg'[d] = m
    BY DEF NonceClaimed
  <2>1. CASE nonces[m] = -1
    BY <2>1, NewNonce
  <2>2. CASE nonces[m] # -1
    <3>1. PICK d \in claimed : msg[d] = m
      BY <2>2 DEF NonceClaimed
    <3>2. QED  BY <3>1, ClaimedStays
  <2>3. QED  BY <2>1, <2>2
<1>3. ReplayVerdictJustified'
  <2> SUFFICES ASSUME NEW d \in Deliveries, code'[d] = "E_AUTH_REPLAY"
               PROVE  \E e \in claimed' : msg'[e] = msg'[d]
    BY DEF ReplayVerdictJustified
  <2>1. PICK e \in claimed : msg[e] = msg'[d]
    <3>1. CASE ClaimSeen(d)
      <4>1. nonces[msg[d]] # -1 /\ msg'[d] = msg[d] /\ msg[d] \in Messages
        BY <3>1 DEF ClaimSeen, NonceLive, reqVars, TypeOK
      <4>2. QED  BY <4>1 DEF NonceClaimed
    <3>2. CASE code[d] = "E_AUTH_REPLAY" /\ msg'[d] = msg[d]
      BY <3>2 DEF ReplayVerdictJustified
    <3>3. QED  BY <3>1, <3>2, NewVerdict
  <2>2. QED  BY <2>1, ClaimedStays
<1>4. QED
  BY <1>1, <1>2, <1>3

(* A refusal as a replay always has a delivery of the same message whose   *)
(* SET created the nonce key as its cause (replay.ts:44-62).               *)
THEOREM VerdictsJustified == Spec => []ReplayVerdictJustified
<1>1. Init => VerdictInv
  <2> SUFFICES ASSUME Init PROVE VerdictInv
    OBVIOUS
  <2>1. TypeOK
    BY ReplayInvInit DEF ReplayInv
  <2>2. QED
    BY <2>1 DEF Init, VerdictInv, Fresh, NonceClaimed, ReplayVerdictJustified
<1>2. QED
  BY <1>1, VerdictStep, PTL DEF Spec, VerdictInv
------------------------------------------------------------------------------
(* The rate limit.                                                         *)

AdmittedIn(w) == {d \in admitted : window[d] = w}

(* A delivery takes its window before it reaches the limiter, and keeps it.*)
AdmittedPast == \A d \in admitted : pc[d] \notin {"idle", "rate"}

(* In a window that is not degraded the counter covers the admissions: it  *)
(* was incremented for each, and nothing has reset it since.               *)
Counted ==
  \A w \in Windows \ degraded :
    /\ IsFiniteSet(AdmittedIn(w))
    /\ Cardinality(AdmittedIn(w)) <= PerMinute
    /\ Cardinality(AdmittedIn(w)) <= rate[w]

RateInv == TypeOK /\ AdmittedPast /\ Counted

LEMMA AdmittedPastStep == TypeOK /\ AdmittedPast /\ [Next]_vars => AdmittedPast'
<1> SUFFICES ASSUME TypeOK, AdmittedPast, [Next]_vars PROVE AdmittedPast'
  OBVIOUS
<1> USE DEF TypeOK, AdmittedPast
<1>1. ASSUME NEW d \in Deliveries, DeliveryStep(d) PROVE AdmittedPast'
  <2> USE DEF Reject, Advance, rateVars
  <2>1. CASE \E m \in Messages, s \in Shapes : Receive(d, m, s)
    BY <2>1 DEF Receive
  <2>2. CASE Consume(d) \/ ConsumeResend(d) \/ ConsumeUnanswered(d)
    BY <2>2 DEF Consume, ConsumeResend, ConsumeUnanswered
  <2>3. CASE Resolve(d) \/ CheckClock(d) \/ Verify(d)
    BY <2>3 DEF Resolve, CheckClock, Verify
  <2>4. CASE ClaimFresh(d) \/ ClaimSeen(d) \/ ClaimUnavailable(d) \/ ClaimResend(d)
    BY <2>4 DEF ClaimFresh, ClaimSeen, ClaimUnavailable, ClaimResend
  <2>5. QED  BY <1>1, <2>1, <2>2, <2>3, <2>4 DEF DeliveryStep
<1>2. CASE EnvStep
  BY <1>2 DEF EnvStep, Tick, RevokeKey, RedisDown, RedisBack, RedisRestart, deliveryVars
<1>3. CASE UNCHANGED vars
  BY <1>3 DEF vars
<1>4. QED
  BY <1>1, <1>2, <1>3 DEF Next

(* Who was admitted in a window, and how its counter compares.             *)
LEMMA CountedMonotone ==
  ASSUME TypeOK, TypeOK', Counted, degraded \subseteq degraded',
         \A w \in Windows \ degraded' :
            AdmittedIn(w)' = AdmittedIn(w) /\ rate[w] <= rate'[w]
  PROVE  Counted'
<1> SUFFICES ASSUME NEW w \in Windows \ degraded'
             PROVE  /\ IsFiniteSet(AdmittedIn(w))' /\ Cardinality(AdmittedIn(w))' <= PerMinute
                    /\ Cardinality(AdmittedIn(w))' <= rate'[w]
  BY DEF Counted, Windows
<1>1. /\ IsFiniteSet(AdmittedIn(w)) /\ Cardinality(AdmittedIn(w)) <= PerMinute
      /\ Cardinality(AdmittedIn(w)) <= rate[w]
  BY DEF Counted
<1>2. Cardinality(AdmittedIn(w)) \in Nat
  BY <1>1, FS_CardinalityType
<1>3. rate[w] \in Nat /\ rate'[w] \in Nat /\ rate[w] <= rate'[w]
  BY DEF TypeOK, Windows
<1>4. QED  BY <1>1, <1>2, <1>3

(* One admission more, with Redis answering.                               *)
LEMMA ConsumeCounted ==
  ASSUME RateInv, TypeOK', NEW d \in Deliveries, Consume(d)
  PROVE  Counted'
<1> DEFINE cw == window[d]
<1> USE DEF RateInv
<1>1. /\ UNCHANGED <<degraded, window>> /\ cw \in Windows
      /\ rate' = [rate EXCEPT ![cw] = @ + 1]
  BY DEF Consume, reqVars, TypeOK, CountRequest
<1>2. rate[cw] \in Nat /\ rate'[cw] = rate[cw] + 1
  BY <1>1 DEF TypeOK
<1>3. \A w \in Windows : rate[w] <= rate'[w]
  BY <1>1, <1>2 DEF TypeOK
<1>4. CASE UNCHANGED admitted
  BY <1>1, <1>3, <1>4, CountedMonotone DEF AdmittedIn
<1>5. CASE ~UNCHANGED admitted
  <2>1. rate[cw] + 1 <= PerMinute /\ admitted' = admitted \cup {d} /\ PerMinute \in Nat
    BY <1>5, AuthAssumption DEF Consume
  <2> SUFFICES ASSUME NEW w \in Windows \ degraded
               PROVE  /\ IsFiniteSet(AdmittedIn(w))' /\ Cardinality(AdmittedIn(w))' <= PerMinute
                      /\ Cardinality(AdmittedIn(w))' <= rate'[w]
    BY <1>1 DEF Counted, Windows
  <2> DEFINE old == AdmittedIn(w)
             new == {e \in admitted' : window'[e] = w}
  <2>2. AdmittedIn(w)' = new
    BY DEF AdmittedIn
  <2>3. /\ IsFiniteSet(old) /\ Cardinality(old) <= PerMinute
        /\ Cardinality(old) <= rate[w] /\ Cardinality(old) \in Nat
    BY FS_CardinalityType DEF Counted
  <2>4. CASE w = cw
    <3>1. new = old \cup {d}
      BY <2>4, <2>1, <1>1 DEF AdmittedIn
    <3>2. IsFiniteSet(new) /\ Cardinality(new) <= Cardinality(old) + 1 /\ Cardinality(new) \in Nat
      <4>1. /\ IsFiniteSet(old \cup {d})
            /\ Cardinality(old \cup {d}) =
                 IF d \in old THEN Cardinality(old) ELSE Cardinality(old) + 1
        BY <2>3, FS_AddElement
      <4> HIDE DEF old, new
      <4>2. QED  BY <4>1, <3>1, <2>3
    <3> HIDE DEF old, new
    <3>3. QED  BY <2>1, <2>2, <2>3, <2>4, <3>2, <1>2
  <2>5. CASE w # cw
    <3>1. new = old
      BY <2>5, <2>1, <1>1 DEF AdmittedIn
    <3>2. rate'[w] = rate[w]
      BY <2>5, <1>1 DEF TypeOK
    <3> HIDE DEF old, new
    <3>3. QED  BY <2>2, <2>3, <3>1, <3>2
  <2>6. QED  BY <2>4, <2>5
<1>6. QED  BY <1>4, <1>5

LEMMA RateStep == RateInv /\ [Next]_vars => RateInv'
<1> SUFFICES ASSUME RateInv, [Next]_vars PROVE RateInv'
  OBVIOUS
<1> USE DEF RateInv
<1>0. TypeOK' /\ AdmittedPast'
  BY TypeStep, AdmittedPastStep
<1>quiet. ASSUME UNCHANGED <<rate, admitted, window, degraded>>
          PROVE  Counted'
  BY <1>quiet DEF Counted, AdmittedIn, Windows
<1>1. ASSUME NEW d \in Deliveries, DeliveryStep(d) PROVE Counted'
  <2>1. CASE Consume(d)
    BY <1>0, <2>1, ConsumeCounted
  <2>2. CASE ConsumeResend(d)
    <3>1. /\ UNCHANGED <<admitted, window, degraded>>
          /\ rate' = [rate EXCEPT ![window[d]] = @ + 1] /\ window[d] \in Windows
      BY <2>2 DEF ConsumeResend, CountRequest, reqVars, TypeOK
    <3>2. \A w \in Windows : rate[w] <= rate'[w]
      BY <3>1 DEF TypeOK
    <3>3. QED  BY <1>0, <3>1, <3>2, CountedMonotone DEF AdmittedIn
  <2>3. CASE ConsumeUnanswered(d)
    <3>1. /\ UNCHANGED window /\ admitted' = admitted \cup {d}
          /\ degraded' = degraded \cup {window[d]} /\ window[d] \in Windows
          /\ rate' = rate \/ rate' = [rate EXCEPT ![window[d]] = @ + 1]
      BY <2>3 DEF ConsumeUnanswered, CountRequest, reqVars, TypeOK
    <3>2. \A w \in Windows \ degraded' : rate[w] <= rate'[w]
      BY <3>1 DEF TypeOK
    <3>3. \A w \in Windows \ degraded' : AdmittedIn(w)' = AdmittedIn(w)
      BY <3>1 DEF AdmittedIn
    <3>4. QED  BY <1>0, <3>1, <3>2, <3>3, CountedMonotone
  <2>4. ASSUME NEW m \in Messages, NEW s \in Shapes, Receive(d, m, s) PROVE Counted'
    <3>1. d \notin admitted
      BY <2>4 DEF Receive, AdmittedPast
    <3>2. UNCHANGED rateVars /\ \A e \in Deliveries \ {d} : window'[e] = window[e]
      BY <2>4 DEF Receive, TypeOK
    <3>3. \A w : AdmittedIn(w)' = AdmittedIn(w)
      BY <3>1, <3>2 DEF AdmittedIn, rateVars, TypeOK
    <3>4. QED  BY <3>2, <3>3 DEF rateVars, Counted, Windows
  <2>5. CASE \/ Resolve(d) \/ CheckClock(d) \/ ClaimFresh(d) \/ ClaimSeen(d)
             \/ ClaimUnavailable(d) \/ ClaimResend(d) \/ Verify(d)
    BY <2>5, <1>quiet DEF Resolve, CheckClock, ClaimFresh, ClaimSeen, ClaimUnavailable,
       ClaimResend, Verify, rateVars, reqVars
  <2>6. QED  BY <1>1, <2>1, <2>2, <2>3, <2>4, <2>5 DEF DeliveryStep
<1>2. CASE Tick \/ RedisDown \/ RedisBack \/ \E k \in Keys : RevokeKey(k)
  <2>1. UNCHANGED <<rate, admitted, window, degraded>>
    BY <1>2 DEF Tick, RedisDown, RedisBack, RevokeKey, deliveryVars
  <2>2. QED  BY <1>0, <2>1, <1>quiet
<1>3. CASE RedisRestart
  <2>1. /\ UNCHANGED <<admitted, window>>
        /\ degraded' = degraded \cup {w \in Windows : rate[w] > 0}
        /\ rate' = [w \in Windows |-> 0]
    BY <1>3 DEF RedisRestart, deliveryVars
  <2>2. \A w \in Windows \ degraded' : rate[w] <= rate'[w]
    BY <2>1 DEF TypeOK
  <2>3. QED  BY <1>0, <2>1, <2>2, CountedMonotone DEF AdmittedIn
<1>4. CASE UNCHANGED vars
  <2>1. UNCHANGED <<rate, admitted, window, degraded>>
    BY <1>4 DEF vars
  <2>2. QED  BY <1>0, <2>1, <1>quiet
<1>5. QED
  BY <1>0, <1>1, <1>2, <1>3, <1>4 DEF Next, EnvStep

(* In a window where every answer came and no counter was forgotten, the   *)
(* limiter lets at most PerMinute requests through, however many arrive    *)
(* (replay.ts:81-98).                                                      *)
THEOREM RateHolds == Spec => []RateRespected
<1>1. Init => RateInv
  <2> SUFFICES ASSUME Init PROVE RateInv
    OBVIOUS
  <2>1. TypeOK
    BY ReplayInvInit DEF ReplayInv
  <2>2. admitted = {} /\ \A w \in Windows : AdmittedIn(w) = {} /\ rate[w] = 0
    BY DEF Init, AdmittedIn, Windows
  <2>3. Counted
    BY <2>2, FS_EmptySet, AuthAssumption DEF Counted
  <2>4. QED  BY <2>1, <2>2, <2>3 DEF RateInv, AdmittedPast
<1>2. RateInv => RateRespected
  BY DEF RateInv, Counted, RateRespected, AdmittedIn
<1>3. QED
  BY <1>1, <1>2, RateStep, PTL DEF Spec

------------------------------------------------------------------------------
(***************************************************************************)
(* RemoteConfig.  The inductive invariant follows the document the agent   *)
(* fetches: each piece is right for the version read first, or that version*)
(* is already out of date.                                                 *)
(***************************************************************************)
(* No version travels before it exists.                                    *)
VersionsPast ==
  /\ agent.version <= version /\ fetch.doc.version <= version
  /\ licensedAt <= version

(* What has been read so far of the document.                              *)
PiecesRight ==
  /\ fetch.pc \in {"licence", "setting", "reply"} /\ fetch.doc.version = version =>
       fetch.doc.remote = remote
  /\ fetch.pc = "reply" /\ fetch.doc.version = version =>
       fetch.doc.setting = Effective
  /\ fetch.pc \in {"setting", "reply"} /\ fetch.doc.version > licensedAt =>
       fetch.doc.licence = licence

ConfigInv ==
  /\ ConfigTypeOK /\ VersionsPast /\ PiecesRight
  /\ CurrentAgentIsRight /\ LicenceComesWithTheNextVersion

------------------------------------------------------------------------------
(* Documents.                                                              *)

LEMMA EffectiveType ==
  ASSUME ConfigTypeOK
  PROVE  Effective \in [Protections -> Choices]
  BY RemoteConfigAssumption DEF ConfigTypeOK, Effective

LEMMA BlankType ==
  /\ Blank \in Documents /\ Blank.version = 0
  /\ NoFetch \in [pc : Fetching, doc : Documents]
  /\ NoFetch.pc = "idle" /\ NoFetch.doc = Blank
  BY RemoteConfigAssumption DEF Blank, NoFetch, Documents, Fetching

LEMMA IdleType ==
  Idle \in [pc : {"idle", "write"}, todo : SUBSET Protections,
            done : SUBSET Protections, choice : Choices]
  BY RemoteConfigAssumption DEF Idle

(* A transaction that ends frees the rows it wrote.                        *)
LEMMA ReleasedType ==
  ASSUME ConfigTypeOK, NEW r \in Requests
  PROVE  Released(r) \in [Protections -> Requests \cup {Free}]
  BY DEF ConfigTypeOK, Released

------------------------------------------------------------------------------
(* The steps.                                                              *)

(* What a step of the dashboard leaves alone: the agent and its fetch.     *)
AgentAlone == UNCHANGED <<agent, beat, fetch>>

LEMMA InitHolds == ConfigInit => ConfigInv
<1> SUFFICES ASSUME ConfigInit PROVE ConfigInv
  OBVIOUS
<1>1. ConfigTypeOK
  BY BlankType, IdleType DEF ConfigInit, ConfigTypeOK
<1>2. Effective = Blank.setting
  BY DEF ConfigInit, Effective, Blank
<1>3. /\ agent.version = 0 /\ fetch.doc.version = 0 /\ fetch.pc = "idle"
      /\ agent.remote = None
  BY BlankType DEF ConfigInit, Blank
<1>4. QED
  BY <1>1, <1>2, <1>3 DEF ConfigInit, ConfigInv, VersionsPast, PiecesRight,
     CurrentAgentIsRight, LicenceComesWithTheNextVersion

(* A write that raises the version puts every document on its way, and     *)
(* the agent's, out of date.                                               *)
LEMMA RaiseKeeps ==
  ASSUME ConfigInv, version' = version + 1, AgentAlone,
         UNCHANGED <<licence, licensedAt>>
  PROVE  /\ VersionsPast' /\ PiecesRight'
         /\ CurrentAgentIsRight' /\ LicenceComesWithTheNextVersion'
<1>1. /\ version \in Nat /\ licensedAt \in Nat
      /\ agent.version \in Nat /\ fetch.doc.version \in Nat
  BY DEF ConfigInv, ConfigTypeOK, Documents
<1>2. agent'.version # version' /\ fetch'.doc.version # version'
  BY <1>1 DEF ConfigInv, VersionsPast, AgentAlone
<1>3. VersionsPast'
  BY <1>1 DEF ConfigInv, VersionsPast, AgentAlone
<1>4. PiecesRight' /\ CurrentAgentIsRight' /\ LicenceComesWithTheNextVersion'
  BY <1>2 DEF ConfigInv, AgentAlone, PiecesRight, CurrentAgentIsRight,
     LicenceComesWithTheNextVersion
<1>5. QED  BY <1>3, <1>4

(* A step that leaves the server's row and settings alone.                 *)
LEMMA QuietKeeps ==
  ASSUME ConfigInv, UNCHANGED server, AgentAlone
  PROVE  /\ VersionsPast' /\ PiecesRight'
         /\ CurrentAgentIsRight' /\ LicenceComesWithTheNextVersion'
  BY DEF ConfigInv, AgentAlone, server, VersionsPast, PiecesRight, Effective,
     CurrentAgentIsRight, LicenceComesWithTheNextVersion

LEMMA PutKeeps ==
  ASSUME ConfigInv, NEW x \in Remotes, PutConfiguration(x)
  PROVE  ConfigInv'
<1>1. ConfigTypeOK'
  BY DEF ConfigInv, ConfigTypeOK, PutConfiguration
<1>2. QED
  BY <1>1, RaiseKeeps DEF ConfigInv, PutConfiguration, AgentAlone

LEMMA PutSettingsKeeps ==
  ASSUME ConfigInv, NEW r \in Requests, NEW ps \in SUBSET Protections,
         NEW c \in Choices, PutSettings(r, ps, c)
  PROVE  ConfigInv'
<1>1. ConfigTypeOK'
  BY DEF ConfigInv, ConfigTypeOK, PutSettings, server
<1>2. QED
  BY <1>1, QuietKeeps DEF ConfigInv, PutSettings, AgentAlone

LEMMA WriteKeeps ==
  ASSUME ConfigInv, NEW r \in Requests, NEW p \in Protections, WriteSetting(r, p)
  PROVE  ConfigInv'
<1> DEFINE Put == [pc : {"idle", "write"}, todo : SUBSET Protections,
                   done : SUBSET Protections, choice : Choices]
           new == [req[r] EXCEPT !.todo = @ \ {p}, !.done = @ \cup {p}]
<1>1. new \in Put
  <2>1. req[r] \in Put
    BY DEF ConfigInv, ConfigTypeOK
  <2>2. QED  BY <2>1
<1>2. req' = [req EXCEPT ![r] = new]
  BY DEF ConfigInv, ConfigTypeOK, WriteSetting
<1>3. req' \in [Requests -> Put]
  <2>1. req \in [Requests -> Put]
    BY DEF ConfigInv, ConfigTypeOK
  <2> HIDE DEF new, Put
  <2>2. QED  BY <1>1, <1>2, <2>1
<1>4. lock' \in [Protections -> Requests \cup {Free}]
  BY DEF ConfigInv, ConfigTypeOK, WriteSetting
<1>5. ConfigTypeOK'
  BY <1>3, <1>4 DEF ConfigInv, ConfigTypeOK, WriteSetting, server
<1>6. QED
  BY <1>5, QuietKeeps DEF ConfigInv, WriteSetting, AgentAlone

LEMMA CommitKeeps ==
  ASSUME ConfigInv, NEW r \in Requests, CommitSettings(r)
  PROVE  ConfigInv'
<1>1. setting' \in [Protections -> Choices \cup {None}]
  BY DEF ConfigInv, ConfigTypeOK, CommitSettings
<1>2. ConfigTypeOK'
  BY <1>1, ReleasedType, IdleType DEF ConfigInv, ConfigTypeOK, CommitSettings
<1>3. QED
  BY <1>2, RaiseKeeps DEF ConfigInv, CommitSettings, AgentAlone

LEMMA FailKeeps ==
  ASSUME ConfigInv, NEW r \in Requests, Fail(r)
  PROVE  ConfigInv'
<1>1. ConfigTypeOK'
  BY ReleasedType, IdleType DEF ConfigInv, ConfigTypeOK, Fail, server
<1>2. QED
  BY <1>1, QuietKeeps DEF ConfigInv, Fail, AgentAlone

(* A licence that changes now is later than any version read so far.       *)
LEMMA LicenseKeeps ==
  ASSUME ConfigInv, NEW t \in Licences, License(t)
  PROVE  ConfigInv'
<1>1. ConfigTypeOK'
  BY DEF ConfigInv, ConfigTypeOK, License
<1>2. /\ version \in Nat /\ agent.version \in Nat /\ fetch.doc.version \in Nat
  BY DEF ConfigInv, ConfigTypeOK, Documents
<1>3. VersionsPast' /\ LicenceComesWithTheNextVersion'
  BY <1>2 DEF ConfigInv, VersionsPast, License, LicenceComesWithTheNextVersion
<1>4. PiecesRight' /\ CurrentAgentIsRight'
  BY <1>2 DEF ConfigInv, VersionsPast, PiecesRight, License, Effective,
     CurrentAgentIsRight
<1>5. QED  BY <1>1, <1>3, <1>4 DEF ConfigInv

(* A step of the agent.                                                    *)
LEMMA AgentKeeps ==
  ASSUME ConfigInv, AgentStep
  PROVE  ConfigInv'
<1> USE DEF ConfigInv
<1>1. /\ version \in Nat /\ licensedAt \in Nat /\ beat \in Nat \cup {-1}
      /\ agent \in Documents /\ fetch.pc \in Fetching /\ fetch.doc \in Documents
      /\ fetch.doc.version \in Nat /\ agent.version \in Nat
  BY DEF ConfigTypeOK, Documents
<1>2. UNCHANGED <<server, lock, req>>
  BY DEF AgentStep, Heartbeat, LoseBeat, ReceiveBeat, ReadVersion, ReadLicence,
     ReadSettings, Deliver, LoseFetch
<1>3. SUFFICES ASSUME UNCHANGED <<version, remote, licence, setting, licensedAt>>
               PROVE  /\ agent' \in Documents /\ beat' \in Nat \cup {-1}
                      /\ fetch' \in [pc : Fetching, doc : Documents]
                      /\ VersionsPast' /\ PiecesRight'
                      /\ CurrentAgentIsRight' /\ LicenceComesWithTheNextVersion'
  <2>1. UNCHANGED <<version, remote, licence, setting, licensedAt>>
    BY <1>2 DEF server
  <2>2. QED  BY <1>2, <1>3, <2>1 DEF ConfigTypeOK
<1>4. Effective' = Effective
  BY <1>3 DEF Effective
<1> USE <1>1, <1>3, <1>4, BlankType
<1>a. CASE Heartbeat \/ LoseBeat
  BY <1>a DEF Heartbeat, LoseBeat, ConfigTypeOK, VersionsPast, PiecesRight,
     CurrentAgentIsRight, LicenceComesWithTheNextVersion
<1>b. CASE ReceiveBeat
  <2>1. PICK f \in {fetch, [NoFetch EXCEPT !.pc = "ask"]} :
          fetch' = f /\ agent' = agent /\ beat' = -1
    BY <1>b DEF ReceiveBeat
  <2>2. CASE f = fetch
    BY <2>1, <2>2 DEF ConfigTypeOK, VersionsPast, PiecesRight,
       CurrentAgentIsRight, LicenceComesWithTheNextVersion
  <2>3. CASE f = [NoFetch EXCEPT !.pc = "ask"]
    <3>1. f = [pc |-> "ask", doc |-> Blank]
      BY <2>3 DEF NoFetch
    <3>2. QED
      BY <2>1, <3>1 DEF Fetching, VersionsPast, PiecesRight,
         CurrentAgentIsRight, LicenceComesWithTheNextVersion
  <2>4. QED  BY <2>1, <2>2, <2>3
<1>c. CASE ReadVersion
  <2> DEFINE d == [fetch.doc EXCEPT !.version = version, !.remote = remote]
  <2>1. d \in Documents /\ d.version = version /\ d.remote = remote
    BY DEF Documents, ConfigTypeOK
  <2>2. fetch' = [pc |-> "licence", doc |-> d] /\ UNCHANGED <<agent, beat>>
    BY <1>c DEF ReadVersion
  <2> HIDE DEF d
  <2>3. QED
    BY <2>1, <2>2 DEF Fetching, VersionsPast, PiecesRight,
       CurrentAgentIsRight, LicenceComesWithTheNextVersion
<1>d. CASE ReadLicence
  <2> DEFINE d == [fetch.doc EXCEPT !.licence = licence]
  <2>1. /\ d \in Documents /\ d.version = fetch.doc.version
        /\ d.remote = fetch.doc.remote /\ d.licence = licence
    BY DEF Documents, ConfigTypeOK
  <2>2. /\ fetch.pc = "licence" /\ fetch' = [pc |-> "setting", doc |-> d]
        /\ UNCHANGED <<agent, beat>>
    BY <1>d DEF ReadLicence
  <2> HIDE DEF d
  <2>3. QED
    BY <2>1, <2>2 DEF Fetching, VersionsPast, PiecesRight,
       CurrentAgentIsRight, LicenceComesWithTheNextVersion
<1>e. CASE ReadSettings
  <2> DEFINE d == [fetch.doc EXCEPT !.setting = Effective]
  <2>1. /\ d \in Documents /\ d.version = fetch.doc.version /\ d.setting = Effective
        /\ d.remote = fetch.doc.remote /\ d.licence = fetch.doc.licence
    BY EffectiveType DEF Documents
  <2>2. /\ fetch.pc = "setting" /\ fetch' = [pc |-> "reply", doc |-> d]
        /\ UNCHANGED <<agent, beat>>
    BY <1>e DEF ReadSettings
  <2> HIDE DEF d
  <2>3. QED
    BY <2>1, <2>2 DEF Fetching, VersionsPast, PiecesRight,
       CurrentAgentIsRight, LicenceComesWithTheNextVersion
<1>f. CASE Deliver
  BY <1>f DEF Deliver, VersionsPast, PiecesRight,
     CurrentAgentIsRight, LicenceComesWithTheNextVersion
<1>g. CASE LoseFetch
  BY <1>g DEF LoseFetch, VersionsPast, PiecesRight,
     CurrentAgentIsRight, LicenceComesWithTheNextVersion
<1>h. QED
  BY <1>a, <1>b, <1>c, <1>d, <1>e, <1>f, <1>g DEF AgentStep

LEMMA StutterKeeps ==
  ASSUME ConfigInv, UNCHANGED configVars
  PROVE  ConfigInv'
<1>1. ConfigTypeOK'
  BY DEF ConfigInv, ConfigTypeOK, configVars, server
<1>2. QED
  BY <1>1, QuietKeeps DEF ConfigInv, configVars, AgentAlone

------------------------------------------------------------------------------
(* Theorems.                                                               *)

(* The invariant holds in every state of every behaviour.                  *)
THEOREM InvHolds == ConfigSpec => []ConfigInv
<1>1. ConfigInv /\ [ConfigNext]_configVars => ConfigInv'
  <2> SUFFICES ASSUME ConfigInv, [ConfigNext]_configVars PROVE ConfigInv'
    OBVIOUS
  <2>1. CASE \E x \in Remotes : PutConfiguration(x)
    BY <2>1, PutKeeps
  <2>2. CASE \E t \in Licences : License(t)
    BY <2>2, LicenseKeeps
  <2>3. ASSUME NEW r \in Requests,
               \/ \E ps \in SUBSET Protections, c \in Choices : PutSettings(r, ps, c)
               \/ \E p \in Protections : WriteSetting(r, p)
               \/ CommitSettings(r) \/ BreakDeadlock(r) \/ Fail(r)
        PROVE  ConfigInv'
    BY <2>3, PutSettingsKeeps, WriteKeeps, CommitKeeps, FailKeeps DEF BreakDeadlock
  <2>4. CASE AgentStep
    BY <2>4, AgentKeeps
  <2>5. CASE UNCHANGED configVars
    BY <2>5, StutterKeeps
  <2>6. QED  BY <2>1, <2>2, <2>3, <2>4, <2>5 DEF ConfigNext
<1>2. QED  BY InitHolds, <1>1, PTL DEF ConfigSpec

(* Every state is well typed: each step of the agent and of a PUT finds    *)
(* what it reads (service.ts:455-522, routes.ts:2013-2057).                *)
THEOREM ConfigTypeCorrect == ConfigSpec => []ConfigTypeOK
  BY InvHolds, PTL DEF ConfigInv

(* An agent whose version is the server's has the server's document, for   *)
(* any number of protections and of PUTs that overlap its three reads      *)
(* (service.ts:458-520, routes.ts:2031-2049).                              *)
THEOREM CurrentHolds == ConfigSpec => []CurrentAgentIsRight
  BY InvHolds, PTL DEF ConfigInv

(* A version later than the licence's last change brings that licence      *)
(* (service.ts:485-489).                                                   *)
THEOREM LicenceHolds == ConfigSpec => []LicenceComesWithTheNextVersion
  BY InvHolds, PTL DEF ConfigInv
==============================================================================

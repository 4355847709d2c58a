------------------------------ MODULE AgentAuth ------------------------------
(***************************************************************************)
(* Authentication of signed agent requests (agent-gateway/authenticate.ts  *)
(* and agent-gateway/replay.ts), the gate in front of every agent endpoint.*)
(*                                                                         *)
(* A message is what an agent signed: a nonce, a timestamp and a key.  A   *)
(* delivery is one arrival of a message at the API: a message may arrive   *)
(* several times (a retry by the network, a captured copy) and two         *)
(* deliveries are handled concurrently, each pausing at every await.  The  *)
(* steps of one delivery are the awaits of authenticate(): rate limiter,   *)
(* credential lookup, clock check, nonce claim, signature.                 *)
(*                                                                         *)
(* Time is counted in ticks of TicksPerSecond per second: the clock check  *)
(* compares whole seconds (Math.floor) while a Redis key expires with its  *)
(* own finer clock, and the difference matters at the edge of the window.  *)
(***************************************************************************)
EXTENDS Integers, FiniteSets

CONSTANTS
  Deliveries,      \* arrivals of a request at the gateway
  Messages,        \* signed requests; a message stands for its nonce
  Keys,            \* key_ids the messages are signed with
  TicksPerSecond,  \* resolution of Redis's clock
  ClockSkew,       \* AGENT_CLOCK_SKEW_SECONDS
  NonceTtl,        \* AGENT_NONCE_TTL_SECONDS
  PerMinute,       \* AGENT_RATE_LIMIT_PER_MINUTE
  WindowTicks,     \* length of the rate limiter's fixed window, in ticks
  MaxDelay,        \* bound: ticks between the clock check and the nonce claim
  MaxRetries,      \* maxRetriesPerRequest of the Redis client
  MaxStamp,        \* bound: largest timestamp an agent signs, in seconds
  MaxClock         \* bound: last tick of a behaviour

ASSUME AuthAssumption ==
  /\ Messages # {}
  /\ TicksPerSecond \in Nat \ {0}
  /\ ClockSkew \in Nat
  /\ NonceTtl \in Nat \ {0}
  /\ PerMinute \in Nat \ {0}
  /\ WindowTicks \in Nat \ {0}
  /\ MaxDelay \in Nat
  /\ MaxRetries \in Nat
  /\ MaxStamp \in Nat \ {0}
  /\ MaxClock \in Nat

(* The start-up validation of the environment: the API refuses to boot     *)
(* with a shorter nonce lifetime.                                          *)
ASSUME EnvAssumption == NonceTtl >= 2 * ClockSkew

VARIABLES
  clock,       \* Date.now(), in ticks
  redisUp,     \* whether Redis answers
  nonces,      \* Redis: tick until which a message's nonce key lives, -1 if absent
  rate,        \* Redis: INCR counter of each window of the agent
  keyUsable,   \* api_credentials: status IN ('ACTIVE', 'PENDING_ROTATION')
  stamp,       \* x-zshield-timestamp of each message
  keyOf,       \* x-zshield-key-id of each message
  pc,          \* where each delivery stands in authenticate()
  msg,         \* message carried by each delivery
  shape,       \* what arrived: the message as signed, or a damaged copy
  checkedAt,   \* tick at which the delivery passed the clock check
  resends,     \* times the client library sent the claim again
  code,        \* AGENT_ERROR code of a rejected delivery
  window,      \* window whose counter the delivery goes to
  claimed,     \* history: deliveries whose SET created the nonce key
  admitted,    \* history: deliveries the rate limiter let through
  lateKey,     \* history: its key was already unusable when it arrived
  lost,        \* history: messages whose nonce a Redis restart forgot
  degraded     \* history: windows with a lost answer or a forgotten counter

envVars   == <<redisUp, keyUsable, stamp, keyOf, lost>>
nonceVars == <<nonces, claimed>>
rateVars  == <<rate, admitted, degraded>>
reqVars   == <<msg, shape, lateKey, window>>
vars == <<clock, redisUp, nonces, rate, keyUsable, stamp, keyOf, pc, msg, shape,
          checkedAt, resends, code, window, claimed, admitted, lateKey, lost, degraded>>

(* Headers refused before anything is counted, and with which code: signed *)
(* headers missing or malformed, a timestamp that is no positive integer,  *)
(* a protocol version that is none.                                        *)
Refusal == [malformed   |-> "E_AUTH_INVALID_SIGNATURE",
            undated     |-> "E_AUTH_CLOCK_SKEW",
            unversioned |-> "E_VALIDATION"]

Shapes == {"intact", "altered", "misrouted"} \cup DOMAIN Refusal
Steps  == {"idle", "rate", "resolve", "clock", "claim", "verify",
           "accepted", "rejected"}
Codes  == {"none", "E_VALIDATION", "E_RATE_LIMITED", "E_AUTH_CLOCK_SKEW",
           "E_AUTH_CREDENTIAL_REVOKED", "E_AUTH_INVALID_SIGNATURE",
           "E_AUTH_REPLAY", "E_INTERNAL"}

Windows == 0 .. (MaxClock \div WindowTicks)
CurrentWindow == clock \div WindowTicks

(* AgentAuthenticator.now(): whole seconds *)
Now == clock \div TicksPerSecond

(* A Redis key set with EX expires once its clock is past the deadline *)
NonceLive(m) == nonces[m] # -1 /\ clock <= nonces[m]

TypeOK ==
  /\ clock \in 0 .. MaxClock
  /\ redisUp \in BOOLEAN
  /\ nonces \in [Messages -> Nat \cup {-1}]
  /\ rate \in [Windows -> Nat]
  /\ keyUsable \in [Keys -> BOOLEAN]
  /\ stamp \in [Messages -> 1 .. MaxStamp]
  /\ keyOf \in [Messages -> Keys]
  /\ pc \in [Deliveries -> Steps]
  /\ msg \in [Deliveries -> Messages]
  /\ shape \in [Deliveries -> Shapes]
  /\ checkedAt \in [Deliveries -> 0 .. MaxClock]
  /\ resends \in [Deliveries -> 0 .. MaxRetries]
  /\ code \in [Deliveries -> Codes]
  /\ window \in [Deliveries -> Windows]
  /\ claimed \subseteq Deliveries
  /\ admitted \subseteq Deliveries
  /\ lateKey \in [Deliveries -> BOOLEAN]
  /\ lost \subseteq Messages
  /\ degraded \subseteq Windows

Init ==
  /\ clock = 0
  /\ redisUp = TRUE
  /\ nonces = [m \in Messages |-> -1]
  /\ rate = [w \in Windows |-> 0]
  /\ keyUsable = [k \in Keys |-> TRUE]
  /\ stamp \in [Messages -> 1 .. MaxStamp]
  /\ keyOf \in [Messages -> Keys]
  /\ pc = [d \in Deliveries |-> "idle"]
  /\ msg = [d \in Deliveries |-> CHOOSE m \in Messages : TRUE]
  /\ shape = [d \in Deliveries |-> "intact"]
  /\ checkedAt = [d \in Deliveries |-> 0]
  /\ resends = [d \in Deliveries |-> 0]
  /\ code = [d \in Deliveries |-> "none"]
  /\ window = [d \in Deliveries |-> 0]
  /\ claimed = {}
  /\ admitted = {}
  /\ lateKey = [d \in Deliveries |-> FALSE]
  /\ lost = {}
  /\ degraded = {}

------------------------------------------------------------------------------
(* One delivery through authenticate().                                    *)

Reject(d, c) ==
  /\ pc' = [pc EXCEPT ![d] = "rejected"]
  /\ code' = [code EXCEPT ![d] = c]

Advance(d, step) ==
  /\ pc' = [pc EXCEPT ![d] = step]
  /\ UNCHANGED code

(* Step 1: a copy of message m arrives.  Headers that pass take the        *)
(* counter of the current minute, in the same turn.                        *)
Receive(d, m, s) ==
  /\ pc[d] = "idle"
  /\ msg' = [msg EXCEPT ![d] = m]
  /\ shape' = [shape EXCEPT ![d] = s]
  /\ lateKey' = [lateKey EXCEPT ![d] = ~keyUsable[keyOf[m]]]
  /\ IF s \in DOMAIN Refusal
     THEN Reject(d, Refusal[s]) /\ UNCHANGED window
     ELSE Advance(d, "rate") /\ window' = [window EXCEPT ![d] = CurrentWindow]
  /\ UNCHANGED <<clock, checkedAt, resends, envVars, nonceVars, rateVars>>

(* Redis executes the INCR of d.                                           *)
CountRequest(d) == rate' = [rate EXCEPT ![window[d]] = @ + 1]

(* Faulty variant: the limit is compared before the increment is counted.  *)
ConsumeOffByOne(d) ==
  /\ pc[d] = "rate" /\ redisUp
  /\ CountRequest(d)
  /\ IF rate[window[d]] <= PerMinute
     THEN Advance(d, "resolve") /\ admitted' = admitted \cup {d}
     ELSE Reject(d, "E_RATE_LIMITED") /\ UNCHANGED admitted
  /\ resends' = [resends EXCEPT ![d] = 0]
  /\ UNCHANGED <<clock, checkedAt, degraded, envVars, nonceVars, reqVars>>

(* AgentRateLimiter.consume: a fixed window counted by INCR.               *)
Consume(d) ==
  /\ pc[d] = "rate" /\ redisUp
  /\ CountRequest(d)
  /\ IF rate[window[d]] + 1 <= PerMinute
     THEN Advance(d, "resolve") /\ admitted' = admitted \cup {d}
     ELSE Reject(d, "E_RATE_LIMITED") /\ UNCHANGED admitted
  /\ resends' = [resends EXCEPT ![d] = 0]
  /\ UNCHANGED <<clock, checkedAt, degraded, envVars, nonceVars, reqVars>>

(* The connection drops after Redis counted and before it answers: the     *)
(* client library may send the MULTI again, and the request counts twice.  *)
ConsumeResend(d) ==
  /\ pc[d] = "rate" /\ redisUp /\ resends[d] < MaxRetries
  /\ CountRequest(d)
  /\ resends' = [resends EXCEPT ![d] = @ + 1]
  /\ UNCHANGED <<clock, checkedAt, pc, code, admitted, degraded, envVars, nonceVars, reqVars>>

(* No answer from the limiter, because Redis is down or because it was     *)
(* lost: the request is let through (fails open).                          *)
ConsumeUnanswered(d) ==
  /\ pc[d] = "rate"
  /\ \/ ~redisUp /\ UNCHANGED rate
     \/ redisUp /\ resends[d] = MaxRetries /\ (UNCHANGED rate \/ CountRequest(d))
  /\ Advance(d, "resolve")
  /\ admitted' = admitted \cup {d}
  /\ degraded' = degraded \cup {window[d]}
  /\ resends' = [resends EXCEPT ![d] = 0]
  /\ UNCHANGED <<clock, checkedAt, envVars, nonceVars, reqVars>>

(* Faulty variant: the lookup does not filter on the credential's status.  *)
ResolveAnyStatus(d) ==
  /\ pc[d] = "resolve"
  /\ Advance(d, "clock")
  /\ UNCHANGED <<clock, checkedAt, resends, envVars, nonceVars, rateVars, reqVars>>

(* Step 2: CredentialStore.resolve reads the credential.  An unreadable    *)
(* secret, or a database that fails, answers 500.                          *)
Resolve(d) ==
  /\ pc[d] = "resolve"
  /\ \/ IF keyUsable[keyOf[msg[d]]]
        THEN Advance(d, "clock")
        ELSE Reject(d, "E_AUTH_CREDENTIAL_REVOKED")
     \/ Reject(d, "E_INTERNAL")
  /\ UNCHANGED <<clock, checkedAt, resends, envVars, nonceVars, rateVars, reqVars>>

InWindow(m) == Now - stamp[m] \in -ClockSkew .. ClockSkew

(* Step 3: the server the header names must be the credential's, and the   *)
(* timestamp within the tolerance.  Both run in the same turn, before the  *)
(* claim is sent to Redis.                                                 *)
CheckClock(d) ==
  /\ pc[d] = "clock"
  /\ \/ /\ shape[d] = "misrouted"
        /\ Reject(d, "E_AUTH_INVALID_SIGNATURE")
        /\ UNCHANGED checkedAt
     \/ /\ shape[d] # "misrouted"
        /\ ~InWindow(msg[d])
        /\ Reject(d, "E_AUTH_CLOCK_SKEW")
        /\ UNCHANGED checkedAt
     \/ /\ shape[d] # "misrouted"
        /\ InWindow(msg[d])
        /\ Advance(d, "claim")
        /\ checkedAt' = [checkedAt EXCEPT ![d] = clock]
  /\ UNCHANGED <<clock, resends, envVars, nonceVars, rateVars, reqVars>>

(* Redis executes the SET NX EX of d: the key is created unless it lives.  *)
ClaimExecuted(d) ==
  IF NonceLive(msg[d]) THEN UNCHANGED nonceVars
  ELSE /\ nonces' = [nonces EXCEPT ![msg[d]] = clock + NonceTtl * TicksPerSecond]
       /\ claimed' = claimed \cup {d}

(* Faulty variant: the key lives for the tolerance, not for its TTL.       *)
ClaimShortLived(d) ==
  /\ pc[d] = "claim" /\ redisUp /\ ~NonceLive(msg[d])
  /\ nonces' = [nonces EXCEPT ![msg[d]] = clock + ClockSkew * TicksPerSecond]
  /\ claimed' = claimed \cup {d}
  /\ Advance(d, "verify")
  /\ UNCHANGED <<clock, checkedAt, resends, envVars, rateVars, reqVars>>

(* Step 4: ReplayGuard.claim, an atomic SET NX EX.                         *)
ClaimFresh(d) ==
  /\ pc[d] = "claim" /\ redisUp /\ ~NonceLive(msg[d])
  /\ ClaimExecuted(d)
  /\ Advance(d, "verify")
  /\ UNCHANGED <<clock, checkedAt, resends, envVars, rateVars, reqVars>>

(* Faulty variant: the key carries no nonce, so any live nonce counts.     *)
ClaimSeenAnyNonce(d) ==
  /\ pc[d] = "claim" /\ redisUp /\ \E m \in Messages : NonceLive(m)
  /\ Reject(d, "E_AUTH_REPLAY")
  /\ UNCHANGED <<clock, checkedAt, resends, envVars, nonceVars, rateVars, reqVars>>

ClaimSeen(d) ==
  /\ pc[d] = "claim" /\ redisUp /\ NonceLive(msg[d])
  /\ Reject(d, "E_AUTH_REPLAY")
  /\ UNCHANGED <<clock, checkedAt, resends, envVars, nonceVars, rateVars, reqVars>>

(* ReplayCheckUnavailable: 503, fails closed.  The command may also have   *)
(* been executed by a Redis whose answer never came back.                  *)
ClaimUnavailable(d) ==
  /\ pc[d] = "claim"
  /\ \/ ~redisUp /\ UNCHANGED nonceVars
     \/ redisUp /\ resends[d] = MaxRetries /\ (UNCHANGED nonceVars \/ ClaimExecuted(d))
  /\ Reject(d, "E_INTERNAL")
  /\ UNCHANGED <<clock, checkedAt, resends, envVars, rateVars, reqVars>>

(* The connection drops after Redis executed the SET and before it answers:*)
(* the client library reconnects and sends the same SET NX again.          *)
ClaimResend(d) ==
  /\ pc[d] = "claim" /\ redisUp /\ resends[d] < MaxRetries
  /\ ClaimExecuted(d)
  /\ resends' = [resends EXCEPT ![d] = @ + 1]
  /\ UNCHANGED <<clock, checkedAt, pc, code, envVars, rateVars, reqVars>>

(* Step 5: the signature covers the body; the handler runs if it matches.  *)
Verify(d) ==
  /\ pc[d] = "verify"
  /\ IF shape[d] = "intact" THEN Advance(d, "accepted")
                            ELSE Reject(d, "E_AUTH_INVALID_SIGNATURE")
  /\ UNCHANGED <<clock, checkedAt, resends, envVars, nonceVars, rateVars, reqVars>>

------------------------------------------------------------------------------
(* The environment.                                                        *)

deliveryVars == <<pc, code, checkedAt, resends, claimed, admitted, msg, shape,
                  lateKey, window>>

(* Time passes; a claim sent to Redis is executed or given up in MaxDelay. *)
Tick ==
  /\ clock < MaxClock
  /\ \A d \in Deliveries : pc[d] = "claim" => clock < checkedAt[d] + MaxDelay
  /\ clock' = clock + 1
  /\ UNCHANGED <<redisUp, nonces, rate, keyUsable, stamp, keyOf, lost, degraded, deliveryVars>>

(* An administrator revokes a key, or a rotation supersedes it: for good.  *)
RevokeKey(k) ==
  /\ keyUsable[k]
  /\ keyUsable' = [keyUsable EXCEPT ![k] = FALSE]
  /\ UNCHANGED <<clock, redisUp, nonces, rate, stamp, keyOf, lost, degraded, deliveryVars>>

RedisDown ==
  /\ redisUp
  /\ redisUp' = FALSE
  /\ UNCHANGED <<clock, nonces, rate, keyUsable, stamp, keyOf, lost, degraded, deliveryVars>>

(* The network heals: Redis kept its memory.                               *)
RedisBack ==
  /\ ~redisUp
  /\ redisUp' = TRUE
  /\ UNCHANGED <<clock, nonces, rate, keyUsable, stamp, keyOf, lost, degraded, deliveryVars>>

(* The process restarts: the deployment runs it without persistence        *)
(* (--save "" --appendonly no), so every key is gone.                      *)
RedisRestart ==
  /\ ~redisUp
  /\ redisUp' = TRUE
  /\ nonces' = [m \in Messages |-> -1]
  /\ rate' = [w \in Windows |-> 0]
  /\ lost' = lost \cup {m \in Messages : nonces[m] # -1}
  /\ degraded' = degraded \cup {w \in Windows : rate[w] > 0}
  /\ UNCHANGED <<clock, keyUsable, stamp, keyOf, deliveryVars>>

DeliveryStep(d) ==
  \/ \E m \in Messages, s \in Shapes : Receive(d, m, s)
  \/ Consume(d)
  \/ ConsumeResend(d)
  \/ ConsumeUnanswered(d)
  \/ Resolve(d)
  \/ CheckClock(d)
  \/ ClaimFresh(d)
  \/ ClaimSeen(d)
  \/ ClaimUnavailable(d)
  \/ ClaimResend(d)
  \/ Verify(d)

EnvStep ==
  \/ Tick
  \/ \E k \in Keys : RevokeKey(k)
  \/ RedisDown
  \/ RedisBack
  \/ RedisRestart

Next == EnvStep \/ \E d \in Deliveries : DeliveryStep(d)

Spec == Init /\ [][Next]_vars

------------------------------------------------------------------------------
(* Properties.                                                             *)

(* The anti-replay guarantee (authenticate.ts steps 3 and 4, env.ts:66-75):*)
(* of all the deliveries of one signed message at most one is handed to a  *)
(* handler, however they interleave with each other, with time, and with   *)
(* Redis outages, unless a restart of Redis forgot that message's nonce.   *)
NoReplay ==
  \A d, e \in Deliveries :
    (/\ pc[d] = "accepted" /\ pc[e] = "accepted"
     /\ msg[d] = msg[e] /\ msg[d] \notin lost) => d = e

(* A refusal as a replay has a real cause (replay.ts:44-62): a delivery of *)
(* the same message created the nonce key.  It may be the refused delivery *)
(* itself, when the answer of its first SET was lost and the client sent   *)
(* the command again.                                                      *)
ReplayVerdictJustified ==
  \A d \in Deliveries :
    code[d] = "E_AUTH_REPLAY" => \E e \in claimed : msg[e] = msg[d]

(* A request that arrives once its key is revoked or superseded never      *)
(* reaches a handler, whatever was in flight (credentials.ts:42-59).       *)
RevokedKeyRefused ==
  \A d \in Deliveries : lateKey[d] => pc[d] # "accepted"

(* However many requests reach Redis at once, and whenever they reach it,  *)
(* a window lets at most PerMinute of them through (replay.ts:81-98),      *)
(* unless an answer of the limiter was lost in it or a restart of Redis    *)
(* forgot its counter: it then fails open (replay.ts:99-101).              *)
RateRespected ==
  \A w \in Windows \ degraded :
    Cardinality({d \in admitted : window[d] = w}) <= PerMinute

(* gateway guard(): a request authenticate() let through is answered by    *)
(* handle() with a signed body, every refusal by sendUnsignableError.      *)
ReplySigned(d) == pc[d] = "accepted"

(* README.md:132: every answer to an agent is signed, the 401 included; at *)
(* the least those refused after their credential was resolved.            *)
RefusalsSigned ==
  \A d \in Deliveries :
    code[d] \in {"E_AUTH_CLOCK_SKEW", "E_AUTH_REPLAY"} /\ shape[d] # "undated"
      => ReplySigned(d)
==============================================================================

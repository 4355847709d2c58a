# Z-Shield in TLA+

Z-Shield is a multi-tenant dashboard for FiveM game servers. An *agent*
running on each game server talks to the platform with signed HTTP requests;
operators use a web dashboard. The platform is one Node process (Fastify,
`src/apps/api/src`), PostgreSQL (READ COMMITTED; every `withTenant` block is
one transaction) and Redis (nonces, rate counters, publish/subscribe; no
persistence in production).

This directory models the parts of it whose correctness depends on the order in
which concurrent requests, transactions, lost answers, restarts and the clock
meet: eleven components, each a module checked by TLC and with theorems checked
by TLAPS. Line numbers refer to files under `src/`.

## 1. Inventory

Paths are relative to `src/apps/api/src` unless they start with `src/`.

| Component | State it keeps | Operations | Hard behaviours | Module |
|---|---|---|---|---|
| Agent authentication: `agent-gateway/authenticate.ts`, `replay.ts`, `respond.ts` | Redis nonce keys with a lifetime, Redis counters per minute; reads `api_credentials` | `authenticate` (headers, rate, credential, clock, nonce, signature), `claim`, `consume` | two arrivals of a request interleave at every await; the nonce expires while the request travels; Redis stops, restarts empty, or answers too late | `AgentAuth` |
| Agent credentials: `agent-gateway/credentials.ts`, `service.ts` (handshake, rotate), `api/routes.ts:862-1172` | `api_credentials`, `agents`, `servers.deleted_at/state` | issue, begin and commit a rotation, revoke, regenerate, delete the server | several transactions per request; the status read at authentication is used later; answers are lost | `Credentials` |
| Command queue: `service.ts:588-698`, `api/routes.ts:1543-1651` | `agent_commands` rows and their locks | queue, claim at a poll, settle by a report, expire | overlapping polls and reports on the same rows, deadlocks, repeated and late results | `CommandQueue`, `CommandLifecycle` |
| Memberships and invitations: `api/routes.ts:507-836`, `api/middleware.ts` | `memberships`, `invitations` | change a role, remove, invite, accept | the actor's role is read in one transaction and used in another; owners act on each other; a code is presented while it is revoked | `Membership` |
| User sessions: `auth/sessions.ts`, `scripts/reset-admin-password.mjs` | `users`, `discord_identities`, `password_resets`, `sessions` | register, log in by password or Discord, lock out, ask for a link, reset, end a session | failure counter read then written; a login meets a reset; two registrations of one address | `Sessions` |
| Bans, appeals, shared network: `api/routes.ts:2437-2841`, `service.ts:331-429` | `bans`, `ban_appeals`, `global_ban_signals/reporters` | ban, propose, review, lift, appeal, contribute | two reviewers of one identifier; a review meets an appeal; two reports to the network | `Sanctions` |
| Licences, plans, quotas: `api/routes.ts:862-926`, `3235-3694` | `servers`, `licenses` | create and delete servers, activate a key, issue, revoke, verify | count then insert, check then bind, verdict over several servers | `Licensing` |
| Remote configuration and protections: `service.ts:455-522`, `api/routes.ts:1178-1220`, `1971-2057` | `servers.remote_config`, `config_version`, `server_protection_settings` | edit, fetch | three reads of a document while it is written; PUTs in opposite orders; messages lost | `RemoteConfig` |
| Server presence and realtime: `service.ts:75-278`, `realtime/websocket.ts`, `src/apps/web/lib/useRealtime.ts`, `useResource.ts` | `servers.state`, sockets, what each page shows | handshake, heartbeat, publish, reload | events published before COMMIT or lost; answers out of order; a user excluded while a page is open | `Presence` |
| Evidence captures: `evidence/upload.ts`, `api/routes.ts:1753-1883` | `evidence_captures`, one-time tokens | request, upload, delete, retention | a token used twice at once; retention and rate read before they are enforced | `Captures` |
| Alerts, incidents, signatures, rules, lockdown, audit: `service.ts:331-450`, `api/routes.ts:84-169`, `1226-1537`, `2876-3178`, `3730-3821` | `alerts`, `incidents`, `incident_events`, `signature_submissions`, `security_rules`, `audit_logs` | ingest, triage, open, attach, decide, comment, audit | batches resent; decisions that overlap; an audit entry written after COMMIT, by another transaction | `Triage` |
| Telemetry, live view, heatmap: `service.ts:283-326`, `531-580` | samples | append or overwrite | none a decision reads | - (section 16) |
| Row-level security, migrations, HTTP assembly, configuration, crypto, logging, web pages | - | - | - | - (section 16) |

How they interact: every agent endpoint first runs authentication, which reads
the credentials; handshake writes credentials and server presence; the
dashboard writes credentials, commands, memberships, configuration; a capture
queues a command; alerts bring bans of their own; commands, alerts and presence
publish to Redis, which the realtime component fans out to browsers. Components
share PostgreSQL rows, never memory, except the socket registry; each module
models the rows its component decides on together with every handler that
writes them, in whatever file, and so contains the part of its neighbours that
matters to it: `Credentials` has the dashboard's deletion, `Presence` the path
from the database through Redis and the socket to the page, `Sanctions` the
alerts and the appeals, `Triage` the audit logs of four components.

## 2. Plan and structure

| Order | Module | Checked by | Proved by |
|---|---|---|---|
| 1 | `AgentAuth` | `MCAgentAuth`, `AgentAuth.cfg` | `GatewayProofs` |
| 2 | `Credentials` | `MCCredentials`, `Credentials.cfg` | `IdentityProofs` |
| 3 | `CommandLifecycle` (abstract), `CommandQueue` (refines it) | `MCCommandQueue`, `CommandQueue.cfg`, `CommandQueue_liveness.cfg` | `CommandQueueProofs` |
| 4 | `Membership` | `MCMembership`, `Membership.cfg` | `MembershipProofs` |
| 5 | `Sessions` | `MCSessions`, `Sessions.cfg` | `IdentityProofs` |
| 6 | `Sanctions` | `MCSanctions`, `Sanctions.cfg` | `SanctionsProofs` |
| 7 | `RemoteConfig` | `MCRemoteConfig`, `RemoteConfig.cfg` | `GatewayProofs` |
| 8 | `Triage` | `MCTriage`, `Triage.cfg` | `TriageProofs` |
| 9 | `Licensing` | `MCLicensing`, `Licensing.cfg` | `ServersProofs` |
| 10 | `Presence` | `MCPresence`, `Presence.cfg` | `ServersProofs` |
| 11 | `Captures` | `MCCaptures`, `Captures.cfg` | `CapturesProofs` |

One pass run per component checks its properties together; the command queue
has a second one for liveness, because fairness changes the specification and
a smaller instance suffices. State spaces stay under five minutes on two
workers. What a proof module shows for every instance and no run needs to show
again on a small one (type correctness, mostly) is left out of the runs. A
proof module may hold the theorems of two components that meet at the same
door; it extends both, so `RemoteConfig`, `Sessions` and `Presence`, the
second of each pair, name their specifications `ConfigSpec`, `SessionsSpec`
and `PresenceSpec` (and likewise `...Init`, `...Next`, `...TypeOK`). Every
safety property of a run is proved; only liveness is left to the runs.

Conventions common to the modules. A request is a record or a `pc` that walks
through the statements of its handler; between two statements anything else may
happen. A row written inside a transaction is *locked*: another writer waits,
then examines the row again, as READ COMMITTED does; readers see what is
committed. A transaction whose last statement writes is one step from that
statement to COMMIT. `Fail` rolls a transaction back (error, lost connection,
restart of the process) and leaves what earlier transactions committed. An
identifier drawn by `newId` is one nobody has yet. TLC looks for deadlock
except where the modelled world really stops: the clock at its bound
(`AgentAuth`, `Triage`), keys used up or an organization gone (`Credentials`,
`Membership`), a stopped server and an excluded page (`Presence`). Definitions
commented *Faulty variant* are not part of any specification: put in the place
of the definition that follows, each makes the property it is listed with in
`PROJECT.json` fail.

## 3. AgentAuth

| Model | Code |
|---|---|
| `Receive`, `Refusal` | header extraction and format checks, `authenticate.ts:98-137`: which refusal has which code; the limiter's window is the one of this turn |
| `Consume` | `AgentRateLimiter.consume`, `replay.ts:81-98` (INCR first, compare after) |
| `ConsumeResend`, `ConsumeUnanswered` | the command sent again, or no answer at all, Redis being down or its answer lost: the request is let through (`replay.ts:99-101`) |
| `Resolve` | `CredentialStore.resolve`, `credentials.ts:42-88` |
| `CheckClock` | server mismatch and skew, `authenticate.ts:149-165`, one synchronous turn |
| `ClaimFresh`, `ClaimSeen`, `ClaimUnavailable` | `ReplayGuard.claim`, `replay.ts:52-62`: SET NX EX, OK, nil or error |
| `ClaimResend` | `lib/redis.ts:26`: after a dropped connection the client sends the command again, and Redis may have executed it |
| `Verify` | signature, `authenticate.ts:185-209` |
| `RevokeKey`, `Tick`, `RedisDown`, `RedisBack`, `RedisRestart` | the environment; a restart forgets every key (`src/docker-compose.prod.yml:34`) |

A message stands for its nonce, timestamp and key; a delivery is one arrival of
a copy of it, `intact`, `altered` (signature fails), `misrouted` (another
server's id), or refused for its headers: `malformed`, `undated` (the
timestamp), `unversioned` (the protocol version). The clock has
`TicksPerSecond` ticks per second because the clock check compares whole
seconds while a Redis key lives `NonceTtl` exact seconds.

*Properties.* `NoReplay` (at most one accepted delivery per message, except a
message whose nonce a Redis restart forgot), `ReplayVerdictJustified` (an
`E_AUTH_REPLAY` has as its cause a delivery of the same message whose SET
created the key, recorded in `claimed`; it may be the refused one's own, sent
twice, which is what the code does), `RevokedKeyRefused` (of requests that
arrive after the revocation), `RateRespected` (windows not `degraded`: every
answer came and no restart forgot the counter, since the limiter fails open).

*Run.* `auth`: two deliveries, two messages, skew 1 s, TTL 3 s, one request
per window, five ticks: a message can be claimed at the first and presented
again after the last acceptable tick, and a window can overflow. The lifetime
is a second above twice the skew, one second more than the start-up check asks
for, and what `NoReplay` needs (section 14).

## 4. Credentials

One server. Every transaction is one action, and between two transactions of a
request anything may happen: `Authenticate` reads the status (`cseen`) that
`Handshake` uses later to decide whether `CommitRotation` runs; `StartIssue`,
`FindAgent`, `InsertAgent`, `RevokePrevious`, `IssueActive`, `IssueReply` are
the steps of `POST credentials` and `POST build` (`routes.ts:952-1147`);
`CallFail` and `IssueFail` end a request anywhere. The partial unique index is
`IndexAllows`: a transaction that would leave two ACTIVE rows fails. Rows
cannot be seen half-written, and a transaction that waits for another's row
lock only commits later, so the order of commits is the order of actions.

*Properties.* `SupersededHasHeir` (a key is retired only for one the agent has
received and that was promoted), `DeletedStaysOffline`, `RotationNeverLocksOut`
(only a revocation takes the last usable key of the agent), `DeadKeysStayDead`.
That no two keys are ACTIVE together is what the index says, not a property.

*Run.* `credentials`: three keys, two agent requests, two regenerations; three
keys are what a rotation of a rotation, or two regenerations in the middle of
one, need. The `VIEW` leaves out what an idle request remembers of its last
run: no action and no property reads it.

## 5. CommandQueue and CommandLifecycle

`CommandLifecycle` is what the queue promises: a command is handed out until
one verdict settles it, the verdict is final, an expiry is never early, and
the dashboard hears of it at most once, truthfully. `CommandQueue` is the code
at the level of SQL statements: `row` holds committed versions, `latest` those
of open transactions, `lock` the transaction holding each row.

| Model | Code |
|---|---|
| `Issue` | the three INSERTs (`routes.ts:1553`, `1628`, `1799`); `IssueLag` lets `created_at` be older than the commit |
| `BeginPoll`, `ExpireRow` | first UPDATE, row by row in any order; a locked row is waited for and its condition evaluated again (`service.ts:592-600`) |
| `Claim` | second UPDATE: `ORDER BY created_at LIMIT FOR UPDATE SKIP LOCKED` (`607-625`) |
| `CommitPoll`, `Reply` | COMMIT; the answer arrives or is lost |
| `BeginReport`, `UpdateRow`, `CommitReport` | the loop of `commandResults` (`656-687`) |
| `Publish`, `Answer` | events after COMMIT, each possibly lost (`689-697`) |
| `Fail`, `BreakDeadlock` | rollback after an error, or chosen by the database |

*Properties.* `ClaimHolds` (a claimed batch stays open and exclusive until its
poll commits), `ImplementsLifecycle` (refinement, `row`, `expires`, `clock`
and `announced` mapped to themselves); proved only, since the abstract queue
implies what they say on the run: `AnnouncedIsStored`, `AnnouncedOnce`; under
fairness `EventuallySettled` and `EveryRequestEnds`.

*Fairness.* Time passes; an agent polls again and again (its loop is periodic);
a statement whose rows are free ends; a transaction that waits for a row has it
before later ones (PostgreSQL queues lock waiters), hence strong fairness per
row on `ExpireRow` and `UpdateRow`; deadlocks are broken. With weak fairness
only, TLC shows two requests aborting each other in turn for ever, which the
lock queue excludes. Nothing is assumed of `Issue`, `BeginReport` or failures.

*Runs.* `queue`: two commands, two polls, one report of up to two results with
two outcomes, a limit of one per poll, two ticks; deadlock between a poll and a
report, duplicates with different outcomes and resends after the answer all
happen. `queue_liveness`: one poll, one report, one failure.

## 6. Membership

One organization. A request first resolves its actor's role in a transaction
of its own (`ResolveRole`, `middleware.ts:126`), then runs the handler's. As
in the queue, a row read FOR UPDATE or written stays locked until the end of
the transaction, and other rows are read as committed.

| Model | Code |
|---|---|
| `Begin`, `ResolveRole` | `Guard.require` for `member.manage`; `resolveRole`, `sessions.ts:373-382` |
| `LockTarget`, `Decide`, `CommitChange` | PATCH and DELETE `/api/memberships/:id` (`routes.ts:516-550`, `574-603`): lock the target, count the OWNERs, check, write, COMMIT; a removal is a change to `"none"` |
| `CutSessions` | sessions revoked after the removal's transaction (`617-621`) |
| `Invite`, `RevokeInvitation`, `Expire` | POST and DELETE `/api/invitations` (`664-711`), seven days |
| `Present`, `LockInvitation`, `Join`, `CommitAccept`, `OpenSession` | POST `/api/invitations/accept` (`751-836`): lock the invitation by its code, upsert the membership, mark the invitation, COMMIT, open a session |
| `Fail` | rollback after an error or a restart; what was committed before stays |

The field `gone` of a request says that the row its identifier names was
deleted meanwhile, so that a member removed and invited again is not mistaken
for the former row.

*Properties.* `RoleMovesJustified` (a role moves only by an invitation, or by
somebody whose resolved role entitles him to this very move at COMMIT: OWNER
for anything about an OWNER, and nobody raises himself),
`DeadCodesAdmitNobody` (a code admits once and never after it was revoked or
replaced), `LastOwnerOnlyLostToARace` (the last OWNER goes only if the OWNERs
changed after they were counted, or by an acceptance). `RoleMovesJustified`
speaks of the role the request resolved: an actor demoted after that still
acts once with it.

*Run.* `membership`: two users, two requests, two codes, roles OWNER and ADMIN
(the two that manage members, and the two ends of the rule about OWNERs): two
changes of the same or of different members, an acceptance against a
revocation, a replacement or another acceptance of the same code.

## 7. Sessions

The account of one email address, from nobody to its sessions.

| Model | Code (`auth/sessions.ts`) |
|---|---|
| `Register`, `Insert`, `Create` | `register` 88-153: the email is looked up, then `INSERT`ed against the unique index; a second `INSERT` waits for the first transaction |
| `Login`, `Refuse`, `Accept` | `login` 181-264: the failure counter is read with the row; the refusal writes `read + 1` and, at `MaxFailed`, the lock |
| `Discord`, `DiscordLink`, `DiscordProvision` | `loginWithDiscord` 537-700: known identity, link by email, or provision |
| `Open`, `EndSession`, `LockExpires`, `TokenExpires` | `createSession` 266-317, `revokeSession` and `revokeAll` 398-412, expiry |
| `Ask`, `Consume`, `Issue` | `createPasswordReset` 441-466: earlier links consumed, a new one inserted |
| `Present`, `Password`, `Sweep`, `CommitReset` | `completePasswordReset` 475-520: link locked, password, sessions revoked, COMMIT |
| `AdminReset` | `scripts/reset-admin-password.mjs:37-49` |

`late` marks a session inserted after the sweep of a reset that has not
committed; it is what `ResetEndsSessions` allows to survive, and what the code
allows: a login that verified the old password just before.

*Properties.* `ResetEndsSessions`, `SpentLinksChangeNothing`,
`LockOutlivesFailures`, `AccountStaysTheirs`. No fairness: nothing in the
component waits for anything but a COMMIT.

*Run.* `sessions`: two requests, two Discord identities and two links, three
sessions, `MaxFailed` 2, at most two resets: two resets compete for one link, a
new link is drawn between the presentation and the password, a failure that
read 0 commits after the lock, both identities and the form create the account.

## 8. Sanctions

The bans of one organization on one identifier and perimeter, the smallest
universe in which the unique index on ACTIVE bans, reviews, appeals and the
shared network meet.

| Model | Code |
|---|---|
| `Ban` | `POST /api/bans` (`routes.ts:2437-2514`) and the automatic bans of alerts (`service.ts:377-429`), under the unique index (`IndexFree`) |
| `Propose` | a sanction of an alert left PENDING for review (`service.ts:377-429`) |
| `Load`, `Find`, `Displace`, `Settle`, `Commit` | the review (`routes.ts:2565-2654`), one transaction: the sanction is read without a lock; a confirmation finds the ACTIVE ban of the identifier, lifts it; the sanction is settled *if it is still PENDING*; the detector is told the verdict in either case (`Feedback`, `2547-2563`); COMMIT |
| `Lift` | `POST /api/bans/:id/lift` (`2516-2540`) |
| `Submit`, `InsertAppeal` | `POST /api/appeals` (`2672-2710`): the SELECT of the ACTIVE ban, then the INSERT for it |
| `Decide`, `Resolve` | `POST /api/appeals/:id/resolve` (`2731-2773`): the decision locks the appeal, an approval lifts the ban |
| `OptIn`, `BanElsewhere`, `Share`, `Report`, `Count` | `contributeSharedBan` (`2783-2823`): reporters by organization, the counter raised for a new one; `BanElsewhere` is `POST /api/bans` of another organization, whose own bans are not modelled |

*Properties.* `OneActiveBan`, `ApprovedAppealsHold`, `ReviewsAreFinal`,
`BanEndsOnPurpose`; proved only: `AppealsDecidedOnce`, `OrgsCountedOnce`.

*Run.* `sanctions`: three bans (an active one and two to confirm in its place,
of which one in all comes from a detector: `Detected`), an appeal, two
organizations, two requests. A review that finds its own sanction already
ACTIVE, confirmed by another since it was read, lifts it: it holds the lock
that `Settle` then asks for.

## 9. Licensing

`Count`, `Create`, `Delete` are `POST` and `DELETE /api/servers`
(`routes.ts:862-926`); `Generate` is `POST /api/licenses/generate`
(`3310-3336`), which signs a key and stores nothing of it, `Expire` its date;
`Check`, `Pick`, `Afford`, `Bind` are the activation of a key (`3354-3464`): it
is verified and looked up, a server of the organization without a licence is
found, or else the servers are counted and one is created within the quota, and
the licence row is written. `Issue`
and `AdminIssue` replace the token of a server's row (`3235-3281`,
`3551-3599`), `Revoke` sets or clears `revoked_at` (`3605-3649`), `Verdicts(f)`
is what `GET /api/license/verify` may answer for a fingerprint: that of any
licensed server bearing it (`3659-3694`), since the statement asks for one row
in no order. `Report` is the heartbeat that records a fingerprint
(`service.ts:236-245`).

*Properties.* Nothing locks what is counted or checked, so both limits can be
passed (`QuotaHolds`, `KeyServesOnce`: section 14). `QuotaOnlyPassedByARace`
says that an organization *grows* past its quota by a creation whose count is
outdated and by nothing else (one already past it may lose servers and still be
past it), `QuotaOvershootBounded` how far: every request in flight but one
brings in one server too many. `KeyShareBounded`: a key is at any time on no
more licences than there are requests in flight. It does not say that a key
serves once: a customer who reissues a licence (`3258-3266`) frees the key it
held, which then activates another server with no race at all.
`RevokedVerdictLasts`: once every licensed server of a fingerprint is revoked,
reissuing by the customer does not make the verdict active. The vendor can, and
so can a server that is not revoked coming to bear the fingerprint, or the last
one that bears it being deleted or reporting another; the property names these.

*Run.* `licensing`: two requests, so that two that counted or checked together
meet; one organization, three servers (a quota of one, one past it by a race,
and one more that must not be), one key, one fingerprint.

## 10. RemoteConfig

| Model | Code |
|---|---|
| `PutConfiguration` | `PUT /api/servers/:id/configuration` (`routes.ts:1178-1220`): document and `config_version + 1` in one UPDATE |
| `PutSettings`, `WriteSetting`, `CommitSettings`, `BreakDeadlock` | `PUT protection-settings` (`2013-2057`): one upsert per protection in the order of the body, then the version |
| `License` | any write of the licence; the version does not move |
| `Heartbeat`, `LoseBeat`, `ReceiveBeat` | the answer of `heartbeat` carries the version |
| `ReadVersion`, `ReadLicence`, `ReadSettings`, `Deliver`, `LoseFetch` | `config` (`service.ts:455-522`): three statements, each seeing what is committed when it runs |

The agent is not in the repository. It is taken to do what the gateway's
comments expect of it (fetch when the version differs, keep the document with
its version) and is marked external in the map.

*Properties.* `CurrentAgentIsRight`: the version is read first and raised last,
so an agent whose version is the server's has the server's document, although
no transaction isolates the three reads. `LicenceComesWithTheNextVersion`.
Under fairness `AgentCatchesUp` and `EveryPutEnds`.

*Fairness.* The agent sends heartbeats periodically (WF `Heartbeat`); the
network may lose any number of messages but not all of them for ever (SF on
receiving and on each step of the fetch); a PUT whose row is free now and then
gets it (PostgreSQL queues waiters), COMMITs, and deadlocks are broken. Nothing
is assumed of users, of failures or of losses. `MaxVersion` ends the changes,
which is the hypothesis of `AgentCatchesUp`: once nobody changes the
configuration any more.

*Run.* `config`: two protections (a deadlock needs two), two choices, two PUTs,
two versions after the first (one may pass while a fetch of the other is under
way), two licences.

## 11. Presence

The servers row (`Handshake`, `Heartbeat`, then `Update`, `Publish`, `Commit`
of `service.ts:75-133` and `183-278`, in that order: the event leaves before
COMMIT), the deletion (`routes.ts:913-946`), and a page: `Hear` (event or
connection, `websocket.ts:48-137`), `Tick` (the fallback poll,
`useRealtime.ts:77-80`),
`Answer`, `Arrive`, `Retry`, `GoToLogin` (`useResource.ts:18-58`), with several
requests of the page in flight, whose answers are shown in whatever order they
arrive.
`Exclude` is the loss of the session or of the membership; it is where the
session cut of `routes.ts:617-621` ends up, late or never.

*Properties.* `PageCatchesUp`: once the agent is silent, an entitled page comes
to show what is stored and goes on showing it. `ExcludedPagesLeave`.
`PresenceTypeOK` carries the invariant that a deleted server is OFFLINE,
however reports that began before the deletion end.

*Fairness.* A report ends; the poll of an open page comes round
(`setInterval`); the API answers a page now and then (SF: some answers may be
lost or fail). None is assumed of events, which may all be lost.

*Run.* `presence`: one page (pages share nothing), two requests of it in
flight, two attempts each, one report, two payloads.

## 12. Captures

`Ask`, `Count`, `Trim`, `Purge`, `Insert` are the statements of the request
(`routes.ts:1753-1819`): the member's rate over the last minute is counted,
the captures beyond the retention are picked in one statement and deleted, the
row is inserted. `Upload`, `Select`, `Store` are `upload.ts:27-158`: the row
is locked by its token's hash while PENDING and live, then written. `Delete`,
`Age` (a minute passes, a token expires), `Fail`. `older` relates each capture
to those whose `created_at`, the beginning of the transaction, is later: what
retention sorts by.

*Properties.* `ReceivedOnce` (one image per token, whatever uploads overlap),
`RetentionHolds` (up to the requests in flight), `RateOnlyPassedByARace` and
`RateOvershootBounded`: how the limit of a minute is passed, and how far. The
types are proved only.

*Run.* `captures`: four captures and two requests, with a rate and a retention
of one: both requests may see the same oldest row, or none.

## 13. Triage

Things that people decide on - incidents, signatures, rules, lockdown modes -
have one status each; a request begins (its `now()` is the clock), writes,
commits, and writes its audit entry in a transaction of its own
(`routes.ts:145-169`). There is one audit log for each organization: `audited`
is the last entry on a thing in its organization's, `vendorLog` in that of the
platform admins, where the reviews of signatures go (`3005`).

| Model | Code |
|---|---|
| `Ingest`, `Triage` | alerts inserted by the agent (`service.ts:336-375`), moved or changed by `PATCH /api/alerts/:id` (`1265-1302`) |
| `Create`, `Attach`, `Open` | `POST /api/incidents` (`1416-1481`): row, alerts attached one by one if free, count and first event |
| `Decide` as `Change`, `Comment`, `Review`, `PatchRule`, `Lockdown`; `Event`, `Write` | `PATCH /api/incidents/:id` (`1483-1537`), a comment (`1385-1414`), the review of a signature (`2980-3008`), `PATCH` of a rule (`3082-3115`), the lockdown mode (`3730-3759`) |
| `Submit`, `CreateRule`, `Configure` | a signature (`2876-2915`), a rule (`3025-3080`), `PUT anticheat` (`3761-3821`) |
| `Audit`, `FailAudited` | the entry after COMMIT, or the process stops before it |
| `EvidenceLevel` | `1362-1382`, over every part of the alerts `LIMIT 200` may send |

`upset` is a history variable: it records that two transactions on a thing
overlapped, that an entry was lost or tells nothing of the status, or that an
alert was moved; the properties say what holds unless that happened.

*Properties.* `TimelineTellsStatus`, `TrailTellsStatus`; proved only:
`CountsAttached`, `ResolutionStands`, and `EvidenceOnlyGrows` (as long as an
incident keeps its alerts and its page has room for them, the evidence level
shown never falls). `TrailTellsStatus` looks where an entry must be: for a
signature that has been reviewed, in the vendor's log, since the organization's
own ends with its submission.

*Run.* `triage`: two alerts of which each may be resent, two incidents, a
signature, a rule, a server, two requests, three decisions: an overlap needs
two, and what it leaves is seen by the third.

## 14. Divergences

Where a comment or a document says more than the code does. The definitions
named here are in the modules, beside the properties; checked in place of the
properties of the component's run, each gives a trace.

* `RefusalsSigned` (`AgentAuth`): `src/README.md:132` and
  `src/docs/ARCHITECTURE.md:136` say every answer to an agent is signed, the
  401 included. `guard` answers refusals through `sendUnsignableError`
  (`agent-gateway/routes.ts:119`), also when the secret has been resolved.
* Nonce lifetime: the start-up check (`config/env.ts:67`) accepts a lifetime of
  twice the skew. The clock check compares whole seconds, so a request may be
  accepted in `2*skew + 1` of them: `NoReplay` fails with a lifetime of twice
  the skew and several ticks per second. The defaults (300, 900) are far away.
* `AtMostTwoUsable` (`Credentials`): `src/db/migrations/0001_init.sql:227`
  speaks of two keys at most; two rotations before a commit leave three.
* `DeletedServerRefusesAgent`: `routes.ts:928-929`; a key inserted by a request
  that authenticated before the deletion is usable after it.
* `RegenerationCutsOff`: `routes.ts:985-987`; a rotation in flight inserts a
  PENDING key after the revocation of the others.
* `NextPollDelivers` (`CommandQueue`): `routes.ts:1584` promises the next poll;
  commands handed out and not acknowledged keep the oldest places
  (`service.ts:619`).
* `ChangesKeepAnOwner` (`Membership`): `routes.ts:531-533` says that two
  simultaneous demotions cannot leave the organization without an OWNER. One
  lock per target and a committed count can.
* `ConfirmationTakesOver` (`Sanctions`): `routes.ts:2591-2595`; a review that
  lifted the former ban, and then finds its own sanction settled by another
  request, commits the lift and answers 200 with `ban_status: 'ACTIVE'`
  (`2608-2612`): the identifier has no ban. When that other request was a
  confirmation of the same sanction, the ban lifted is the one it confirmed.
* `FeedbackFollowsDecision` (`Sanctions`): `routes.ts:2542-2545` has each
  decision feed the anticheat; of two reviews that read one sanction PENDING,
  the one that settled nothing records its verdict too.
* `QuotaHolds` (`Licensing`): `routes.ts:873-874`; counting in the transaction
  does not serialize two creations.
* `KeyServesOnce` (`Licensing`): `routes.ts:3343-3345` and `3371-3372` say a key
  serves once and cannot activate two servers. Two activations that both
  checked it before either is written do; and so do two in a row, when the
  customer reissues the licence of the first server in between (`3258-3266`):
  the token is replaced, and the key is on no licence any more.
* `SilentServerGoesOffline` (`Presence`): `docs/ARCHITECTURE.md:279-282`
  describes a sweeper; there is none in the source.

Met while reading, below what the models distinguish or outside them:

* `alerts_ingest_idempotency_idx` (`0001_init.sql:332-337`) includes
  `created_at`, so a resent alert is inserted again, contrary to
  `service.ts:340-342` (`Ingest` does so). The primary key of
  `telemetry_samples` has the same shape, and a resent heatmap is added twice.
* `E5` of the evidence levels is documented and never produced.
* `PATCH` of an alert with `incident_id: null` or `assigned_to: null` changes
  nothing (`COALESCE`).
* An audit entry that fails makes the request answer 500 after its COMMIT;
  triage of alerts is not audited; `PUT anticheat` resets the lockdown mode
  without its entry saying so; a reviewed signature may be reviewed again.
* `alert_count` is not corrected when an alert is moved (`CountsAttached` says
  until when it is right).
* A new licence does not raise `config_version`, so an agent has it only with
  the next change (`LicenceComesWithTheNextVersion` says no more).
* Creation of a rule answers 409 also when its server does not exist.
* The hub registers a socket that closed while its subscription was awaited,
  and an open socket receives events after its member was removed (its page
  leaves at the next reload: `ExcludedPagesLeave`).
* An older telemetry sample may overwrite the `protections` snapshot of a newer
  one (`service.ts:314-322`).

## 15. Proofs

For every number of requests, keys, commands, bans, and every value of the
bounds, under the named assumptions of the modules:

* `GatewayProofs`, for `AgentAuth`: `TypeOK` and the four properties. For
  `NoReplay`, the inductive invariant `ReplayInv` adds to `NoReplay` that a
  claim in flight is recent (`ClaimTimely`), that a delivery past its claim,
  unless its nonce was forgotten, has a recorded one (`GrantRecorded`), that a
  recorded nonce outlives the instants at which its message is still accepted
  (`NonceOutlives`), and that two deliveries never both pass the claim
  (`GrantUnique`). It needs `TtlCovers`: `NonceTtl*R + 1 >= (2*ClockSkew+1)*R +
  MaxDelay`, with `R` ticks per second and `MaxDelay` the time between the
  clock check and the execution of SET. The start-up check (`env.ts:67`) gives
  one second less (section 14); the defaults (300, 900) satisfy it amply. The
  other three need no such assumption: `LateHeld` (a delivery that came with a
  dead key stands before or at the lookup, and the key stays dead);
  `NonceClaimed` (every nonce in Redis was put there by a delivery of its
  message in `claimed`); `RateInv` (the counter of a window, unless degraded,
  covers those it admitted, and they are within the limit; counting uses finite
  cardinalities).
* `IdentityProofs`, for `Credentials`: `TypeOK` and the four properties.
  `KeyInv` adds that a held key was inserted, that a request signs with a held
  key and that an answer carries an inserted key.
* `CommandQueueProofs`: `TypeOK`, `ClaimHolds`, `AnnouncedIsStored`,
  `AnnouncedOnce` and the refinement. `QueueInv` states what locks mean
  (`FreeRows`, `LockedRows`, `PollLocks`, `BatchHeld`, `ReportLocks`): a free
  row's latest version is its committed one, a locked one was open when locked
  and carries what its owner is about to commit; and what a report remembers
  (`AckedVerdict`, `PassedClosed`): a settled id of a report is stored with the
  first outcome of the payload, because later results find the row closed.
* `MembershipProofs`: `TypeOK` and the three action properties, for any number
  of users, codes and requests. `MembershipInv` says what a step may rely on:
  the rows its transaction holds (`RowsHeld`, `InvitationsHeld`), that what
  `checkRoleChange` established is still true of the locked row (`Checked`),
  and that a pending invitation's code is unused and belongs to one address
  (`PendingAlive`, `CodesDistinct`). One lemma (`OthersSpared`) shows that a
  step of one request leaves what another holds as it is.
* `IdentityProofs`, for `Sessions`: `SessionsTypeOK` and the four properties.
  `SessionsInv` says, for each step of a request, what its locks guarantee:
  creation and reset hold the users row, a reset holds its link unconsumed, and
  every session alive when a reset is about to commit was swept by it or is
  late. `KeptSound` and `OthersKeep` show that nobody else's step takes this
  away.
* `SanctionsProofs`: `TypeOK`, the four properties of the run,
  `AppealsDecidedOnce` and `OrgsCountedOnce`. `SanctionsInv` has a part for
  the bans (`Locked`: which rows each request has written; `ActivatingAlone`:
  one request at most is about to make a ban ACTIVE, and it has lifted the one
  there was; that is what the unique index gives), one for the appeals and one
  for the network; a step that does not concern a part keeps it by `BansKeep`,
  `AppealsKeep` or `NetworkKeeps`. Counting uses finite cardinalities.
* `GatewayProofs`, for `RemoteConfig`: `ConfigTypeOK`, `CurrentAgentIsRight`,
  `LicenceComesWithTheNextVersion`. `ConfigInv` follows the document on its
  way: each piece read so far is right for the version read first, or that
  version is out of date (`PiecesRight`), and no version travels before it
  exists.
* `TriageProofs`: `TypeOK` (with the date of an incident set exactly while its
  status is final), the two properties of the run, `CountsAttached`,
  `ResolutionStands`, `EvidenceOnlyGrows`. `TriageInv` says, for an incident
  whose transactions never overlapped, that a changing request is alone with it
  and its `now()` is not before any event (`Orderly`), and for a thing whose
  decisions met no other and no late entry, that the audit log ends with its
  status or with an entry about to be written (`Traced`). The level of evidence
  rests on `Settled` and `AlertsStay`: an identifier once given to an alert
  stays that alert's, so a page that had room for all keeps what it showed.
* `CapturesProofs`: `TypeOK` and the four properties. `CapturesInv` says that
  a transaction asking for a capture has an identifier of its own and holds
  the rows it deletes (`AskSound`), that an upload past its SELECT holds a row
  still PENDING (`UploadSound`, from which `ReceivedOnce`), and that `older`
  is a strict total order of what is stored or asked for (`Chronology`), so
  that at most `Retained` captures have fewer than `Retained` newer ones
  (`FewRecent`). `RetentionHolds` is not inductive, and neither is "each
  request in flight leaves room for itself": a request that trimmed early may
  be overtaken by many insertions. What is inductive (`RetentionRoom`) speaks
  of every set `T` of requests that have trimmed and not yet inserted: *some*
  request of `T` leaves at most `Retained + Cardinality(Requests) -
  Cardinality(T)` captures. An insertion takes its request out of every such
  set and adds at most one capture to what any of them leaves; `T = {r}`
  bounds what there is after `r`'s. For `RateOvershootBounded` it is
  `RateRoom`: a member's captures of the minute and the requests about to add
  one are together within the bound. A request joins them only when there are
  fewer captures than the limit, and leaves them as its capture comes.
* `ServersProofs`, for `Licensing`: `TypeOK` and the four properties.
  `LicensingInv` says that whoever is about to create a server counted fewer
  than the quota (`RequestSound`). `QuotaRoom` counts the servers and the
  requests about to create one together, as `RateRoom` does; `KeyRoom` does so
  for the licences that hold a key and the requests that have checked it and
  not bound it: a request joins them only when no licence holds the key.
* `ServersProofs`, for `Presence`: `PresenceTypeOK` with the deleted server
  that stays OFFLINE, and `DeletedForGood`. `PresenceInv` says that a report
  between its UPDATE and its COMMIT (`Writing`) holds a row that is not
  deleted, so the deletion waits for it, and a report that comes after finds
  no row.

Only model-checked: what needs fairness (`EventuallySettled`,
`EveryRequestEnds`, `AgentCatchesUp`, `EveryPutEnds`, `PageCatchesUp`,
`ExcludedPagesLeave`): liveness and ENABLED are beyond the prover.

## 16. Bounds and what is not modelled

Every bound is a constant named `Max...`, `Limit`, `Retained`, `Quota`,
`IssueLag`, or the size of a set in a `.cfg`. Clocks stop at `MaxClock`, which
is past the last deadline of every run. `WindowTicks` stands for the minute of
the limiter; the counters' lifetime (EXPIRE 120, `replay.ts:88`) ends a minute
or more after their window, when no request reads them unless its command took
that long, and is left out. Symmetry is used over requests, identifiers and
model values that no definition distinguishes, never in a run with a property
under fairness.

Not modelled, and why:

* Telemetry, the live snapshot and the heatmap: samples appended or overwritten
  that no decision reads.
* Rotation of a session's token, change of organization and TOTP: nothing in
  the code enrols a second factor, the arithmetic of a code is cryptography,
  and the other two change which row a cookie names, not who may do what.
* Thresholds and options of the anticheat, contents of comments, of
  configurations and of captures: data.
* Row-level security and migrations: policies of the database, tested by the
  repository against it. The unique indexes decisions rest on are in the models
  of those decisions.
* HTTP assembly, schema validation, logging, secret storage, cryptographic
  primitives (a signature verifies when the copy is intact), the web pages
  beyond the two hooks through which they load, and the agent beyond what
  `RemoteConfig` and the gateway's comments expect of it.

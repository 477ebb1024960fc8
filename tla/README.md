# TriFusion Dynamics in TLA+

A verification project for the backend of TriFusion Dynamics (`services/auth`, a
NestJS API over PostgreSQL, Redis and BullMQ). Paths below are relative to
`services/auth/src` unless they say otherwise.

The core of the backend is the helpdesk. Requests change tickets in database
transactions; each transaction also writes outbox rows, notification rows and an
audit trail; background jobs deliver the outbox to webhooks and browsers and watch
the SLA clocks. Several replicas of the process run at once
(`infra/k8s/auth-api.yaml` asks for two), so every cron job overlaps with itself and
requests race each other on the same rows.

## Inventory

Status is what this project does with the component: **modelled**, **partly**, or
planned / left out, with the reason. `PROJECT.json` lists the sources of each.

| Component | State it keeps | Operations | Interacts with | Hard behaviour | What makes it correct | Status |
|---|---|---|---|---|---|---|
| Outbox processor `common/events` | `OutboxEvent` rows: status, attempts, lease, next attempt | publish, recoverStaleLocks, claimBatch, processEvent, markProcessed, markFailed, retry | written by every service, drives dispatcher and gateway | overlapping sweeps, leases that expire under a live sweep, crashes, lost answers | no event lost, none posted twice, settled events stay settled | modelled |
| Webhook dispatcher and registry `modules/developer/webhooks` | `Webhook`, `WebhookDelivery` | dispatch, executeDelivery, toggleActive, create | called by the processor | row committed before an unawaited POST | one POST per event and webhook | partly |
| Ticket lifecycle `modules/helpdesk/tickets` | `Ticket`, `TicketAssignment` | create, assign, unassign, start, submit, verify, confirm, reopen, close, cancel, comment, escalate, edit, attach | outbox, notifications, routing, SLA | decisions on a copy read before the transaction, UPDATE by id | a status means what the workflow says it means | partly |
| Ticket notifications `ticket-notifications.service.ts`, `modules/notifications` | `Notification`, unique per user and dedupe key | dispatch, record, mark read | inside the ticket transactions | a duplicate aborts the surrounding transaction | whoever must be told is told | partly |
| Unit of work `common/prisma` | none | run | all of the above | everything or nothing | atomic write phase | partly |
| SLA monitor and escalation `sla-monitor.job.ts`, `tickets.service.ts` | deadlines, warned and breached stamps, escalation rows | scan, raiseWarning, raiseBreach, escalate, clearEscalation | ticket rows, outbox, notifications | a scan decides on rows read minutes earlier, scans overlap, fixed event keys after a reopening | an answer in time is no breach, a stamp has its event, level and history agree | partly |
| SLA engine `sla-engine.service.ts` | pause window, total of the pauses, deadlines | pause, resume, describe | ticket rows, monitor, UI | windows folded in by later status changes, two classifications of one clock | active time is never counted twice, UI and monitor agree | modelled |
| SLA policies, ticket routing | policy and rule rows, one default each | resolve, create, update | read by create and edit | priority among overlapping rows, two defaults at once | one answer, the most specific one | partly |
| Departments | rows | find or create by name, create, rename | hiring, tickets | two hires create the same one | a text becomes its department | partly |
| WebSocket gateway `gateway` | connections, rooms (kept twice) | connect, auth, subscribe, unsubscribe, close, publish | processor, authorization | messages of one socket handled concurrently, over awaits | only authorised open sockets are in rooms, events reach whom they concern | modelled |
| Sessions `modules/auth` | refresh tokens, cookies, exchange codes | register, login, refresh, logout, exchange, archive | users, Redis, the dashboard | rotation races, logout against a running refresh, two tokens of one second | one token per session, an ended session stays out | partly |
| Redis locks and rate limits `modules/database` | keys with expiry, in-memory fallback | acquireLock, releaseLock, incr | login, throttler, jobs | expiry under the holder, a command lost between two | one holder, counters that end | partly |
| Scheduled workflows, nightly rollup | the lock, runs | fire, run, release | every instance | runs longer than the lock | one run per tick | partly |
| Region failover `common/failover` | current region, status, failure counts, Redis copy | rounds, failover, recovery, manual calls | regions, DNS, Redis | overlapping rounds, steps that fail half way, restarts | state and world agree, no wedged state | modelled |
| Employees | rows, codes | create, status changes | departments, users | counts read before the insert | codes without gap or duplicate | partly |
| Attendance | punches | check in, check out, summary | | two requests, midnight | hours counted once | partly |
| Leaves | leaves, employee status | create, review | employees | two reviewers, HR at the same time | leave and status agree | partly |
| Payroll | payslips, salaries | generateBulk, markAsPaid, upsert | employees | a run dies, two runs race | one payslip a month, nobody left out | modelled |
| Leads, clients | leads, clients | moveStage, convert, create, update, remove | | conversion in two statements by two endpoints | link and client agree | partly |
| Users | users, roles, organization | create, update, approve, delete, archive | sessions, employees | roles cleared and written one by one | the roles asked for | partly |
| Queues, email, secrets | BullMQ jobs | add, process, send | nobody | | | not modelled: no callers |
| API keys, projects, recruitment, billing, analytics queries, AI, storage, health, validation, audit, dashboards, website, AI service, infrastructure | | single statements, queries, I/O, layout | | | | not modelled |

## Modules

| Module | What it is |
|---|---|
| `Outbox` | the processor, its rows, its overlapping sweeps, the dispatcher, crashes and lost answers |
| `EventLedger` | what the outbox promises: queue, reserve, post once, settle |
| `TicketStateMachine` | the transition table as edges and who may take them |
| `Tickets` | one ticket, the requests on it, its assignment rows, its notification and outbox rows |
| `Sla` | the clocks of one ticket, overlapping scans of the monitor, the requests that move deadlines or the escalation level |
| `Gateway` | the sockets, their rooms, the handlers in flight |
| `Sessions` | the refresh tokens of one account, the requests on them, a browser's cookie |
| `Failover` | the rounds and manual calls of the region controller, what they switch, what they save |
| `LoginGuard`, `JobLock`, `Throttle` | three users of Redis: the lockout, the lock of a job, a rate limit |
| `SlaClock` | the engine's arithmetic on one ticket, and both classifications of its clocks |
| `Rules` | matching of routing rules and SLA policies, and their default row |
| `Staffing`, `Attendance`, `TimeOff`, `Payroll` | hiring with departments, punches and hours, leaves, payslips |
| `Crm`, `Accounts` | leads becoming clients; users and their roles |
| `Outbox_proofs`, `Tickets_proofs`, `Sla_proofs`, `Gateway_proofs`, `Sessions_proofs`, `Failover_proofs`, `Payroll_proofs`, `Services_proofs` | the theorems |
| `MC_Outbox`, `MC_Tickets`, `MC_Sla`, `MC_Gateway`, `MC_Sessions`, `MC_Failover`, `MC_Services` | instances for TLC |

### Outbox

A *sweep* is one call of `runOnce`; `ProcessOf` says which replica runs it. One step
is one database statement, or one stretch of JavaScript between two awaits:

| Step | Code |
|---|---|
| `RecoverStaleLocks`, `ClaimBatch`, `ClaimAnswerLost` | `recoverStaleLocks`, `claimBatch` (one `UPDATE ... SKIP LOCKED`) |
| `FindWebhooks`, `CreateDelivery`, `SkipDuplicate`, `CreateFails`, `FirePost` | the loop of `dispatch`; `P2002` is the skip, any other error leaves the loop |
| `PushToGateway`, `MarkProcessed`, `MarkProcessedFails` | the rest of the `try` in `processEvent` |
| `MarkFailed`, `MarkFailedFails` | its `catch` and `markFailed` |
| `PostReturns` | `executeDelivery` after the fetch |
| `Crash`, `LeaseExpires`, `BackoffElapses` | the environment |
| `Publish`, `Retry`, `ToggleActive` | producers and operators |

Time is two facts per row: its lease is older than 120 s, its `nextAttemptAt` has
passed. `seen` is the attempts column as the claim returned it, which the code uses
long after another sweep may have changed the row. The refinement maps an event's
status to `absent/queued/done/dead`, delivery rows to reservations and POSTs to
themselves; claims, leases, attempts and crashes are stutters.

### Tickets

A request loads the ticket (`Load`), decides on that copy, and writes in a
transaction whose UPDATE names only the id. Between the two, any other request may
commit. `assign` and `unassign` also read the active assignments inside their
transaction (`ReadActive`). The write phases update the ticket row and are
serialised by its lock, so each is one step, `Transact`: all of it, or nothing when
a guard throws or a unique row already exists. `seen`, `seenAssignees` and `active`
are the copies. A commit whose copy was outdated counts in `stale`.

`TicketStateMachine` gives the edges. `WAITING_*` statuses have edges, but no
endpoint leads to them, so no action of `Tickets` does. The event keys that carry a
timestamp or a counter are always new and are not kept; the four that do not are
`FixedKeys`.

### Sla

A scan reads the tickets outside any transaction and works through them one after
the other, so what it decides about ours is as old as its `findMany`: `Scan` copies
the verdict on each clock, the level, and which resolution window it saw.

| Step | Code |
|---|---|
| `Scan` | the `findMany` of `scan`; `Running` and `Verdict` are the conditions of `evaluate` |
| `NothingToRaise`, `RaiseWarning`, `RaiseBreach` | one clock of `evaluate`; a raise is one transaction that locks the ticket row with its first statement |
| `ScanFails` | the process dies, or `evaluate` is rejected and the ticket left to the next scan |
| `StampResponse`, `CommitResponse`, `RollBackResponse` | `applyStatusChange` takes `now` before its first write; the transaction of its caller commits after the audit entry, the event and the notifications, or not at all |
| `Resolve`, `Finish`, `Reopen`, `ChangePriority` | the other requests that touch a clock, as far as they do |
| `Escalate`, `ClearRows`, `ClearEscalation` | `escalate`; the two statements of `clearEscalation`, with commits between them |
| `TimePasses` | the wall clock |

Time is abstracted to the phase of each clock: no deadline, running, within the
warning threshold, past the deadline, an hour past it. A raise that finds its stamp
set ends quietly; one whose event key exists aborts, because the caught unique
violation has already aborted the PostgreSQL transaction. Requests write by id on the
strength of an earlier copy, so a response, `Resolve` and `Finish` may come at any
status and `Reopen` at any time after a resolution. No endpoint pauses a clock.
The module has one ticket with an assigned agent, so the 500-ticket limit of a scan
is not in it. `Tickets` and `Sla` share the ticket row and are not composed yet;
each leaves to the other the columns it does not have.

### Gateway

`ws.on('message')` calls `void handleMessage`, so the handlers of one socket overlap
wherever they await: the blocklist in `handleAuth`, the access check in
`handleSubscribe`. A handler in flight is a call with three steps; everything between
two awaits is one.

| Step | Code |
|---|---|
| `Connect`, `AuthTimeout`, `StartClose`, `Disconnect`, `Shutdown` | `handleConnection` and its timer, the peer or the server closing, the close event with `handleDisconnect`, `onModuleDestroy` |
| `AuthArrives`, `AuthCompletes` | `handleAuth` up to the blocklist, and after it |
| `SubscribeArrives`, `SubscribeCompletes` | `handleSubscribe` up to `loadVisibleTicket`, and after it |
| `Answer` | the awaited answer, yes or no |
| `Unsubscribe` | `handleUnsubscribe`, which awaits nothing |

`rooms` is the set in each `ClientState`, `members` the gateway's own map; the code
uses the first to leave rooms and the second to send. `publish` changes no state and
is the operator `Copies`. The histories `wish`, `told`, `shown` and `raced` say what
the socket asked for, was told and was allowed, and what overtook a handler.

### Sessions

A refresh token is a JWT of the user and the second it was signed in, so a token *is*
its second, and the table a function from seconds to rows. The session of a row is the
row it descends from. A login takes its transaction in two steps (`LoginSelects`,
`LoginCommits`), because under READ COMMITTED its `updateMany` revokes the rows it saw;
the rotation of a refresh deletes by id, inserts and commits in one (`Rotates`), since
the deleted row is locked. `RefreshReads` comes before, outside the transaction. The
cookie `jar` is what one browser holds; other devices hold the other tokens. The
controller clears the cookies on any error of a refresh, before its commit
(`RefreshUnread`, `RefreshFails`) or after it (`ProfileFails`), and after a logout even
when its UPDATE failed and was swallowed (`LogoutFails`). An
exchange code is accepted on its signature for as long as it has not expired, stored or
not (`ExchangeReads`).

### Failover

The timer starts a round every interval, ended or not, so `Runs` has two at a time.
`Tick` and `Evaluate` are the two sides of the health checks' `Promise.all`;
`Evaluate` counts and decides synchronously, up to the next await. Then a failover
goes `Announce` (save), `Promote`, `PointDns`, `Switch`, `SaveOnce`; a recovery
`ReadCount`, `CountRecovery`, `Promote`, `PointDns`, `Switch`, `ClearCount`,
`SaveOnce`; a manual call enters at `ManualFailover` or `ManualRecovery`. `StepThrows`
is a failing command, `RedisFails` a failing Redis, whether the run was saving the state
or reading, writing or deleting the recovery count, `Crash` and `Boot` a restart, with
`Loaded` what `loadState` makes of the saved state. `promoted` and `dns` stand for what
the commands change outside. Neither command checks its effect: `pg_ctl promote` names no
region and is skipped for one without a database host, a refused PUT or a missing record
of Cloudflare is passed over, Azure is a warning. So `Promote` may leave any region
promoted and `PointDns` the record as it was, and the switch goes on. `mishaps` names what
went wrong, for the properties; `leftover` says that the count in Redis may hold rounds
from before the last one that found the primary down.

### Services

Eleven modules are small: two or three requests on a few rows. Each keeps its own
variables and a next-state relation, and `MC_Services` runs them side by side, one per
behaviour, chosen by `part`.

| Module | One step is | What races |
|---|---|---|
| `LoginGuard` | one Redis command | logins between check, INCR, EXPIRE and SET; a success resetting beside a failure; Redis failing; keys expiring |
| `JobLock` | SET NX, the release script, one moment | instances firing in one tick, runs that outlive the lock, crashes, lost releases |
| `Throttle` | INCR, EXPIRE, one moment | instances, with Redis going away between the commands; three policies for then |
| `SlaClock` | one status or deadline change, one moment | changes decided on an outdated status |
| `Rules` | one edit, or the two statements of one that sets the default | two edits setting the default |
| `Staffing` | one statement of `create` or of a department | two hires and an administrator |
| `Attendance` | the look, the insert | two punches, midnight; the summary is an operator |
| `TimeOff` | the read, the write of a review | two reviews and HR |
| `Payroll` | one statement of a run or payment | two runs or payments, HR, new salaries, crashes |
| `Crm` | one statement of a conversion, a `create` or an `update` | both conversions, creations and edits of clients, crashes |
| `Accounts` | one statement outside a transaction, a transaction otherwise; the names a request gives are looked up, and one that no role has is skipped or falls back | two requests on a user, failures half way |

Where a transaction is READ COMMITTED and takes no lock before it writes, its reads are
steps of their own. `Throttle` keeps what a window has seen by age: `arrived[a]` counts the
requests of the last `a + 1` moments, `admitted[j][a]` those among them that judge `j`,
Redis or an instance that has lost it, let through.

## Runs

| Run | What it asks | Size |
|---|---|---|
| `Outbox_safety` | one event, two webhooks, two replicas, one fault, one outlived lease, one retry, one toggle: the safety properties and the refinement of `EventLedger` | 0.56 M states |
| `Outbox_batch` | two events in one batch, so that a sweep can die or lose its lease between them, and settle one twice or not at all | 0.3 M states |
| `Outbox_live` | under `FairSpec`, every committed event ends PROCESSED or DEAD | |
| `Tickets_client` | two requests take a client ticket to closure and once through a reopening, with a comment and up to two stale commits | 0.24 M states |
| `Tickets_staff` | two requests assign, replace and unassign two employees on an internal, auto-routed ticket, one of whom was told nothing at intake, with one reopening and one stale commit | 0.48 M states |
| `Sla_monitor` | two scans, one of which may die, overlap an answer between its stamp and its commit, resolutions and closings; under `FairSpec` an overdue response is recorded | 0.57 M states |
| `Sla_escalation` | one scan, two clearings and one escalation race, over one reopening or priority change, with one fault | 3.4 M states |
| `Gateway_rooms` | two sockets, two users (one an administrator), one ticket, two handlers in flight, three in all; under `FairSpec` a connection authenticates or closes | 0.2 M states |
| `Sessions_rotation` | two requests over three seconds and three rows, any of which may fail | 1.0 M states |
| `Failover_rounds` | two rounds or calls, three regions, the primary down at first, thresholds of two, three faults; under `FairSpec` a dead region is replaced | 1.4 M states |
| `Services` | the eleven small modules, each with two requests and one or two faults | 0.49 M states |
| `Sla_OverdueResolutionIsRecorded` | refuted: after a recorded breach, a reopening and a new deadline the second breach needs an event key that exists, in every scan from then on | |

The properties, in words:

- `AtMostOnePost`: whatever overlaps, expires or restarts, no webhook receives an
  event twice. `ProcessedIsComplete`: the mark is written only after the push and
  after every webhook that was subscribed throughout has its row, even when the
  sweep that writes it skipped what another one had done.
- `OneClaimPerEvent` and `DeadSpentBudget` hold until a lease expires under a live
  sweep; `outlived = 0` states that premise and the runs also go beyond it.
- `SettledStaysSettled`: no late writer touches a settled event.
- `QueueIsUnassigned`, `AssigneesAreTold`: racing assigns and removals never leave
  an assigned ticket in the queue or somebody assigned without a notification.
- `ResolvedWasVerified`, `ClosureIsAuthorised`, `ClosureIsAnnounced`: what RESOLVED
  and CLOSED say is true even when the commit was decided on an outdated status.
- `OutcomeStands`: without such commits, closing keeps the verified outcome and a
  confirmation never outlives the resolution it confirmed. (With them it fails.)

- `MetIsNeverBreached`: a ticket whose first answer was committed before its deadline
  passed is never recorded as a breach, though a scan that read it unanswered may be
  minutes late and the stamp's UPDATE does not look at the answer. It rests on the scan
  judging by the time it began. (An answer stamped in time and committed after the
  deadline can be recorded as a breach: see below.)
- `StampsAreAnnounced`: over all windows of a ticket, no warning or breach is on the
  row without its event in the outbox.
- `LevelHasOpenRow`: the level on the ticket has an open row of the same level in the
  history. (The converse fails: a critical breach raised by a scan that read
  SUPER_ADMIN before a clearing leaves its row open and the level NONE.)
- `OverdueResponseIsRecorded`: an unanswered overdue ticket gets its breach. The same
  for the resolution clock is `OverdueResolutionIsRecorded`, refuted.

- `RoomsMirror`: the two records of who is in which room agree for every socket the
  gateway knows, whatever completes late. `MembershipIsEarned`: who is in a room has an
  identity that was allowed to read it, an open connection, and has not taken it back;
  the exceptions are the three overlaps `raced` names, and the model reaches each.
  `EventReachesItsAudience`: an event reaches every open socket it concerns and no other.
  `AuthenticatesOrCloses`: no connection stays open without an identity.
- `SessionsEndForGood`: a token has at most one successor, however many refreshes present
  it; a session ended by a logout, a login or the archival stays ended. (A logout while a
  refresh is in flight does not end it: `ended` says which.) `CookieOutlivesNoSession`: a
  step that makes the browser drop the cookie of a live session ends that session, unless
  the step is itself a failing call or the answer of a refresh that ran beside another
  (`Stranding` lists them).
- `StateIsTrue`: what the controller says agrees with the database and the DNS it
  switched, with the runs it has and with the region it prefers; each exception names its
  cause in `mishaps`, commands without effect included. `RegionFollowsHealth`: no recovery
  before the primary has earned it since it was last found down, unless the count was left
  over from before, and a dead region is replaced in the end, unless the controller is
  wedged.
- `LockoutHolds`: a full counter has its lock, at most the logins under way get past it,
  and it ends. `LimitHolds`: within any span of a window Redis lets through less than twice
  the limit and an instance without Redis at most the limit (none for the critical check),
  and nobody below the limit is refused while nothing failed.
- `LockServesTheJob`: runs that have not outlived the lock are alone, and no tick is
  skipped for nothing.
- `ClocksAreRight`: every pause is taken off the active time exactly once, deadlines move
  by the pauses folded since they were set, the UI shows at least what the monitor raises,
  an answer is judged once. `AnswerIsDetermined`: one rule per ticket, the most specific,
  against the documented order written out; the default row is not lost to racing edits.
- `HiringIsOrderly`, `HoursAreHonest`, `AbsenceIsAccountedFor`, `MonthIsPaidOnce`,
  `ConversionIsTraceable`, `RolesAreAsAsked`: what two racing requests leave of employee
  codes, hours, leaves, payslips, leads and roles. Each is a conjunction of named parts
  with a comment of their own. For roles: what the last request leaves of the names it was
  given, and, whatever overlaps or breaks off, no role that was taken away. For clients:
  creating or editing one doubles an address only if another request added or edited one
  meanwhile; a conversion compares no addresses at all.

### Bounds

`MaxFaults`, `MaxOutlived`, `MaxRetries`, `MaxToggles`, `MaxReopens`, `MaxComments`,
`MaxStale`, `MaxWindows` and `MaxEscalations` bound the runs and not the code. Two sweeps are what two replicas run,
and every race in the code is between two. Two webhooks let an insert fail after one
succeeded; two events let a batch be cut in the middle; `MaxAttempts = 2` gives one
backoff and one exhaustion. One reopening and two stale commits let an old request
outlive a whole cycle. Row ids of assignments are reused when nothing refers to
them. One new window in `Sla_escalation` lets a breach of an old deadline meet a new one;
two in the refuting run let a clock breach, lose its deadline and get another. Two
scans are two replicas, or one replica overtaken by its own next tick. The safety runs
of `Outbox` use symmetry (replicas, webhooks, events), those of `Tickets` and
`Sessions` symmetry of the requests, `Services` symmetry of the two that race in each
component; no run with a liveness property does.

`MaxCalls` is three handlers, two in flight: an authentication or a subscription, what
overtakes it, and one that comes after. `MaxTime` and `MaxRows` give three seconds and
three rows: a token, its successor, and one login or rotation that meets both. The
thresholds of `Failover` are two instead of three, so that a count that is interrupted
differs from one that is not; `MaxFaults` there is three, enough for a failing step, a
failing save and a crash in one behaviour; its regions start with the primary down, so that
an automatic failover costs no fault and the recovery from it has all three. In `Services`, `MaxRedisFaults`,
`MaxJobFaults`, `MaxCrmCrashes`, `MaxPayCrashes`, `MaxAccountFaults` and `MaxOutages`
bound the faults; `MaxHrChanges` and `MaxHrEdits` what HR does meanwhile; `MaxTicks`,
`MaxNow`, `Days` and the windows the time, long enough for a window to close and a second
to open; `MaxPunches`, `MaxClients` and `Heavy` the rows, punches and requests.

### Fairness

`FairSpec` assumes that the cron of a live process keeps ticking and its database
calls return (`WF(Advance)`), that backoffs elapse, and that the lease of an event
no sweep holds expires. It assumes nothing about operators, webhook endpoints or
faults, which `MaxFaults` makes finite. `EveryEventSettles` needs the last
assumption: only the lease frees a row whose claim answer was lost.

`FairSpec` of `Sla` assumes that the cron ticks and that the queries of a scan return
(`WF(Monitor(s))`). Requests and the passing of time are under no fairness. The `Sla`
runs do not check deadlock: a closed ticket whose clocks have run out may rest.

`FairSpec` of `Gateway` assumes that timers fire, that a closing socket closes and that a
handler in flight is answered; nothing about what clients send. `FairSpec` of `Failover`
assumes that the interval fires while the process runs, that calls end or time out, and
that a process that ended is started again; nothing about the health of regions.
`Gateway`, `Sessions` and `Services` do not check deadlock either: a closed socket, an
archived account and a paid month rest.

## Proofs

`Outbox_proofs` proves for any number of events, webhooks, sweeps, processes and any
bounds: `TypeOK`, `AtMostOnePost`, `ProcessedIsComplete`, `OneClaimPerEvent`,
`DeadSpentBudget`, `SettledStaysSettled`, and that the processor implements
`EventLedger`. The inductive invariant adds what the safety properties need to be
kept: a POST, made or about to be made, has its delivery row and only one of them is
about to be made; a webhook that an event is owed is either still to do or has its
row, for every sweep inside `dispatch`; an event that nobody outlived is in at most
one batch and its row is PROCESSING there; the attempts a sweep has seen are those
of the row.

`Tickets_proofs` proves for any users, employees, roles, requests and bounds:
`TypeOK`, `QueueIsUnassigned`, `AssigneesAreTold`, `ResolvedWasVerified`,
`ClosureIsAuthorised`, `ClosureIsAnnounced`, `OutcomeStands`. The inductive
invariant adds what a copy proves about the row: a request that saw
RESOLUTION_SUBMITTED proves that a resolution was once submitted, one that saw a
status past OPEN proves that the ticket has left the queue for good.

`Sla_proofs` proves for any number of scans, clearings, windows, escalations and faults:
`TypeOK`, `MetIsNeverBreached`, `LevelHasOpenRow`, `StampsAreAnnounced`. The last two
are inductive as they stand (with the types). The first needs what a copy proves: a
scan that means to record a response breach read the ticket unanswered and past its
deadline, that deadline never moves, and so no answer committed since was in time
(`AnswerInv`).

`Gateway_proofs` proves for any sockets, tickets, handlers in flight and finitely many
users: `TypeOK`, `RoomsMirror`, `MembershipIsEarned`, `EventReachesItsAudience`. The
inductive invariant says what a handler may count on after its await, and when it may
not: a handler in flight belongs to a socket that has connected (`CallOK`); a socket the
gateway no longer knows is in no room, unless its close overtook one of its handlers
(`Left`); two tokens are checked at once only on a socket marked for it (`OneToken`);
a room is either granted, asked for by a handler in flight, or the socket's own
(`Granted`, `Asked`, `Home`).

`Sessions_proofs` proves for any number of requests, seconds and rows: `TypeOK`,
`SessionsEndForGood`, `CookieOutlivesNoSession`. The inductive invariant says what a
refresh knows while it waits: the row with the id it read is, if still there, the row it
read, of the same session and user (`CallsOK`); nobody refreshes an ended session
(`EndedOK`); as long as requests do not overlap, the one at work stands for everything that
is live (`AloneOK`), and the browser's refresh finds its row (`BrowserOK`).

`Failover_proofs` proves for any regions, thresholds and number of faults: `TypeOK`,
`StateIsTrue` and the safety half of `RegionFollowsHealth`, `RecoveryIsEarned`. Each part
of the inductive invariant holds until the mishap that breaks it: a failover is alone
(`CrossOK`), the database and the record follow the run that has got furthest (`WorldOK`),
what is not saved has a run that owes the save (`SavedOK`), a transient status has its run
(`TransientOK`), the count in Redis is behind the streak (`EarnedOK`). `StateIsTrue` says of each of its parts which mishaps excuse it, and no others do.
`RecoveryIsEarned` holds in every behaviour, that of an automatic failover away from a
dead primary included; its one exception, `leftover`, came out of the proof. A round that
finds the primary down resets the streak at once but deletes `failover:recovery_count`
some awaits later, or never when the current region is down too; and a round beside
another may store a count it read before. What is in Redis then counts rounds of an
earlier streak, until somebody deletes it.

`Services_proofs` proves the properties of the eleven small modules for the composition
`MC_Services` as TLC runs it, so for any number of requests, rows, faults and moments:
first that a behaviour of the whole is a behaviour of each component (`LoginPart` to
`AttendancePart`), then per component that its inductive invariant is kept, and from it

| Theorem | What the inductive invariant adds |
|---|---|
| `TypeInvariance` | every `TypeOK` of the eleven modules |
| `LockoutInvariance` | a lock is at least as fresh as the counter it guards (`ThresholdOK`); the guesses under way and those already made are fewer than all logins (`GuessesOK`) |
| `LimitInvariance` | some `k` moments ago the counter of Redis was opened, and all it has let through came since (`OpenedAt`); a fallback counter is as old as the requests it let through (`FallbackInv`) |
| `LockServes` | a run's lock is its own while it is younger than the time to live (`RunOK`, `LockOK`); the ticks that have fired are those the clock has passed (`TicksOK`) |
| `ClocksRight` | a deadline is later than all pauses folded so far (`DeadlinesOK`); the time waited is the folded total and the open pause |
| `AnswerDetermined` | at most one default row; the comparator is a strict order, so a finite set of rules has one first (`StrictOrder`, `FirstOf`) |
| `HiringOrderly` | a counted number is the next one until somebody interferes (`HireOK`) |
| `ConversionTraceable` | a client about to be linked is the only one of its lead (`LinkOK`); an address that was looked for is free of other clients until one is added or edited |
| `MonthPaidOnce` | from `PaidOnce` of `Payroll_proofs` |
| `AbsenceAccountedFor` | a review in flight has read the present status unless HR or another review has written since (`ReviewOK`) |
| `RolesInvariance` | what a request nothing has overlapped leaves to be done and has done adds up to what it was asked (`Lone`); every role a request may still write was granted when it began |
| `HoursHonest` | a request nothing has beaten may still punch; the running summary is open exactly after an arrival and its total is at most, and for well-paired punches exactly, the moments at work (`SumOK`) |

`Summary` is a function defined by recursion over the punches, and what such a function
computes cannot be proved here by induction over its argument. But punches are only ever
appended, so the induction goes along the behaviour: `SumOK` says of every function that
satisfies the recursion what it computes for the punches there are, and that one exists;
appending a punch extends and restricts such functions (`Extending`, `Restricting`).

`Payroll_proofs` proves `MonthIsPaidOnce` and `PayTypeOK` for any staff and any number of
concurrent runs, payments, crashes and changes of status, from the specification of
`Payroll` alone (`PaySpec`). The inductive invariant adds to `OnePayslipPerMonth` whom a run
owes a payslip (still to do, under way or paid: `Owed`) and what a request without a rival
knows of the rows it is about to write (`Alone`, `Current`).

All assume only the `ASSUME` of their modules, which TLC evaluates in every run: bounds are
naturals, thresholds and times to live positive; `None`, `Nobody` and their like are no
user, row or token; users of the gateway, rule ids, logins and payroll operators are
finitely many. Liveness under fairness stays with TLC.

## Where the code and its words disagree

One disagreement is a run, `Sla_OverdueResolutionIsRecorded`. The models contain more;
they are noted here for whoever changes the code.

Helpdesk:

- The outcome of an event is written on condition of its status alone, not of
  `lockedBy` (`outbox-processor.service.ts:205`, against the comment at 175-177): a sweep
  whose lease expired can settle what another one is delivering.
- A commit decided on an old status takes a ticket out of CLOSED or CANCELLED
  (`tickets.service.ts:2182`, against `ticket-state-machine.ts:31-32`).
- Rejecting a resolution asks for RESOLUTION_SUBMITTED -> IN_PROGRESS, which has no
  rule: it always answers 409 (`tickets.service.ts:1164`).
- The notification of a second comment violates the dedupe key; the violation is caught,
  but it has aborted the transaction (`ticket-notifications.service.ts:34-38`,
  `notifications.service.ts:65`).
- A resolution can be verified by the assignee who submitted it
  (`ticket-state-machine.ts:109` says never): `CanVerifyResolution` asks for a role.
- `ACCESS_SELECT` leaves out `clientConfirmed`, `firstRespondedAt` and `slaPolicyId`,
  and the services read them from that copy: a confirmed client ticket cannot be
  closed by staff (`CanClose`), every qualifying change rewrites the first response
  (`WriteStatus`).
- Removing the primary assignee of an ASSIGNED ticket asks for ASSIGNED -> OPEN,
  staff cancelling from RESOLUTION_SUBMITTED, UNDER_VERIFICATION or RESOLVED asks for
  a rule that does not exist; both roll back (`Unassign`, `Cancel`).
- `ticket.assigned` has one dedupe key per ticket and user, so nobody can be assigned
  to the same ticket a second time (`Assign`, `AssignedKeys`).
- A client ticket closed once and taken out of CLOSED by a stale commit cannot be
  closed again: its event key exists (`CloseTicket`).
- `recoverStaleLocks` returns an event to PENDING whatever its attempts and `claimBatch`
  never compares them with the budget, so an event that kills its worker is claimed for
  ever (`outbox-processor.service.ts:59-62` promises DEAD).
- `reopen` announces a fresh resolution window (`tickets.service.ts:1287`) and, the
  policy not being selected, removes the deadline; it also clears the recorded breach
  that the same comment says stays (`Reopen`).
- A commit decided on an old status can make a ticket active with `resolvedAt` set; the
  monitor then never looks at its resolution clock (`Stopped`).
- "response clock: ... stops at firstRespondedAt" (`sla-engine.service.ts:45`), but an
  answer stamped before the deadline and committed after it can be recorded as a breach: a
  scan in between reads the ticket as unanswered, and the UPDATE of the breach asks for
  the stamp alone (`CommitResponse`, `RaiseBreach`).
- Routing that auto-assigns fails the whole creation when the requester has no staff
  role (`Create`).
- An operator's retry can be dead-lettered with its budget unspent by a sweep that
  outlived its lease (`MarkRowFailed`), and a crash between the delivery row and the
  POST loses the POST (`CreateDelivery`, `FirePost`, `Crash`).

- `describe` warns at 80 % of the window without its pauses and the monitor at 80 % of the
  window with them; both ignore `warningThresholdPercent`. A deadline set during a pause is
  moved by the whole pause, the part before it was set included. A cancelled ticket can be
  shown as breached.

Elsewhere:

- "Fails CLOSED" (`rate-limit.service.ts:16`), but `isLoginLocked` answers "not locked"
  when Redis fails. Email and phone of one account count separately.
- "Every temporary key carries a TTL" (`redis.service.ts:50`), but an EXPIRE lost after its
  INCR leaves a counter that refuses for good. The fallback's window slides.
- `docs/REDIS_OPERATIONS.md:184` promises one run per tick; a slower instance that fires
  after the release runs the tick again, and a crash under the lock loses the next ticks.
- A failed revocation is swallowed and the logout answered with success
  (`auth.service.ts:292-296`), and any error of a refresh clears the cookies
  (`auth.controller.ts:262-265`): both leave a live session that its browser has forgotten.
- The exchange code is "single-use" (`auth.service.ts:495`,
  `docs/architecture/auth-flow.md:57,75`), but a code no longer stored is accepted on its
  signature (546-551).
- The gateway's header says at most once; a socket in several of an event's rooms receives
  a copy for each.
- `failover-runbook.md:21-22` counts consecutive checks; overlapping rounds count one
  outage twice, and a failover that failed half way leaves the status for a restart.
- A failover reports success whether or not it had an effect: `promoteDatabase` skips a
  region without a host and names none to `pg_ctl` (`failover.controller.ts:246`), and
  "DNS updated" (274) is logged although Cloudflare refused (292-302), found no record
  (291) or the provider is Azure (326).
- Names that no role has are dropped without an error by an update or an approval
  (`users.service.ts:292`, `371`), after the old roles were deleted; the answer of the
  approval lists them all the same (395). A creation gives `agent` instead, or whatever
  role comes first, and answers with the name it was given (96-101, 148).
- `ClientsService.create` and `update` look for the address and write in two statements
  with no key behind them, and a conversion looks for none: two clients may share one.
- `employeeCode` is unique over all organizations but counted per organization: the second
  organization's first hire fails. Listing employees by a department text creates it.
- `leaves.service.ts:112` claims the transaction excludes a race; under READ COMMITTED it
  does not. Rejecting an approved leave leaves the employee ON_LEAVE.
- A conversion of a lead that died half way can never be completed: every retry meets
  `Client.leadId`.

## Not modelled

- Queues, email and the webhook circuit breaker: no service adds a job.
- Secrets, storage, AI client, health checks: getters and I/O.
- API keys, projects, recruitment, billing, lists and analytics: one statement or one
  query per operation, whose correctness is that of the statement.
- The status of a client (`remove`, and what an edit does to it): no request on a lead, a
  link or an address reads it.
- Input validation, audit rows, interceptors, both frontends, the AI service, seed and
  infrastructure: shapes, layout, data. They are most of the repository's lines, which is
  why the map covers a small share of them.

Hazards left without a model, beyond those of `PROJECT.json`: a scan of the monitor takes
the 500 tickets longest untouched, and tickets that stay at the head keep others out
(`sla-monitor.job.ts:93`); `toggleActive` reads and writes in two statements
(`webhooks.service.ts:49`); changing a password revokes no session; the access-token
blocklist falls back to one process; a workflow run whose process dies stays RUNNING, and
the lock over scheduled workflows is released before they end.

## Plan

1. `Tickets` with `Sla`: the shared row, so that stale commits and clocks meet; several
   tickets under the limit of a scan. Abstract: a breach ledger that the monitor implements.
2. The dashboard's reconnecting socket over `Gateway`, its parallel refreshes over
   `Sessions`.
3. Workflow runs: their steps, and what a crash leaves of them.

Liveness stays with TLC throughout.

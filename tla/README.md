# SpaceHarbor: models, checks and proofs

SpaceHarbor is a media asset manager: a TypeScript control plane (Fastify) over
the VAST database and S3, Python media workers and DataEngine functions, and a
React client.  This directory holds TLA+ models of the parts of the control
plane whose correctness rests on the order of things: the job queue and its
workers, the check-in of media with its compensation, version numbers, the
circuit breaker, the workflow engine, the ledger of DataEngine dispatches with
the triggers and webhooks that follow it, sign-in, roles, and the audit log with
the outbox.  TLC checks them on small instances, TLAPS proves a part of them for
every instance.  Paths below are relative to `src/services/control-plane/src/`
unless they start with `src/`.

To check a run: `tlc -workers 2 -config JobQueue_safety.cfg MCJobQueue.tla`; to
check the proofs of a module: `tlapm JobQueueProofs.tla`.  `PROJECT.json` lists
the runs, which lines of the source each definition models, the hazards, the
findings, the theorems, and for every property of a passing run a mutant: a
plausible bug of one definition (they stand in the modules, before the
definition they change) with which TLC finds that property violated.

## 1. Inventory

### The process

The control plane is one Node process.  What one operation does between two
awaits is atomic.  There are two stores behind one interface
(`persistence/types.ts`): the **local adapter** (`persistence/adapters/local-persistence.ts`,
maps in memory, its methods are `async` but never await before they are done)
and the **VAST adapter** (`persistence/adapters/vast-persistence.ts` with
`persistence/vast/vast-workflow-client.ts` and
`persistence/adapters/vast-trino-queries.ts`, one HTTP round trip per SQL
statement and no transactions).  So with the local adapter what interleaves are
handlers, timers, workers and clients; with the VAST adapter the statements of
single calls interleave as well.

### Components

| Component | State | Operations | What is hard | What makes it correct |
|---|---|---|---|---|
| **Job queue, local** (`local-persistence.ts`, `events/processor.ts`, `routes/{queue,jobs,events,dlq,approval,asset-actions}.ts`, `workflow/transitions.ts`, `reaping/lease-reaping.ts`) | maps `jobs`, `queue`, `dlq`, `processedEventIds` | ingest, claim, heartbeat, reap, failure with back-off, replay, purge, status changes by events and reviewers | one job in three maps; events late, repeated, reordered; workers that died or lost their lease and go on | the maps agree; a lease is respected; settled jobs stay settled; nobody waits for ever |
| **Media worker** (`src/services/media-worker/worker/main.py`, `client.py`) | its current job; job thread, heartbeat thread | claim, started, work, timeout, completion | a timeout reports failure while the job thread runs on; swallowed heartbeats; crashes | what it held comes back by expiry alone |
| **Job queue, VAST** (`vast-workflow-client.ts`) | tables `jobs`, `queue`, `dlq` | the same calls as statement sequences | no transactions, no keys, unchecked affected-row counts, statements that fail midway | tables agree between calls; one winner per claim |
| **Check-in** (`routes/checkin.ts`, `storage/s3-client.ts`) | `checkins`, `s3_compensation_log`, versions, manifest, sentinel `latest`; S3 multipart uploads | reserve, commit, abort, compensation | state read once and written many awaits later; S3 calls whose effect is unknown; store failing after S3 committed | manifest and log agree with S3; all or nothing; committed is final |
| **Version numbers, VAST** (`vast-trino-queries.ts` insertVersion) | table `versions` | read max, insert, verify, delete and retry | no unique key; winner by `created_at` | what a caller was given stays, is unique, follows time |
| **Circuit breaker** (`infra/circuit-breaker.ts`) | state, failure count, next attempt, probe flag | execute, reset | answers of calls that began before the breaker moved | never wedged, opens at the threshold, kept open, recovers |
| **Workflow engine** (`workflow/engine.ts`, `routes/workflows.ts`, `automation/trigger-consumer.ts`) | `workflow_instances`, `workflow_transitions` | start, transition, cancel, drive | requests that overlap on one instance; side effects re-entered | completion only at an end; history is a path; http once; ended stays ended |
| **Dispatch and polling** (`automation/dataengine-dispatch.ts`) | `dataengine_dispatches` | create at `checkin.committed`, sweep, complete, abandon | sweeps that overlap and write without looking again, deadlines, a version store that fails | each dispatch ends, ends once and is announced once |
| **Bus, triggers, webhooks** (`events/bus.ts`, `automation/trigger-consumer.ts`, `automation/outbound-webhook.ts`) | subscribers, triggers, delivery log | publish, fire, deliver with retries | cascades; handlers and attempts that interleave with administrators | cascades end; who listens is told |
| **Sessions and devices** (`routes/{iam,device-auth}.ts`) | `lockoutCounter`, `refreshTokenStore`, `activeSessions`, `revokedSessions`, CSRF tokens, device codes | log in, lock, refresh, revoke, poll, approve, expire | several maps per session; queries between reading and writing them | the maps agree; a token is used once; who must be locked is |
| **Accounts and roles** (`iam/persistent-role-binding.ts`, `routes/{iam,scim}.ts`) | tables of users, global roles and memberships | bootstrap, create, grant, revoke, transfer, replace a group | DELETE and INSERT without a transaction, requests that interleave or throw midway | one role a scope; always a super admin; groups as pushed |
| **Outbox, notifiers** (`routes/outbox.ts`, `local-persistence.ts` publishOutbox) | outbox rows | enqueue, publish | overlap, targets failing midway | at least once, marked once delivered |
| **Audit log** (`infra/audit-chain.ts`, `retention/audit-retention.ts`) | audit rows, hash chain | append, purge, verify | verification and retention together | purging does not look like tampering |
| VAST subscriber, chains (`events/vast-event-subscriber.ts`, `chain-orchestrator.ts`) | consumer offset | consume, trigger next function | redelivery, results taken for triggers | each function of a chain once, in order |
| Retry with timing (`infra/retry-with-timing.ts`) | none | retry | deadline against attempts | never past its deadline |
| VMS tokens, DataEngine proxy (`vast/*`) | token, process-wide TLS setting | refresh, forward, retry on 401 | shared refresh, save/restore by overlapping calls | one refresh; setting restored |
| Break-glass, API keys, in-memory IAM services (`iam/*`) | tables in memory | grant, sync, lock, expire | life cycles | sequential decisions |
| Function configuration (`config/function-configs-store.ts`, `utils/ttl-cache.ts`) | cache over a table | read, write, invalidate | a read that fills the cache after a write | no stale value past its time |
| CRUD routes, scanner, authorization tables, installer, functions, OpenAssetIO, query service, web UI, deployment | little or none | request by request | | |

### How they interact

* Ingest creates an asset, its job and the queue entry.  A **worker** claims
  over HTTP, posts `asset.processing.started` to the event endpoint, keeps the
  lease alive by heartbeats and reports through the DataEngine completion
  endpoint; the **event processor** drops an id it has seen, asks the status
  table and calls the adapter.  Operators replay and purge; reviewers move
  settled jobs along.  The **reaper** runs on an interval timer.
* **Check-in** opens S3 uploads through the S3 client (which has a breaker),
  reserves a version (numbered by `insertVersion` when versions live in VAST)
  and publishes on the **bus**: `checkin.reserved`, `.committed`, `.failed`,
  `.aborted`.  The **dispatcher** subscribes to `checkin.committed`, writes a row
  for each file a function is expected to process and looks in S3 for what it
  makes; **triggers** subscribe to everything.  A trigger may call a webhook,
  publish another event or create a **workflow instance**.
* Requests are authenticated by **sessions**, whose maps live in the process,
  and judged by **roles**, which live in the database and which administrators
  and the identity provider (SCIM) change.
* Operations of the local store leave a row in the **audit log** and some an
  item in the **outbox**; both are read back by timers and by operators.
* The breaker stands around Trino, S3 and Kafka.

## 2. Plan

Order of the modules, the most important behaviour first:

1. `WorkflowTransitions`, `JobQueue`, with the abstract `JobLease` it
   implements; proofs in `JobQueueProofs`. *Done.*
2. `CircuitBreaker`. *Done.*
3. `CheckIn` (abort, commit and compensation at every await); proofs of both in
   `StorageProofs`. *Done.*
4. `VastJobQueue`: the queue again, one action per SQL statement; it implements
   `JobLease` too, but on jobs that two calls have in hand at once or a call
   breaks off on. *Done.*
5. `VersionNumbers`; proofs of both in `VastProofs`. *Done.*
6. `WorkflowEngine` with its proofs. *Done.*
7. `DispatchPoller` and `Triggers` on one `EventBus`, composed in `Automation`,
   with proofs. *Done.*
8. `AuditTrail`: the audit log with retention and verification, and the outbox,
   with proofs. *Done.*
9. `Sessions` (logins, refresh tokens, device codes) and `Accounts` (roles,
   transfer, groups), each with its proofs. *Done.*
10. `FunctionChain`: subscriber, redelivery and chains; the abstract
    specification is "each function of a chain runs once, in order".
11. Small ones: retry with timing, token manager, the configuration cache.

Abstract specifications: `JobLease` (done, implemented by both queues); an
all-or-nothing check-in (stated as the invariant `CleanOutcome` so far); exactly
one run per function for chains.

Theorems still to prove: the safety part of whatever item 10 adds.

## 3. What is modelled

A general convention: a client call or a timer is an action that may happen
whenever the code accepts it; a call that is refused changes nothing and is no
action.  Identifiers, payloads, correlation ids, audit rows and logging are left
out.  Clocks are relative: a variable holds how many seconds lie between now and
a time stamp, and `Tick` counts down.  In the two queues the present moment is
the caller's (see below), so there the count goes on below 0; elsewhere the code
compares time stamps with its own clock only, and the count stops at 0.

### WorkflowTransitions, JobQueue, JobLease

`job`, `queue`, `dlq` and `processed` are the maps of the local adapter.
Because entries are compared by `availableAt` when a worker claims, `ahead[j]`
remembers which queued jobs come no later than `j`.  `events` are the events
under way: a sender puts one into a slot, it may be handled at once, late or
never, again and again until its sender stops resending it (`Retire`, which also
stands for the expiry of the remembered id after a day or under pressure).
`worker` is the control flow of `main.py`: claimed, working, overtime (the
timeout thread has reported a failure, the job thread goes on), idle;
`WorkerGivesUp` is a crash or a failed request anywhere.

One action per operation: `CreateIngestAsset`, `Claim` (`claimNextJob`),
`Heartbeat`, `ReapStaleLeases`, `PostStarted`, `PostTimeout`, `PostCompletion`,
`PostExternal` (events of other clients), `ProcessAssetEvent` (all three
routes, with `SetJobStatus` and `HandleJobFailure`), `ReplayRoute`, `ReplayDlq`,
`PurgeDlqItems`, `ApprovalAction`, `AssetMenuAction`, `DevComplete`, `Tick`.

Three routes take the time from their caller: `POST /queue/claim` and
`/queue/reap-stale` from `now` in the body (`routes/queue.ts:78`, `106`), the
DataEngine endpoint from the event.  What they compare and what they write goes by
it: which back-off and which lease is over, until when the new lease runs, from
when the job is available again.  `Clocks` are the distances of these clocks to the
server's, 0 among them, any set of integers in the proofs.  Media workers, the
interval timer and the replay routes send none and go by the server's.  What
is over by every clock of `Clocks` is kept as `Horizon` seconds ago (`Kept`),
because no guard tells it from what is over longer still; the order of the queue,
which does, is in `ahead`.

So a lease that has not expired is not safe from other callers, nor meant to be:
`phase2-workflow.test.ts:191` reaps one and has another worker claim the job, both
with a time ahead.  What holds, and `LeaseHonoured` says, is that nothing else but
an event about the job and the developer endpoint ends one, and that a job reaped early
is available only from when its lease would have ended, since the reaper dates it
by the time it was given: whoever goes by the server's clock, as all media
workers do, does not take it from a worker that is alive.

`JobLease` has no queue, dead letters, attempts or events: a job is offered,
held under a lease, idle or settled.  `ImplementsLease` maps a job's row to a
phase (`LeasePhase`), its owner and the time left.  A lease goes back to offered by
`Reoffer`, which asks that it is over by one of the `Clocks`.

### VastJobQueue

The same calls, one action per SQL statement.  `call[c]` is a request: the
operation, the next statement, its arguments, what it has read (`seen`) and the
time stamps it computed before its statements (`seconds`, which run down while
the call is under way).  `queue[j]` is a sequence because the table has no key:
nothing but the order DELETE, INSERT keeps a job from being queued twice.
`StatementFails` ends a call where it stands.  Any number of calls overlap, as they
do in the code, which has no lock.  `Hand(c)` are the jobs a call writes or is still
to write; two histories say of which jobs nothing is claimed afterwards:
`crossed`, those that two calls had in hand at once (`Meets`), and `failed`,
those on which a call broke off.  `Crossing` bounds the first for TLC.  Clocks are
as in `JobQueue`, but that the candidates of a claim are those of the server's
(`getPendingJobs`).  The strict mode of the adapter is
modelled, in which an error is an error; without it a call that throws is
answered by the in-memory adapter (a hazard without a property).  The gate of
`markIfNotProcessed`, audit and outbox statements, incident records and purging
are left out.

### CheckIn

A request is a handler at one of its awaits and `request[r]` its local state.
Reserve opens an upload and writes a row of the compensation log per file,
then the check-in's row; commit completes uploads, then writes manifest,
version, sentinel, log and state; abort and a commit S3 refused run
`runCompensationInline`.  `role` is the stored plan's role of each file.  A client
gives the roles (`Plans`), `sidecar` is what it gets if it gives none, and
nothing makes them distinct.  A commit names files, and `normalizeCommitBody`
accepts it when every role is named (`CoversRoles`): the files named are completed
(`todo`), while manifest and log are written for all of the plan.  So
`ManifestBacked`, `LogIsRight` and `CleanOutcome` speak of an object for every
role, which is one for every file only where roles are distinct.

S3 is the variable `upload`: a call takes effect or not, and when it fails the
caller does not know (`CompleteFails`, `OpenFails`, `ExecuteInverse`).  A query or
write of the store may throw wherever a handler has one, and what the code does
then differs: after S3 is committed the handler ends (`CommitThrows`), and its
own attempt to say so may throw too (line 897); in the path that follows a
refused commit (`FailureThrows`) a write of the state leaves the check-in
reserved or compensating, while a compensation that throws in the middle
(`CompensationThrows`, `MarkThrows`) is swallowed by the `.catch` of line 819 and
the handler goes on to `aborted`; in the abort endpoint all of it ends the
request (`AbortThrows`), in reserve the request before its answer
(`ReserveThrows`).  `mishap[i]` is a history: whether requests on `i` ever
overlapped, a write threw (`threw`), a compensation was swallowed (`swallowed`), or one of
the two writes of the state threw (`stuck`).  Part uploads, presigned URLs and the
breaker around S3 are left out; a crash of the process loses the local store
altogether and is not modelled.

### VersionNumbers

`insertVersion` for one shot and context: `SelectMax`, `Insert`, `Verify`,
`Delete`, and up to `MaxInserts` attempts.  `at` is `created_at`, the
time at which the request began.  When created_at is equal VAST may return either row
first.  A statement may throw, also when it took effect (`Throw` after `Insert`
leaves the row).

### CircuitBreaker

`execute` is split where it yields: `LetThrough` or `Probe` up to `fn()`, and
`OnSuccess`, `ExpectedError`, `OnFailure` when the promise settles, in
whatever state the breaker is by then.  The failure count is held at the
threshold, which is all it is compared with.

### WorkflowEngine

An instance has a state and a node; a request is a route handler at one of its
awaits.  `Look`, `Read`, the handler of a node (`Advance`, `Wait`, `Complete`,
`Fail`) and `WriteAdvance` are the awaits of `runWorkflowToBoundary` and
`runWorkflowStep`.  `Override` and `CancelWrite` are the second halves of the
transition and cancel routes.  Conditions on edges depend on contexts, which are
left out: any edge of a node may be taken.  The table of transitions is kept as
two facts, whether it is a path and where it ends.  `calls[i]` counts the calls
of an http node since the instance came to it.  `alone[i]` is a history variable: no two requests
were on `i` at once.  The definition is a constant, so editing one while
instances run is not modelled.

### EventBus, DispatchPoller, Triggers, Automation

`publish` calls its subscribers in turn; in the model an event waits in `bus`
until the trigger consumer has taken it, and nothing that awaits goes on before
(`Settled`), because the local store answers before any timer or socket does.

`DispatchPoller`: `HandleCheckinCommitted` writes a `row` for each file of a kind
that has a pipeline.  A sweep (`runSweep`) is a list and its place in it:
`BeginSweep` lists the pending rows, `SkipRecent` and `TakeRow` take the next
one, `Complete` and `NotYet` are its probes' answers, `Attached` the answer of
the version store, which may have failed.  A sweep writes what it writes by the
row it listed, so two of them (the timer's next, or `POST /dispatches/poll-now`)
can undo each other: `raced` remembers the files two sweeps had in hand at once.
`FairPoller` is this module alone, with the timer.

`Triggers`: `running` are handlers of events, each with the triggers it has still
to fire; `FireHttpCall`, `FirePostEvent`, `FireRunWorkflow` and `FireNothing` are
the kinds of action, `AttemptSucceeds` and `AttemptFails` the answers
`deliverWebhook` waits for, up to `MaxAttempts`.  `SetEnabled` and
`RevokeEndpoint` are administrators in between.  `Automation` is both modules on
one bus: from a committed check-in to the receiver of a webhook.

### Sessions

A request is a call at one of its awaits.  The actions of a login are
`LoginFound`, `LoginRight` or `LoginWrong`, `LockUnlessSuper`, `Lock`, and
`OpenSession`, which evicts the oldest session over the limit; of a refresh
`SpendToken`, `RefreshUser`, `IssueNext`; of the device flow `RequestCode`,
`AuthorizeDevice`, `PollApproved`, `IssueToDevice`, `ExpireCode`.  `Revoke`,
`SetStatus` with `ResetFails`, `ScimStatus` and `TransferSuperAdmin` come in
between, a query may throw (`CallFails`), and `Restart` empties every map and
keeps the tables.  A token carries the `grant` it stems from, which the store has
no field for: the first token of its line.  `contended` (codes two polls had found
approved at once) and `excused` (users spared as super admins, whose request
threw on the way, or whom the identity provider activated) are history variables.

### Accounts

A request reads, then has a list of statements to send (`todo`), one action per
statement (`ReadRole`, `InsertUser`, `DeleteRows`, `InsertRow`), any of which may
throw and end it (`StatementFails`).  `rows[u][s]` is a sequence because the
tables have no keys.  Requests: bootstrap with its in-memory flag
(`CloseBootstrap`, `Restart`), creation of a user, grants and revocations,
`BeginTransfer`, `BeginReplaceGroup` with the role of every user read first.
The transfer asks for the role in the caller's access token (`routes/iam.ts:2071`, from the
claims that `iam/auth-plugin.ts` reads), which says what the tables said when it was
signed, up to an hour ago: `claims` are the users with an unexpired token that
names super_admin, `TokenIssued` and `TokenExpires` change it, a demotion does
not.  `overlapped` (what two requests were to change at once) and `seized` (a
super admin's role changed otherwise than by a transfer to somebody else; a
transfer by who has handed the role on to who has it counts among these) are
history variables.

### AuditTrail

A row of the log is named after its place and stands for its hash; it keeps its
time and the row its `prevHash` names.  `Operate` and `OperateAndEnqueue` are any
operation of the store, `Publish`, `Delivered` and `DeliveryFails` the deliveries
of `publishOutbox`, one await each, by several requests at a time;
`BeginRetention` and `Purge` are the retention timer, with and without
`maxDeletePerRun`.  Verification changes nothing: it is the operator `Reported`.

## 4. Runs

Every cfg names its bounds as CONSTANTS.  State counts are distinct states.

| Run | Instance | Shows |
|---|---|---|
| `JobQueue_safety` | 1 job, 2 workers, 2 events in flight, 2 attempts (cap 3), leases of 5 and 10 s, clocks 5 s ahead and behind, every event type on every route; 558,191 states | `TypeOK`, `LeaseAgreement`, `MapsAgree`, `SettledStaysSettled`, `LeaseHonoured` |
| `JobQueue_leases` | 2 jobs, 1 worker, 1 event, 1 attempt, clocks 5 s ahead and behind, fairness; 180,492 states | `ImplementsLease`, `PendingIsServed`, `LeasesEnd` |
| `VastJobQueue_calls` | 2 jobs, 1 worker, 2 calls at once on different jobs, a clock 1 s ahead, failing statements; 556,838 states | `TypeOK`, `TablesAgree`, `KeepsLease` |
| `CheckIn_races` | 1 check-in, 2 files of two roles or of one, 2 requests, S3 and store fail, fairness; 645,408 states | `TypeOK`, `ManifestBacked`, `LogIsRight`, `CleanOutcome`, `CompensationEnds` |
| `VersionNumbers_contention` | 3 callers, 2 attempts, times 0 to 2; 63,636 states | `VersionsTypeOK`, `GivenStays`, `LaterIsHigher` |
| `CircuitBreaker_calls` | 3 calls, threshold 3, window 2, fairness; 294 states | `BreakerTypeOK`, `NextCallIsSound`, `OpenIsKept`, `Recovers` |
| `WorkflowEngine_requests` | 1 instance, 2 requests, 5 nodes, 5 steps a request; 183,251 states | `TypeOK`, `CompletedAtEnd`, `StopsAndCalls`, `LogIsPath`, `EndedStaysEnded` |
| `Automation_events` | 1 check-in of 2 files, 2 sweeps, 4 triggers, 2 attempts, fairness; 204,352 states | `AnnouncedOnce`, `CompletedStays`, `ReachesReceiver`, `CascadesEnd` |
| `Dispatch_overdue` | 1 file, the timer's sweep, fairness | violated: `OverdueIsGivenUp` |
| `Sessions_tokens` | 1 user, 3 tokens, 1 device code, 2 requests, 1 session a user, threshold 2; 343,626 states | `RegistryAgrees`, `OneLinePerGrant`, `LockedAtThreshold` |
| `Accounts_roles` | 2 users, 1 project, 2 requests, tokens; 1,994,841 states | `OneRow`, `SuperAdminRemains`, `GroupIsReplaced` |
| `AuditTrail_retention` | 2 publishing requests, 2 targets, 4 rows, 2 items, times 0 to 2, with a limit of 1 and without; 1,865,920 states | `ChainHolds`, `DeliveredBeforeMarked` |

Some properties are the conjunction of two or three that belong together and are
named where they are defined: `MapsAgree` of `PendingIsClaimable`,
`FinishedIsUnqueued` and `DeadLetterIsOut`; `TablesAgree` of `RestoredByCalls` and
`QueuedOnce`; `LogIsRight` of `LogIsTruthful` and `LogSettles`; `NextCallIsSound`
of `NoWedge` and `ClosedHasRoom`; `StopsAndCalls` of `RestsAtWait` and
`CalledOnce`; `OneLinePerGrant` of `GrantsGoOn` and `OneGrantPerCode`.

Why these bounds are enough for the questions asked:

* **JobQueue**: jobs meet only in the order of claims and in batches (reaping,
  replay of all dead letters), so one job is enough for the maps' agreement, and
  two for order, batches and starvation.  Two workers are needed for a worker that
  lost its lease and the one that has it now, two slots for a report that overtakes another.
  Two attempts reach retry and dead letter; the cap of 3 lies above
  `MaxAttempts`, so that attempts beyond it, which the code allows, occur.  Two
  lease lengths let a heartbeat shorten as well as lengthen a lease.  A clock 5
  seconds ahead ends a lease of 5 seconds at once and shortens one of 10; one
  5 seconds behind grants leases of 5 that are over already.  `Horizon` is as far back as
  the slowest clock, the least the assumption allows.
* **VastJobQueue_calls**: two calls, on two jobs.  `Crossing` is empty, so two calls
  do not take up one job at once: of such a job the properties say nothing.  It asks
  whether each sequence, with time passing, other calls at work and statements
  failing between its statements, is right; the proofs let calls cross as they
  like.  Statuses asked for are `processing`, which keeps a lease, and
  `completed`, which ends it; `needs_replay`, which ends it and leaves the queue alone, is left to the
  proofs, which cover every status.
* **CheckIn**: two requests are a commit and an abort, two commits, or two
  aborts; two files are the smallest manifest of which one may fail, and either
  share a role or do not.  `MaxThrows` lets one check-in meet one kind of throw, in
  any number (the proofs, several kinds); two manifests are two commits.
  Check-ins share the sentinel only.
* **VersionNumbers**: with three callers two can step back for a third and meet
  again; two attempts are one retry.
* **CircuitBreaker**: three calls are one that is late, one probe and another;
  the threshold of 3 needs failures that accumulate across successes.
* **WorkflowEngine**: the definition is the one of the engine's header
  (start, approval, http, end) with a branch back to approval, so that the loop's
  "node of two steps ago" test, its step limit and re-entered handlers all
  matter; 5 steps are more than any stretch of it between two waits needs.

* **Automation**: two files differ in kind, so that one completion attaches URLs
  and the other does not; two sweeps are the least that overlap; the four
  triggers make a chain (event, posted event, created instance, its event) beside
  a webhook that one switch and one revocation may hit.  `MaxAnnounced` stops
  sweeps of a row that two sweeps have already announced twice; such a row is in
  `raced`, and no property speaks of it.
* **Dispatch_overdue** needs one row and one sweep.
* **Sessions**: with one session a user every second login evicts; a third token
  lets a refresh run beside both; two requests are two polls of one code, two
  wrong passwords, or an unlock and a login.  One user is enough because no map
  relates two, but for the super admin's role, which is then held by somebody
  else.
* **Accounts**: a transfer needs two users, and so does its repetition by a
  caller whose token is out of date; two requests interleave.
  `MaxOverlapped` is 0: what two requests were to change at once is excepted by
  the properties, and no request begins after that has happened.
* **AuditTrail**: four rows are the least of which retention can leave a gap in
  the middle and a chain to both sides of it; two targets are the least of which
  one may have got what the other has not.

`CHECK_DEADLOCK FALSE` stands where the system may stop: in `CheckIn` and
`WorkflowEngine` every check-in or instance has ended (identifiers are not
reused), in `VersionNumbers` each caller inserts one version.  Everywhere else
deadlock is checked.

### Fairness

* `JobQueue`: a media worker polls for ever and each of its calls ends, one way
  or the other (`run_forever` with timeouts): weak fairness of `WorkerStep`, which
  includes giving up, so that nothing is assumed of success.  The reaper is
  started by `app.ts` on an interval timer, on by default (`ReapStaleLeases`), and
  time passes (`Tick`).  Nothing is assumed of heartbeats, clients, operators,
  or of the handling of events: they may all be lost.
* `CheckIn`, `WorkflowEngine`: a handler that is under way goes on
  (`WF` of `Continue(r)`): promises settle, S3 calls and fetches have timeouts.
  Clients promise nothing.
* `CircuitBreaker`: requests keep coming, time passes, a call in flight is
  answered or times out.  `Recovers` is conditional: from some point on no
  errors.
* `Automation`: handlers go on, an attempt is answered or times out
  (`AbortSignal` in `deliverWebhook`), and the version store answers.  Nothing is
  assumed of sweeps finding anything, of receivers or of administrators.
* `FairPoller` (`Dispatch_overdue`): time passes, the timer starts sweeps
  (`setInterval`), S3 and the stores answer them one way or the other.
* `Sessions`, `Accounts`, `AuditTrail`, `VersionNumbers`, `VastJobQueue`: safety
  only, no fairness.

### What the violated run shows

`OverdueIsGivenUp`: a dispatch whose deadline passes while nothing was found
stays pending for ever, although sweeps keep coming.  The branch that gives up
(`automation/dataengine-dispatch.ts:274`) asks for a deadline that is over among
rows that were listed because theirs is not
(`persistence/adapters/local-persistence.ts:2994`), against "pending -> abandoned
(poller gives up after deadline)" of
`db/migrations/022_dataengine_dispatches.ts:24`.  The model has the branch
(`late`, in `TakeRow`); it is never taken.

### What does not hold

The properties above are stated around these; each was met while modelling, as a
counterexample to a stronger statement.

* A worker's `started` event that is handled after its lease expired and the job
  was reaped moves the job from pending to processing without a lease.  No worker
  claims it and no reaper sees it (`events/processor.ts:239`).  `LeasesEnd`
  therefore speaks of leases, not of processing.
* `POST /queue/reap-stale` with a time ahead ends the leases of workers that are
  alive, and a claim with a time ahead takes their jobs (`routes/queue.ts:78`,
  `106`; `phase2-workflow.test.ts:191` does both).  `LeaseHonoured` and `Reoffer`
  have a disjunct for it.
* Of two files of one role a commit may name one: the manifest and the log are
  written for both, and one has no object in S3 (`routes/checkin.ts:1046`, `839`).
* A commit refused by S3 whose compensation throws goes on to `aborted` with rows
  still pending (`routes/checkin.ts:819`); one whose write of the state throws
  stays reserved or compensating until a client aborts it (818, 820).
* A caller repeats a transfer of super_admin while its token is valid: the target's row is
  deleted, the INSERT throws, and nobody has the role (`routes/iam.ts:2071`,
  `iam/persistent-role-binding.ts:149`).  The same for a transfer to oneself.
* An abort reads the state, a commit finishes, the abort writes `aborted`: after
  `checkin.committed` was published, with the sentinel still at the version
  (`routes/checkin.ts:941`, against its own refusal at line 932).
* Two overlapping claims in VAST both return the job: the conditional UPDATE's row
  count is not looked at (`persistence/vast/vast-workflow-client.ts:509`).
* A request that began earlier inserts its version after a later one has looked;
  both keep one number (`vast-trino-queries.ts:726`), so that `GivenStays` and
  `LaterIsHigher` is what is left.
* An instance created by a trigger is never driven, for nothing subscribes to
  `workflow.started` (`automation/trigger-consumer.ts:119`).
* Two sweeps at once announce a dispatch twice and put a completed one back to
  pending (`raced`).
* Two polls of one device code that overlap get a grant each (`contended`).
* Rows of the audit log that `publishOutbox` writes carry the time at which it
  began: after a slow publication retention cuts the log in the middle
  (`InOrder`).  And every purge leaves a first row whose `prevHash` is not the
  genesis hash verification starts from.
* Two requests that change one user's role leave two rows or none
  (`overlapped`).

Smaller things of the kind: the claim between the reaper's two updates in VAST,
the dead letter a failed statement leaves behind a completed job, the second
probe after a stale expected error, the first file's completed object after a
failed commit, the version that stays a draft, the http call that overwrites a
cancel.

## 5. Proofs

TLAPS checks the theorems for every value of the constants that satisfies the
module's assumption (the `ASSUME` after its CONSTANTS): distinct
nulls, natural numbers where counters and times are meant, a positive threshold,
tables of the right shape, one manifest or more in `CheckIn`.
Nothing else is assumed, but for one hypothesis without which what the theorem
states is false: `ShortStretches` in one of `WorkflowEngineProofs` (about the
definition).

* **`JobQueueProofs`**: `TypeCorrect`, `LeasesAgree`, `MapsAlwaysAgree`.
  Neither `LeaseAgreement` nor any part of `MapsAgree` is inductive alone.  `IInv`
  is the conjunction of all of them and of `TypeOK`, split into the maps (`MapsInv`) and the rest (`Others`): an event that moves a
  pending job to processing keeps `LeaseAgreement` because a pending row
  has no owner (`PendingIsClaimable`); a replay keeps `PendingIsClaimable`
  and `DeadLetterIsOut` because a dead letter has no queue entry; a retry keeps
  `DeadLetterIsOut` because a job that can fail and is a dead letter has used up its attempts.
  The lemmas on `SetJobStatus`, `HandleJobFailure`, `ReplayJobs` and the claim
  are proved once and cited by the steps that use them; `TransitionSources` says
  from where the status table lets a job come.
  Under the same invariant: `QueueImplementsLease` (every action of the queue
  is one action of `JobLease` or a stutter, whatever clocks callers have), and the
  action properties `SettledIsKept` and `LeasesAreHonoured`.  Here it shows
  which routes matter: a dead letter that is replayed is never settled, by
  `FinishedIsUnqueued`.
* **`VastProofs`** is about both modules of the VAST adapter.
  `CallsRestoreTables` and `StatementsKeepLease`, for any number of jobs, workers,
  clocks and calls that overlap as they like: the tables agree on a job whenever no call has
  it in hand, and its row keeps to `JobLease` at every statement, unless two calls
  ever had it in hand at once or one broke off on it.  Between DELETE and
  INSERT nothing in `TablesAgree` is inductive.  Of the other jobs (`Sound`) the
  invariant says that a call has one alone (`Apart`), and of that call,
  statement by statement, how far the tables of the job are apart (`Halfway`)
  or that what it has read is still so (`Reads`); a job in no call's hand
  agrees (`Consistent`).  Apart from that, and whatever fails, no job is
  queued twice but one on which calls crossed, since an INSERT
  finds the queue without the job (`Placed`).  The lease view sees a row of `jobs`
  alone, so each call is one step of `JobLease`, at the statement that writes that
  row.  `TypeCorrect` makes no exceptions.
  `VersionsTypeCorrect`, `GivenStaysAlways`, `NumbersFollowTime`, for any number of
  callers of `insertVersion` that overlap, and of attempts: the invariant adds that
  the numbers are bounded, from which the highest one exists
  (`HighestIsHighest`, by well-founded induction on the library's theorem), and
  that the row a verifying caller looks for is there.
* **`StorageProofs`**, of the check-in: `TypeCorrect`, `ManifestIsBacked`,
  `LogStaysRight`, `OutcomeIsClean`, for any number of check-ins, files and
  requests that cross.  A step touches one check-in, so `IInv` is stated of one, in
  four parts: a reservation works alone and leaves a log row for every file
  (`ReservedOnce`); what a request knows of S3 stays true, because an upload that is
  complete or gone never changes again: of every role a file is stored or is
  still to be completed by the commit, and that is all a manifest rests on
  (`Backed`); a request that compensates still has every pending row in its
  list, because no row becomes pending again, and reaches `aborted` with one
  only by swallowing a throw (`Settles`); and how far the only
  request of a check-in without mishap has come (`Clean`).  Roles are any functions,
  every write may throw, any number of times.
  Of the breaker in front of S3: `BreakerTypeCorrect`, `NextCallFindsItSound`,
  `OpenStays`.  The conjunction of its three invariants is inductive: a step that
  ends a call clears `inProbe` or finds it clear.
* **`WorkflowEngineProofs`**: `TypeCorrect`, `CompletedOnlyAtEnd`,
  `LogIsThePath`, `EndedIsKept`, for every definition, any number of instances
  and requests and every step limit; and `RequestsStopAtWait`, which needs
  `ShortStretches`.  `IInv` adds to the properties: a request
  under way is on an instance that exists (`Placed`), a loop that looks again
  has a step left (`Counted`), and, of an instance on which requests came one at
  a time, `Followed`: its only request still finds what it read, the instance
  has not ended, and the log is ahead of the instance by exactly the move that
  is about to be written.
  `RequestsStopAtWait` proves `StopsAndCalls` from the hypothesis that some rank
  below the step limit goes down with every edge the loop follows by itself
  (`Descends`): no stretch between waiting nodes is cyclic or longer than
  `MaxSteps`.  Nothing in the code refuses other definitions, and the property fails
  for them: two branches that lead to each other stop the loop by its "node
  of two steps ago" test, a long stretch by its limit, and an http node with an
  edge to itself is called again.  TLC evaluates the hypothesis for the definition
  of the run (`ReviewAssumption`).  `DInv` says that the rank of the node a request
  is at is no more than the steps it has left, and that the node of two steps ago has a
  higher one (`OnItsWay`), so the loop goes on after every move; and that an instance
  no request is on has ended, has not begun, or is at a waiting node with
  no call counted (`AtRest`), so the next request starts counting at zero.
* **`AuditTrailProofs`**: `TypeCorrect`, `ChainHoldsAlways`,
  `DeliveredBeforeMarkedAlways`, for any number of targets, rows, items and
  publishing requests and every limit and age.  Of the log `IInv` says that a kept
  row names the row before it when that is kept (`Linked`), and that retention
  leaves the last rows when they came in order (`LastKept`); together they give
  `ChainHolds` (`LastRowsVerify`).  Of the outbox it follows each request: an item
  has reached the targets before the one it waits for (`SoFar`), and an undisturbed item is
  at one request, which has not delivered it further (`Undisturbed`).
* **`AutomationProofs`**: `AnnouncedOnceAlways`, `CompletionIsKept`, whatever the
  triggers are.  `AnnouncedOnce` says nothing of the sweep that has a row;
  `Alone` adds that there is one at most, that the row is pending while it is
  sought and completed while its URLs are attached, and `Known` that only
  rows of committed check-ins are swept.
* **`SessionsProofs`**: `RegistryAlwaysAgrees`, `OneLineAlways`,
  `LockedAtThresholdAlways`, for any number
  of users, tokens, codes and requests and every threshold.  Four invariants
  over one shape: `LineInv` (a grant in use is named after a token that was
  issued, so a fresh token begins a line of its own), `CodeInv` (a redeemed code is gone,
  and one not contended is polled by one request, before it is redeemed),
  `LockedAtThreshold`, which is inductive given the shape, and the registry, which
  needs the lines: a successor of a token is no login's own token.
* **`AccountsProofs`**: `TypeCorrect`, `OneRowAlways`, `SuperAdminAlwaysRemains`,
  `GroupAlwaysReplaced`, for any number of users, projects and requests whose
  statements interleave and fail.  With neither keys nor transactions, all of it
  rests on what requests have still to send; the parts of `IInv` speak of those
  lists.  `ProperInv`: a row is inserted right after its user's rows in the scope were deleted,
  and is deleted and inserted once by a request.  `ApartInv`: what two requests are
  both to change is in `overlapped`.  From these two `RowsInv`: elsewhere there is one row at
  most, and none when one is about to be inserted.  `SuperInv`: a
  transfer begins with a caller that is super admin or, the token being out of date, a
  target that is not; no other request touches a super admin; and there is
  one that no transfer is about to demote.  The last is what survives the
  DELETE of the caller's row when several transfers are under way, and for a
  caller without the role it is somebody else all along.  `GroupInv`: while a
  replacement reads, it has seen members of the group only and has every other one
  before it; while it writes, whoever it will not touch is as was asked for.

Only model-checked, and why:

* everything under fairness (`PendingIsServed`, `LeasesEnd`,
  `CompensationEnds`, `Recovers`, `ReachesReceiver`, `CascadesEnd`): liveness is
  out of the prover's reach.

## 6. Not modelled

Items 10 and 11 of the plan are next: the VAST event subscriber with its function
chains, retry with timing, the token manager and the configuration cache.  The
VAST variants of the audit log and the outbox, break-glass and API keys are small
and repeat what a module above has.  Left out for good: authorization decisions
and the CRUD routes (one request, one or two statements, little state of their
own), path parsing and naming (data), the installer and migrations (run once), the
DataEngine functions (stateless containers), OpenAssetIO and the query service (stateless front
ends), the web UI (a client: every guarantee here is the server's), deployment.
Within the modelled components the sections above say what is left out.

# CoCo: a verification project in TLA+

CoCo (a fork of T3 Code) runs coding agents on a user's machine. A server
(`apps/server`) keeps projects and threads in an event-sourced SQLite database,
drives agent processes and exposes everything over a WebSocket RPC; a web user
interface and an Electron shell (`apps/web`, `apps/desktop`) show it through a
client library (`packages/client-runtime`). It is TypeScript on Effect: within a
process, code is concurrent fibers on one event loop, which switch at every
`yield*` that suspends; across processes it is messages, a database and files.

This directory models the parts of that system whose correctness rests on the
order of steps, checks them with TLC on small instances, and proves the most
important results for all instances with TLAPS. Paths below are relative to
`src/`; `S/` stands for `apps/server/src/` and `CR/` for
`packages/client-runtime/src/`.

* [Inventory](#inventory) – the system's parts
* [Modules](#modules) – what models what, and how closely
* [Runs](#runs) – what TLC checks, with which bounds and fairness
* [Proofs](#proofs) – what TLAPS shows and along which argument
* [Known disagreements](#known-disagreements) between the code and its docs and tests
* [What is not modelled](#what-is-not-modelled), and [what could come next](#what-could-come-next)

`PROJECT.json` holds the same facts for tools: components, runs, the source lines
of every definition, the hazards of the code and the property that covers each,
and for every property a mutated definition that it catches.

## Inventory

### The orchestration core (`S/orchestration`, `S/persistence`)

| component | state | operations | interacts with |
|---|---|---|---|
| Engine, `Layers/OrchestrationEngine.ts` | command queue, in-memory read model, PubSub of events | `dispatch`, the worker's `processEnvelope`, start-up, `readEvents`, `streamDomainEvents`, `latestSequence` | decider and projector by call, store, receipts and pipeline in one transaction, every reactor and subscription through the PubSub |
| Event store and receipts, `persistence/Layers` | tables `orchestration_events`, `orchestration_command_receipts` | append, read from a sequence, thread replay with its statistics; upsert and look-up by command id | the engine's transaction |
| Decider, invariants, projector, `decider.ts`, `commandInvariants.ts`, `projector.ts` | none (pure) | one rule per command type, one per event type | the engine's read model |
| Projection pipeline, `Layers/ProjectionPipeline.ts` | one SQL table group and one cursor per projector, a cursor for attachment clean-ups | project an event in the engine's transaction; replay at start; side effects after the commit | event store, attachment files |
| Deletion reactor, `Layers/ThreadDeletionReactor.ts` | last sequence seen, a drainable worker | clean up a deleted thread, `drainThrough` | PubSub, provider sessions, terminals, requests in `ws.ts` |
| Command reactor, `Layers/ProviderCommandReactor.ts` | per-thread caches, a drainable worker | turn start, interrupt, answers to approvals, session stop | engine, provider service |
| Runtime ingestion, `Layers/ProviderRuntimeIngestion.ts` | text buffers, turn ids, assistant segments per thread | provider events to commands | provider event stream, engine |
| Checkpoint reactor, `Layers/CheckpointReactor.ts` | pending turn starts | baseline and turn snapshots, revert | engine, git, provider service |
| Settlement, `ThreadSettlementReactor.ts`, `ThreadSettlementPolicy.ts` | timers, what a sweep last looked up | settle idle or merged threads; the decider settles, snoozes, pins and archives | engine, source control, the command reactor, which stops the session of a settled thread |
| Pull request reactor, `ThreadPullRequestReactor.ts` | timers | poll and attach pull requests to threads | engine, source control |
| Thread and shell subscriptions, `S/ws.ts`, `ThreadLiveEventCoalescer.ts`, `LiveStreamBudget.ts`, `Layers/ProjectionSnapshotQuery.ts` | per-subscriber buffers and budget | snapshot or replay, then live tail | engine, SQL tables, clients |
| Attachments, `S/attachmentStore.ts`, `Normalizer.ts` | files named by thread and attachment | claim an upload for a command, remove it, prune after a revert, delete with the thread | requests, projection pipeline |

*Hard behaviour.* Several clients and reactors dispatch concurrently, retry
commands whose answer they lost, and race with each other; storage fails at any
call and COMMIT may fail after it took effect; the process dies between any two
steps and what it kept in memory is gone; deletion is asynchronous and thread ids
are used again.
*Correctness.* A command takes effect whole, at most once, with one verdict; the
decider always sees the state at the end of the log; subscribers see every event
once and in order; cleaning up one thread never touches its successor; files that
are referred to stay, and the others go away eventually; a settlement hides only
what is at rest, and stops nobody who came back.

### Server runtime

| component | state | operations and hard behaviour | what makes it correct |
|---|---|---|---|
| Start-up, `serverRuntimeStartup.ts`, `serverActivation.ts` | readiness deferred, parked fibers | reactors start parked, orphaned sessions of the last run are settled, then commands are let in | no command before the reactors listen; no thread stays running after a restart |
| Settings, keybindings | file, cached value, watcher | write through a temporary file, reload on change | the cache follows the file; a write is not undone by a late reload |
| RPC server, `ws.ts`, `server.ts` | per-connection fibers | a method per operation; composite requests (bootstrap a thread, then start a turn; undo on failure) | a request that fails undoes what it did, and only that |

### Providers (`S/provider`)

| component | state | operations and hard behaviour | what makes it correct |
|---|---|---|---|
| Provider service, session directory, reaper | binding of a thread to a provider instance (persisted), live sessions in the adapters | start, resume from the binding after a restart, send, interrupt, stop, reap when idle | a thread has one live session; a session in use is not reaped |
| Instance registry and snapshots | instances by settings entry, status snapshots | rebuild on a settings change while probes run | a snapshot belongs to the current instance |
| Adapters (Claude, Codex, Cursor, ACP) | process, pending approvals and questions, turn state | requests and notifications of an external agent | each pending request is settled once, also when the process dies |
| Maintenance | lock per provider | update a provider's binary | updates exclude each other |

### Workspaces and tools

| component | state | operations and hard behaviour | what makes it correct |
|---|---|---|---|
| Terminals, `terminal/Manager.ts` | sessions by thread and terminal id, history files | open, write, resize, restart, close; a process exits while it is closed | one process per terminal; history is neither lost nor mixed |
| Version control status, `vcs/VcsStatusBroadcaster.ts` | cached status and poller of a directory, subscribers counted by path | poll, refresh, refresh at the end of a turn, subscribe and leave; clients come and go while git runs | a poller lives while it has subscribers; no older status replaces a newer one; a follower sees every change |
| Coalescing worker, `packages/shared/src/KeyedCoalescingWorker.ts` (terminal histories) | latest value by key, queued and active keys | enqueue, process, drain a key; processing fails while a new value comes in | no request is lost or processed twice; a drain waits for what came before it |
| Git workflows, pull requests, source control | caches over external tools | multi-step git operations | partial failure is reported as such |
| Preview automation and agent brokers, `mcp` | pending requests by client connection | request, respond, time out, client replaced | each request is settled once, by the client it was sent to |
| Authentication, `auth` | sessions, one-time pairing grants, secrets | exchange, verify, revoke | a grant is consumed at most once; a revoked session stays out |
| Telemetry, background policy, usage | child process, samples | sample, restart with back-off | bounded history, one child |

### Clients

| component | state | operations and hard behaviour | what makes it correct |
|---|---|---|---|
| Connection supervisor, `CR/connection/supervisor.ts` | intent, queue of signals, attempt, session, ladder of delays | connect, disconnect, retry, wake up; attempts and health checks fail | no session against the intent; a request to retry is heard; a wanted connection is retried |
| Environment registry, `CR/connection/registry.ts` | catalog entries, a supervisor per environment, locks by environment | register, remove, reconcile with the platform, acquire, follow | one supervisor per environment; what the platform owns stays; a follower ends up with the current supervisor |
| Thread and shell state, `CR/state` | cached snapshot, cursor, status, disk cache | resume, apply items, persist, load older turns | nothing between two cursors is missing; "live" means caught up |
| Commands and schedulers | command ids, queues | retry under the same id | one effect per user action |
| Desktop backend, `apps/desktop/src/backend` | active run, restart timer, mutex | start, wait for readiness, restart, stop; a process exits or refuses to die meanwhile | one backend at a time; a wanted backend comes up; the log of a crash is kept |
| Desktop updates, `apps/desktop/src/updates` | update state machine | check, download, install | one action at a time; an install follows a download |
| Web interface, native helpers, build scripts, generated protocol packages | – | presentation, tooling | out of scope |


## Modules

A module header names its abstractions; `PROJECT.json` gives every definition's
lines. Names follow the source: an action is called after the function or the step
of it that it models, a variable after the variable it stands for.

| module | what it is |
|---|---|
| `OrchestrationDomain` | pure: commands, events, read model; `DecidePlans` (decider and invariants), `ProjectEvent` (projector) |
| `OrchestrationEngine` | the engine: queue, worker, transaction, receipts, publication, failure and reconciliation, crash and start |
| `CommandLog` | abstract: a command is decided against the state of the log and takes effect in one step, once |
| `ThreadDeletionReactor` | the deletion reactor, its drainable worker, and the requests that wait for them before they re-use a thread id |
| `AttachmentCleanup` | attachment files between requests, projections, asynchronous clean-up and restart |
| `ThreadSettlement` | where a thread stands in the list: users, provider, automatic sweeps and the clean-up of a settlement |
| `ThreadSync` | one client's view of one thread: replay or snapshot, live buffer, cursor, caches, retries |
| `ConnectionSupervisor` | a client's connection to an environment: intent, signals, attempts, health checks, back-off |
| `EnvironmentRegistry` | the client's environments: catalog entry, supervisor, lock of the environment, followers |
| `VcsStatusBroadcaster` | the cached status of a directory, its poller, refreshes and followers |
| `KeyedCoalescingWorker` | the worker that merges what comes in for a key while it is busy |
| `DesktopBackend` | one backend process of the desktop shell: start, readiness, restart, stop |
| `*Proofs` | theorems about the module of that name |
| `ClientConnectionProofs` | theorems about `ConnectionSupervisor` and `EnvironmentRegistry` (whose operators that both have are called `Registry*`) |
| `BackgroundWorkProofs` | theorems about `VcsStatusBroadcaster` and `KeyedCoalescingWorker` (whose operators that both have are called `Worker*`) |
| `MC*` | instances for TLC: the commands and keys in play, symmetry, what counts as being at rest |

### OrchestrationEngine, OrchestrationDomain, CommandLog

`S/orchestration/Layers/OrchestrationEngine.ts` with the event store, the receipts,
the decider and the projector.

| in the model | in the code |
|---|---|
| `events`, `receipts`, `projections` | the tables; they survive a crash |
| `commandQueue`, `commandReadModel`, `eventPubSub` | the closure's variables of the same names |
| `phase`, `envelope`, `dispatchStartSequence`, `error` | how far the worker is in `processEnvelope`, and its locals |
| `pending`, `staged`, `stagedReadModel`, `stagedProjections` | planned events, and what the open transaction has done |
| `Dispatch` | `dispatch`: an envelope with a Deferred enters the queue |
| `TakeCommand`, `AnswerFromReceipt`, `DecideAccepts`, `DecideRejects` | `processEnvelope` up to the transaction: a known id is answered from its receipt, a new command is decided |
| `AppendEvent`, `Commit` | one append, projection and read-model step per event, then the receipt and COMMIT |
| `PublishEvent`, `PublishDone`, `Succeed` | the read model moves, events are published one by one, the Deferred is resolved |
| `ReconcileRead`, `ReplayEvent`, `ReplayDone`, `FailRejected`, `Fail` | the failure path: re-read the log from where the dispatch began, project, publish, record a rejection |
| `PreparationFails`, `StorageFails`, `CommitReportsFailure`, `ReconcileFails` | every call to the store may fail; COMMIT may report a failure after it took effect |
| `Crash`, `Start` | everything volatile is lost; start-up reads the read model from the tables |

`CommandLog` knows nothing of memory: a step takes one undecided command, appends
what `DecidePlans` allows *for the state at the end of the log* and accepts, or
rejects. The refinement maps its variables to the engine's `events` and `receipts`.
That `commandReadModel` is behind, ahead, or rebuilt while a command is decided is
exactly what could break it.

Modelled commands: project create, re-root, delete and forced delete (which deletes
the threads of the project first), thread create, delete, archive and unarchive.
The other command types go through the same engine with a decider rule of their own.

### ThreadDeletionReactor

`ThreadDeletionReactor.ts`, `packages/shared/src/DrainableWorker.ts` and the create,
bootstrap and archive requests of `ws.ts`. Deleting a thread is answered before its
session is stopped and its terminals are closed, and these are keyed by the thread's
id. `seenSequence`, `queue`, `outstanding`, `cleaning` and `step` are the reactor
and its worker; `owner` says for which incarnation of a thread a session or a
terminal was started, which the code does not know and is the point of the fence;
`requests` holds the stage of each request: sent, committed, waiting for the fence,
draining, using the thread. A command may fail, fail after it committed, and a
bootstrap that fails deletes what it created.

### AttachmentCleanup

`Layers/ProjectionPipeline.ts` (side effects, clean-up cursor, catch-up at start),
`Normalizer.ts` and the failure path of `ws.ts`. A file is on `disk`; a claim is a
request that has copied it and not committed; `tables` are the two projections that
refer to files; a clean-up reads references, lists the directory and removes entries
in separate steps, after the commit of its event or when the server starts. A crash
leaves `log`, `tables`, `cursors`, `cleanupCursor` and `disk`.

### ThreadSync

`subscribeThread` of `ws.ts` with `ThreadLiveEventCoalescer.ts` and
`LiveStreamBudget.ts` at the server, `CR/state/threads.ts` and `CR/rpc/client.ts` at
the client.

| in the model | in the code |
|---|---|
| `latestSequence`, `published` | the engine's read model and PubSub; between COMMIT and publication they lag behind the log |
| `stage`, `request` | where `subscribeThread` and `makeSubscribeInput` are, what the client asked, what head the server saw |
| `liveBuffer` | position in the PubSub, `pendingUpdates`, output queue. Both hold sequence numbers in the order of the log, so sets stand for them; the completion marker, the one thing without a number, is kept as the position it stands behind |
| `replay`, `marked` | the part of the stream before the live buffer, likewise a set sent least sequence first, and whether the completion marker was offered |
| `buffer` | values `switchMap` holds for `applyItem` |
| `lastSequence`, `thread`, `status`, `error`, `awaitingCompletion`, `resumingLive` | the refs of `makeEnvironmentThreadState` |
| `applying` | `applyItemLocked` has moved the cursor and not yet the data |
| `committed`, `kept` | `committed`, and what the next scope finds in the resume cache or on disk |
| `ReadFails`, `Overflow`, `ThreadNotFound`, `FailAttempt`, `RetryAfterFailure` | expected failures and `retryExpectedFailureAfter` |
| `SessionLost`, `SessionUp`, `Resubscribe`, `CloseScope`, `OpenScope`, `Reload` | transport, wake-up, navigation, page load |

An event is its sequence number; a thread on the client is the set of detail events
applied to it. That tells a lost, a doubled and a superseded update apart, and is
all the properties need.

### ThreadSettlement

The lifecycle commands of `decider.ts` with the projector, `ThreadSettlementReactor.ts`
under `ThreadSettlementPolicy.ts`, and what `ProviderCommandReactor.ts` does after a
settlement. The engine decides one command at a time, so a command is one step.

| in the model | in the code |
|---|---|
| `thread` | the thread of the read model: overrides of settlement, pin, snooze, archive, session status and latest turn with what of them is dated after the snooze (`later`), whether a message is queued, open requests, how old its activity is, which messages the read model holds |
| `pending` | the open requests in the database, which outlive a restart; the read model's do not |
| `sweep` | a sweep between reading the snapshot, the look-up of a pull request and its commands |
| `reactor` | the command reactor's queue: settlements, turns, the stop it asks for |
| `Users`, `Provider` and their parts | settle, snooze, pin, archive and their opposites, messages and turns, answers; session statuses, checkpoints, requests, background work |
| `Clock` | a snooze ends, a queued message times out, a thread becomes stale: a time stamp is what it is compared for |
| `Restart` | the read model without messages and activities, queues and sweeps gone |

A sleeping thread is a candidate of the sweep only while it raises its hand
(`RaisesHand`): its session's status is an error, or its latest turn is completed, and
that is dated after the snooze. Both are looked up in the thread as it is: an error
that is followed by `ready` is gone, and so is a completion that the next turn
replaces. A report of the provider carries the provider's date, which may be before
the snooze it is processed after (`late`); the stop after a settlement carries the
settlement's. The database and the read model hold one latest turn here; where they
differ for a moment is left out: a message adopted by a checkpoint in the middle of a
turn, or by a report that is dated before it, and the request to interrupt a turn, which the
database takes as its end and the read model does not. Reverts are left out too.

### ConnectionSupervisor

`CR/connection/supervisor.ts` with the stages of `driver.ts` and the wake-ups of
`wakeups.ts`. `desired` and `network` are the intent, `signals` is the queue, `loop`
says where the supervisor's fiber stands: at the top, with nothing to attempt,
establishing, connected, probing, closing, blocked, backing off. `TakeSignal` has one
case for each place the code takes a signal, `Driver` is what an attempt reports,
`Loop` and `BackoffEnds` are the fiber's own steps. The intent is read again after a
session is established, as the code does. Delays are steps that may be taken at any
time, so no order of time-outs is assumed; whether a session was up for 30 seconds is
left open, and an unknown network counts as online. A take of the queue that loses a
race is taken to lose no signal.

### EnvironmentRegistry

`CR/connection/registry.ts` for one environment: locks, entries and scopes are kept by
environment. `Join`, `Enter` and `Leave` are `withLeaseLock`; `scope` is what
`serviceScopes` holds, `live` are the supervisors whose scope is not closed; the
`Begin*` actions are what a request does once it has the lock, and `ReplaceEntry` and
`Create` the later steps of an installation, since closing and opening a scope wait.
The platform's reconciliation is one fiber (`layer.ts:24`), the user's requests come
one after the other, a query and a follower (`followStream`) contend with them. The
branch of `acquireSupervisor` for a scope of another entry is left out:
`NoStraySupervisor` shows it cannot be reached. Credentials and cached data are left
out.

### VcsStatusBroadcaster

The remote half of the status of one directory. A status is the version it was read
from, and two versions may look alike (`FingerprintOf`), so a status that goes away and
comes back is covered. `Poller` and each request read under the lock and store under
it; `count` and `demand` are the poller's subscribers and their paths; a poller that is
interrupted unwinds where it stands and may hold the lock meanwhile (`Dying`).
Followers attach to the publications first and read the cache then. Abstracted: the
caches of `GitManager` below, the policy's leases (paths with a client in the
foreground), delays. The local half takes no lock and is left out.

### KeyedCoalescingWorker

`packages/shared/src/KeyedCoalescingWorker.ts` entire. A value is the set of the
requests merged into it, which tells a lost request from one that is processed twice.
Each transaction is a step; the fiber takes a key in one step and makes it active in
the next.

### DesktopBackend

One instance of `DesktopBackendManager.ts`. `waiting` is the queue of the mutex: start,
stop, the end of a run, the clean-up of a stop; what a section does without waiting is
one step, and `resolving` is a start that waits for its configuration with the mutex
held. `program` follows each run's fiber from its spawn to the end of its scope, `stops`
are the callers of `stop` that wait, with or without their time-out. Abstracted:
delays, so also the back-off counter; log contents; the pool; WSL and the window.

*How the modules fit.* `ThreadDeletionReactor`, `AttachmentCleanup`, `ThreadSettlement`
and `ThreadSync` take the engine for what `OrchestrationEngine` shows it to be: one
command at a time, committed, then published in order. They therefore assume no missed
publication, which in the engine needs a reconciliation that itself fails
(`PublishedIsTheLog` says when). `ThreadSync` takes sessions that come and go from
`ConnectionSupervisor`, whose supervisor is the one `EnvironmentRegistry` keeps.

## Runs

"Distinct" is the number of distinct states TLC found; each run takes less than four
minutes with two workers.

| run | configuration | checks | instance | distinct |
|---|---|---|---|---|
| `engine_safety` | `MCOrchestrationEngine.cfg` | `ReceiptsMatchLog`, `VerdictsAreFinal`, `AcknowledgedIsDurable`, `ReadModelIsCurrent`, `PublishedIsTheLog`, `OneLiveProjectPerRoot` | 2 clients, 4 dispatches of 4 command ids, two projects with one root, a forced deletion; 2 faults that may hit the reconciliation, 1 crash | 488 k |
| `engine_refinement` | `MCCommandLog.cfg` | `ImplementsCommandLog`, `EveryDispatchAnswered` | one client, every command type, 4 dispatches, 2 faults, 1 crash | 685 k |
| `deletion_fence` | `MCThreadDeletionReactor.cfg` | `FencePassedMeansCleaned`, `CleanUpSparesNewIncarnation`, `EveryFenceOpens` | 1 thread, 2 concurrent requests, 4 events, 1 failure | 309 k |
| `attachment_cleanup` | `MCAttachmentCleanup.cfg` | `CursorMeansCleaned`, `CleanUpKeepsReferencedFiles` | 1 thread, 2 files, 5 events, 1 fault, 2 crashes | 2.0 M |
| `settlement` | `MCThreadSettlement.cfg` | `SettledIsAtRest`, `SettlesOnlyCandidates`, `StopsNobodyWhoCameBack`, `StaleThreadsSettle` | one thread, an approval and an async question, the minute's sweep and a merge's, 4 events, 1 restart | 1.6 M |
| `thread_sync` | `MCThreadSync.cfg` | `NothingMissing`, `MarkerMeansCaughtUp`, `RecreatedThreadIsFresh`, `CatchesUp` | 4 events, replay limit and live buffer of 2, 1 disruption | 1.3 M |
| `sync_recreated` | `MCSyncRecreated.cfg` | `NoMixedHistory`, violated | 5 events, no disruption | |
| `supervisor` | `MCConnectionSupervisor.cfg` | `NoSessionAgainstIntent`, `RetryIsNotAbsorbed`, `OnlyOneSkipsTheDelay`, `ConnectionComesBack` | 4 requests or wake-ups, 3 failures, 3 waiting signals, a ladder of 2 | 2.0 M |
| `environment_registry` | `MCEnvironmentRegistry.cfg` | `NoStraySupervisor`, `PlatformKeepsItsEntry`, `FollowerIsCurrent` | 2 entries, 4 requests | 511 k |
| `vcs_status` | `MCVcsStatusBroadcaster.cfg` | `StatusNeverGoesBack`, `PolledWhileFollowed`, `FollowersShowTheCache`, `FollowersCatchUp`, `EveryFollowerLearns` | 2 followers, a refresh and a turn's end, two paths, 3 versions of which two look alike, 1 failure | 812 k |
| `coalescing_worker` | `MCKeyedCoalescingWorker.cfg` | `EachRequestOnce`, `DrainedMeansDone`, `AllDealtWith` | 5 requests for 2 keys, 2 failures | 22 k |
| `desktop_backend` | `MCDesktopBackend.cfg` | `OneBackend`, `NeverStranded`, `CrashesAreKept`, `WantedComesUp` | 3 runs, 4 starts and stops, 3 faults | 40 k |

Every module has a `TypeOK`. TLC has checked each of them; the configurations list the
properties that can be wrong in the code, and each `TypeOK` is a theorem.

**Are the bounds large enough?** They are chosen for the shortest story that needs
each mechanism, and one more actor or step. Where something is proved (below) the
bounds no longer matter.

* *Engine.* Four dispatches hold: a command, its retry by another client, the same id
  under a different aggregate, and a command that conflicts with it. Two faults let
  the reconciliation fail after the failure it repairs; one crash may hit any step of
  this, the start-up included.
* *Deletion.* Four events hold create, delete, create, delete: a clean-up may meet the
  next incarnation and its deletion. Two requests suffice for a fence between them.
* *Attachments.* Five events hold a created thread, two messages or answers, a revert
  or deletion and a re-creation. Two crashes give a start that is itself interrupted.
* *Settlement.* Two sweeps can hold snapshots of different ages; four events are a
  turn, a settlement, a return and one more thing that happens between them.
* *Thread sync.* A replay limit of 2 with 4 events reaches replay, oversized replay
  and snapshot; a buffer of 2 items overflows; updates of two tool calls interleave;
  an initial create leaves room for delete and create. One disruption covers each kind
  of interruption at each point; two in a row are not covered. A save of the first
  scope is explored with the end of that scope only (`SaveEndsTheScope`, an action
  constraint): what the client does between the two leaves nothing behind, and the
  engine may take its steps afterwards. The theorems know no such bound.
* *Supervisor.* The ladder has 2 rungs instead of 4, so its end is reached; three
  failures reach it and one more.
* *Registry.* Four requests hold an installation, a registration and a removal that
  wait for each other, and one that comes when the lock was dropped.
* *Status.* Three versions, the third like the first: a reader may miss one and see one
  come back. Two followers: the poller outlives one of them.
* *Worker.* Three requests for a key: one in hand, one that waits, one merged into it.
* *Backend.* The limits of failed preflights are 2 and 3 instead of 5 and 12, so both
  are reached with three faults; three runs are one that crashes, its restart, and one
  after a stop.

**Symmetry** is used in `engine_safety` for clients and in `attachment_cleanup` for
files, which no definition tells apart, and never with a liveness property.

**Deadlock** is checked where a state in which somebody waits for ever can be told from
one in which nothing is left to do: there a stuttering disjunct (`AtRest`, `Quiet`,
`Idle`, `Rest`) is enabled only in the latter. In `settlement`, `coalescing_worker`,
`vcs_status` and `desktop_backend` the bounds on events, requests and versions stop the
system anywhere, so `CHECK_DEADLOCK FALSE` is set, and a wait for ever is an error of
the liveness properties instead.

**Fairness.** A fiber that can go on does: Effect's scheduler serves its ready fibers in
turn. Users, networks, failures and crashes owe nothing.

| module | weak fairness of | why |
|---|---|---|
| engine | `Worker` | `Effect.forever` on the event loop |
| deletion | the engine, the reactor's subscription, loop and worker, a request at the fence | fibers |
| settlement | `Clock`, the command reactor, each sweep; not in the step of a restart | time passes, a schedule runs every minute, the reactor drains its queue |
| `ThreadSync` | engine, subscription and client taken together | fibers and timers; no fairness among them is needed |
| supervisor | `TakeSignal`, `Loop`, `Driver`, `BackoffEnds` | one fiber; an attempt has 15 seconds, a wait a delay |
| registry | `Work`, the steps inside the lock and the follower's | fibers; scopes are taken to close |
| broadcaster | the poller's delay, an interrupted poller's end, the lock given to somebody, git commands that end, clients that read | timers, a semaphore, commands with a time-out of 30 seconds |
| worker | `Worker` | one fiber |
| backend | sections of the mutex, timers, spawn, readiness, output drained, a killed process's death, `StopEnds` | a section waits for nothing but the configuration; a process that is killed dies |

`CatchesUp` has the premise that the thread stays open and the session up,
`ConnectionComesBack` that a connection stays wanted and the network there. The bounds
on failures stand for "failures end".

### What the violated run shows

`sync_recreated`: `isThreadDetailEvent` lets neither `thread.created` nor
`thread.deleted` through to a thread's subscribers, although the client's reducer
starts afresh on the first and drops the thread on the second. A client that has a
thread open while it is deleted and created again under its id (a draft retry does
that, says `ProjectionPipeline.ts:1008`) appends the new rows to the old ones. Its
cursor has then passed the create event, so resuming never repairs it. A test says of
a resuming client that "A recreated thread must not reuse cached history"
(`S/server.test.ts:6993`), and `RecreatedThreadIsFresh` shows this holds for cursors
that lie before the re-creation.

## Proofs

Eight modules hold forty-one theorems that a reader should know of and the lemmas they rest
on. They hold for every value of the constants that satisfies the module's named
assumption, which TLC evaluates in its run: any clients, commands, threads, files, keys,
entries, requests, paths, versions, and any bounds. TLAPS is told nothing else. Every
safety invariant, every action property and the refinement that a passing run checks
is stated by one of them.

| module | theorem | what it states for every reachable state or step |
|---|---|---|
| `OrchestrationEngineProofs` | `TypeCorrect` | `TypeOK` |
| | `ExactlyOnceEffects` | `ReceiptsMatchLog`: an accepted receipt stands with all events of its command, which end at its sequence; without one there is none |
| | `FinalVerdicts` | `VerdictsAreFinal`: a verdict is never changed and nothing is appended under a decided id |
| | `DurableAcknowledgements` | `AcknowledgedIsDurable`: a sequence a caller was given names an event of its command for good, through crashes |
| | `CurrentReadModel` | `ReadModelIsCurrent`: a command is decided against what the tables hold, at the end of the log |
| | `PublicationFollowsLog` | `PublishedIsTheLog`: subscribers see each event once and in order |
| | `RootsStayUnique` | `OneLiveProjectPerRoot` |
| | `ReconciledEngineIsCommandLog` | `ImplementsCommandLog` in every behaviour in which no reconciliation fails |
| | `EngineIsCommandLog` | the same for every behaviour, where reconciliations do not fail (`ReconcileMayFail = FALSE`, as in `engine_refinement`) |
| `ThreadDeletionReactorProofs` | `TypeCorrect`, `FenceKeepsItsPromise`, `NewIncarnationIsSpared` | `TypeOK`, `FencePassedMeansCleaned`, `CleanUpSparesNewIncarnation` |
| `AttachmentCleanupProofs` | `TypeCorrect`, `CursorCleans`, `ReferencedFilesStay` | `TypeOK`, `CursorMeansCleaned`, `CleanUpKeepsReferencedFiles` |
| `ThreadSettlementProofs` | `TypeCorrect`, `SettledThreadRests`, `OnlyCandidatesAreSettled`, `NobodyWhoCameBackIsStopped` | `TypeOK`, `SettledIsAtRest`, `SettlesOnlyCandidates`, `StopsNobodyWhoCameBack` |
| `ThreadSyncProofs` | `TypeCorrect`, `NothingIsMissing`, `MarkerKeepsItsPromise`, `RecreatedThreadsStartAfresh` | `TypeOK`, `NothingMissing`, `MarkerMeansCaughtUp`, `RecreatedThreadIsFresh` |
| `ClientConnectionProofs` | `TypeCorrect`, `SessionFollowsIntent`, `RetryIsHeard`, `LadderIsSkippedOnce` | of the supervisor: `TypeOK`, `NoSessionAgainstIntent`, `RetryIsNotAbsorbed`, `OnlyOneSkipsTheDelay` |
| | `RegistryTypeCorrect`, `OneSupervisor`, `ReportedEntryStays` | of the registry: `RegistryTypeOK`, `NoStraySupervisor`, `PlatformKeepsItsEntry` |
| `BackgroundWorkProofs` | `TypeCorrect`, `FreshStatus`, `PolledExactlyWhileFollowed`, `FollowersAreTold` | of the broadcaster: `TypeOK`, `StatusNeverGoesBack`, `PolledWhileFollowed`, `FollowersShowTheCache` |
| | `WorkerTypeCorrect`, `NoneLostNoneTwice`, `DrainWaits` | of the worker: `WorkerTypeOK`, `EachRequestOnce`, `DrainedMeansDone` |
| `DesktopBackendProofs` | `TypeCorrect`, `NeverTwoBackends`, `WantedIsNotForgotten`, `CrashLogsAreKept` | `TypeOK`, `OneBackend`, `NeverStranded`, `CrashesAreKept` |

None of these properties is inductive. What is added to each says why it holds:

* *Engine, receipts.* Whether a COMMIT may append depends on what the worker
  established long before. `SafetyInv` adds that from the decision to the COMMIT the
  command has no verdict (`Undecided`), that pending and staged events carry its id
  (`OwnEvents`), that a worker that publishes has the accepted receipt (`Decided`), and
  that an error is set on the failure path only (`ErrorPath`). After a storage error
  nothing is claimed of the receipt, because COMMIT may have taken effect.
  `PersistSafety` is the heart, the COMMIT that may or may not report its success.
* *Engine, read model.* A failed dispatch may have committed events the read model
  lacks. `MemoryFollows` therefore speaks of the path of read models that leads, event
  by event, from the one in memory to the tables (`Leads`): the transaction builds such
  a path, an ambiguous COMMIT leaves it in the log, the reconciliation walks it. This
  takes no induction over the log, since each step adds or removes an end of the path.
  For the roots, only a plan of a single event claims one, and it is free in the
  staged tables (`PlanIsSafe`).
* *Engine, refinement.* Every step of the engine maps to a step of `CommandLog` or to
  none (`StepRefines`): a COMMIT, reported or not, maps to `Accept`, a recorded rejection
  to `Reject`. What has to be shown is that the events a COMMIT appends are a plan of the
  decider *for the state at the end of the log*. `PlanInv` keeps it: what is staged and
  what is pending are together a plan for the state the tables are still in. It starts
  from `CurrentReadModel`, which holds unless a reconciliation failed, hence the
  premise. That applying such a plan gives the new tables is an induction along the path
  of read models that the transaction has built (`ApplyPlanIsThePath`).
* *Deletion fence.* The engine is at most one event ahead of what is published; the
  subscription's inbox is in order and not older than the watermark; so a request whose
  create the watermark has reached has every earlier deletion behind it, finished or
  counted as outstanding. Whoever owns a session or a terminal is younger than every
  deletion on its way.
* *Attachments.* A file that a message or an answer names was claimed for its thread
  before (`FilesInv`), so only clean-ups of that thread touch it. What a clean-up has
  read stays true until it removes the files, because a clean-up that runs holds every
  cursor at the end of the log (`WorkInv`, `ReadInv`): tables that lag behind the log
  would name too few files. So the files it removes are not in use, and once it is
  done the ones that stay have a reason to (`RemovesInv`). At start only the last
  revert and the last deletion of each thread are done again; `CursorInv` says that
  the earlier ones are covered by them.
* *Settlement.* While a thread is settled, every turn in the reactor's queue has a
  settlement behind it (`SettledLast`); a sweep whose snapshot is as old as the last
  event still describes the thread (`SweepKnows`), because every change of the thread
  is an event.
* *Thread sync.* `SyncInv` follows an event from the log to the client. What the client
  shows, what waits for it in `switchMap`'s buffer, what is still to be replayed and
  what the live buffer holds come after each other: whichever of them an event is in,
  all details before it are in it or in an earlier one, or were replaced by a later
  update of the same tool call in one of them (`BufferInv`, `ReplayInv`, `StreamInv`).
  A snapshot is never older than what comes before it in the buffer. The marker stands
  behind everything it promises, wherever it is (`MarkerInv`), and no snapshot comes
  after it. Between the cursor of an item and its data, what the client shows is one
  item short (`ShownInv`). Without a thread a snapshot precedes every event
  (`PresentInv`, `ComesInv`), and an attempt that resumes behind a re-creation sends a
  snapshot (`RecreatedInv`). TLC checked `SyncInv` on small instances
  before it was proved; steps of the client are shown to keep the server's half and the
  other way round.
* *Supervisor.* Whoever changes the intent leaves a signal that only its taker removes;
  whoever takes a request to retry is on his way to the next round (`RetryIsServed`);
  the marker of a failed health check does not outlive the next attempt.
* *Registry.* The lock's user count is the number of requesters that are not idle, they
  all use the lock that is there, and only one of them works (`LockOK`); what lives is
  in the table, or in the hands of the one who closes it (`LiveInTable`, `TasksAgree`).
* *Broadcaster.* Whoever is between his read and his store holds the lock
  (`Exclusive`), and what he has read is at least as new as the cache (`ReadsAreFresh`);
  the counts are those of the followers (`Counted`).
* *Worker.* A request is in exactly one place: waiting under its own key, in hand,
  processed, or failed; a key that is processed is active.
* *Backend.* The active run is exactly the one whose program has begun and is not
  finalized (`ActiveIsLive`); the tasks in the queue of the mutex are due; while the
  backend is wanted somebody is going to start it, or has (`SomebodyStarts`).

*Only model-checked:* the liveness properties, `FollowerIsCurrent` among them, since
the prover has no rule for fairness; and `NoMixedHistory`, which is violated. Of a
safety property nothing is left to TLC alone.

*Induction.* What the log, the tables and the read models are, is defined by folds and
by the last event of a kind. No theorem with an operator as a parameter can be used, so
an induction is stated with sets: every set of natural numbers that is not empty has a
least member (from `WellFoundedInduction`), hence a set that holds 0 and the successor
of each member holds every number (`SetInduction`).

## Known disagreements

Where the code does not do what its docs or tests say, or what one would expect, the
models follow the code. Met while modelling:

* A thread deleted and created again while it is open: see the violated run.
* *Supervised restarts.* A restart that fires while a start resolves its configuration
  and a stop waits for the mutex starts the backend after the stop
  (`DesktopBackendManager.ts:1016-1027`); `stop` cancels only a restart that has not fired (a test, `DesktopBackendManager.test.ts:1458`, says a stop cancels it).
* *Preflights.* Fatal and transient preflight failures share one counter with two
  limits (`:756-774`): a fatal failure after transient ones can exceed its limit at once, and the
  backend stops without `onPreflightFailed`.
* *Settlement after a restart.* The read model is loaded without activities, so a
  settlement by hand is accepted over an approval that is still open in the database
  (`decider.ts:476`, `:1775`).
* *Status of a resubscribed thread.* `threads.ts:663-665` says that a resubscription
  shows progress "until confirmed". The marker that confirms carries no identity; one
  of the previous attempt that waits in `switchMap`'s buffer confirms the new one. Only
  the status is affected; `MarkerMeansCaughtUp` says what the marker does promise.
* *Uploads.* A request copies its upload before its command is queued; a revert or a
  deletion in between removes the copy, and the message is committed without its file
  (`Normalizer.ts:205`).
* *Bootstrap.* Between its fence and its set-up script a bootstrap does not look whether
  the thread was deleted again (`ws.ts:1098`).
* *Local status.* The local half of a directory's status is written without the lock, so
  a slow read can replace a newer one.
* *Followers of an unchanged entry.* A registration that installs the same entry again
  replaces its supervisor, which a follower does not notice (`registry.ts:320`,
  `Stream.changes`); `FollowerIsCurrent` excludes it.
* *First status.* A test is titled "does not start automatic remote refreshes without
  foreground client demand" (`VcsStatusBroadcaster.test.ts:892`); the first refresh of a
  poller runs whatever the background policy says (`VcsStatusBroadcaster.ts:543`). The
  test's follower leaves after its snapshot, so what it asserts does not contradict
  `EveryFollowerLearns`, which rests on that first refresh.
* *Coalescing worker.* A key that is fed without pause keeps the others waiting
  (`KeyedCoalescingWorker.ts:44`).

## What is not modelled

`PROJECT.json` lists each component with its reason. In short:

* *In the modelled parts:* decider rules of checkpoints, proposed plans and the order of
  threads; metrics, tracing and log lines; SQL (a transaction is atomic and isolated);
  message texts and payload sizes (budgets count items); windows of older turns and
  archiving in `ThreadSync`; inline attachments; the reactor that starts a session on
  its own schedule in `ThreadDeletionReactor`; credentials and caches in
  `EnvironmentRegistry`; the local half and `getStatus`, which nothing but tests calls, in
  `VcsStatusBroadcaster`; the pool of backends.
* *Turns and checkpoints.* Runtime ingestion and the checkpoint reactor were read and
  left out. The first depends on the contents of provider events. The second races in
  many ways, a placeholder with a capture, a revert with its own partial failure, and
  counts turns by checkpoints; its docs promise nothing about these that a model could
  be held against.
* *A timing assumption:* in `ThreadSync` a local fiber that is ready runs before a
  response arrives from the network. Without it a buffered snapshot of an earlier
  attempt could be applied after a newer one.
* *Not for a model checker:* rendering, parsing of external protocols, tools run as
  processes, generated schemas, build scripts, migrations. They are by far the most of
  the repository's lines.

## What could come next

1. `ThreadHistoryPaging` beside `ThreadSync`: windows of older turns with the epoch and
   the watermark of a parked page, and two disruptions in a row.
2. `TerminalSessions` over `KeyedCoalescingWorker`, and the preview broker's pending
   requests.
3. `CheckpointRevert`, once it is settled what a revert that fails half-way is to leave.
4. A composition of `ThreadSync` with the engine, whose publications may lack an event
   after a reconciliation that itself fails, to say what a client then misses and until
   when.

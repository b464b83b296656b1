# Drive Collector in TLA+

Drive Collector is a Node service: a Telegram bot takes files that users send it and
moves them to a cloud drive.  Several instances of it run side by side.  They share a
SQL database behind an HTTP API (Cloudflare D1), a cache (Redis, Valkey, Upstash or
Cloudflare KV) and a message queue that calls back over HTTP (Upstash QStash); every
step of the program is an `await` on one of them.  What is hard to get right in it is
not an algorithm.  It is which of several callbacks, processes and retries writes
last.

This directory holds TLA+ modules of the program, the TLC configurations that check
them on small instances, and theorems about them with proofs for TLAPS.
`PROJECT.json` lists the runs, which definition models which lines (`map`), the hazards
and the properties aimed at them, and the places where the code does something else than
a comment, a document or a test says (`findings`).  All paths below are relative to the
repository's `src/`, unless they start with `docs/` or `__tests__/`.

- [Components](#components)
- [Modules](#modules): what each models, and how its state and actions correspond to the code
- [Runs](#runs): what each checks and shows, bounds, fairness
- [Proofs](#proofs)
- [Where the code disagrees with what is said of it](#where-the-code-disagrees-with-what-is-said-of-it)
- [What is not modelled](#what-is-not-modelled)
- [Plan](#plan)

To run something:

    tlc -workers 2 -config MCTask.cfg MCTask.tla
    tlapm TaskProofs.tla

## Components

### How the parts interact

A task goes through the program like this.  An update of Telegram reaches the one
instance that holds the client (`telegram_client` lock) and is deduplicated by
`MessageHandler`; the dispatcher's guard lets it pass or not, and a dialogue with the
user (binding a drive, confirming an action, entering a path) may have to end first.  A
file becomes a task, several files of one album become one group (`MediaGroupBuffer`).
`TaskManager.addTask` inserts a row (task repository) and publishes a message (queue,
through a rate limiter and a circuit breaker).  QStash calls the download webhook of some
instance; the webhook router sends it on to the leader.  The leader takes the lock
`task:<id>` and writes its claim on the row together with the status `downloading`.  A
background execution then downloads the file (from Telegram, under its call limits, or
from a link), or streams it to another instance or straight into `rclone`, keeps the row
alive with heartbeats, moves the row to `downloaded` and publishes the message for the
upload webhook, which works in the same way and ends in `CloudTool.uploadBatch`.  Each
of the later writes is *fenced*: `UPDATE ... WHERE status = ? AND claimed_by = ? AND
claim_lease_id = ?`.  The leader looks for rows that nobody wrote for two minutes and
puts them back in the queue.  Locks, leases, sessions, settings and the list of running
instances are in the cache, behind copies in the processes; configuration can change
while the process runs; a shutdown drains tasks, then closes what they use.

### What each part keeps, and what makes it correct

| component | code | state | must hold |
|---|---|---|---|
| task state machine | `domain/task-state-machine.js` | a table | every move of every caller is in it; what completed or was cancelled stays so |
| task repository | `repositories/TaskRepository.js`, `services/d1.js` | rows of `tasks`; copies of the status | a fenced write hits only a row that still carries the claim; what a call reports really happened, whatever was sent twice |
| task manager | `processor/TaskManager.js`, `processor/TaskManager/*.js` | executions, files, the scan | a row is claimed exactly while it is worked on; a task ends, although messages, leases, locks and processes go |
| media group tasks | `processor/TaskManager.js` | rows of one group with a copied list | the answer to a cancel, and to a failed addition, is true |
| external links | `processor/TaskManager/TaskManager.external-download.js` | a `.part` file, the fenced finish | what is handed on is whole and from an address that was checked |
| critical locks | `services/InstanceCoordinator.js` | a cache entry with a TTL, a renewal timer | a lease protects its holder until it ends; an id that was taken off never comes back |
| distributed lock | `services/DistributedLock.js` | a versioned entry with a heartbeat | one job at a time without an expiry; only the owner or a clean-up removes a live version |
| queue | `services/queue/QstashQueue.js`, `CloudQueueBase.js`, `services/QueueService.js` | published keys, publishes in flight, dead letters, a buffer under a mutex | nothing acknowledged or forgotten that QStash does not have; every publish is answered |
| circuit breaker, rate limiter, call limits | `services/CircuitBreaker.js`, `utils/RateLimiter.js`, `utils/limiter.js` | counters, tokens, cooling times | late outcomes are counted right; everybody waiting is served, in turn |
| media group buffer | `services/MediaGroupBuffer.js` | buffer, markers, timers in the cache | no message of an album is lost or enqueued twice, but for named causes |
| stream transfer | `services/StreamTransferService.js` | a staging file, or an `rclone` fed as chunks come; owner record, status | chunks stay in order; success is said only of a whole file that is there |
| direct transfer | `services/DirectTransferService.js` | a staged and a final remote name | only whole files get the final name |
| rclone uploads | `services/rclone.js`, `services/drives/*.js` | a process for each attempt; the form of a password; a renewed session | success means stored; a right password is found; a login lasts |
| drives, dialogues, guard, inbox | `repositories/DriveRepository.js`, `modules/*.js`, `dispatcher/*.js` | rows, copies, one session for each user, messages seen | copies follow the rows; an action is carried out once and as confirmed; a ban is in force; an update is handled once |
| cache and what is built on it | `services/CacheService.js`, `services/cache/*.js`, `ConsistentCache.js`, `StateSynchronizer.js`, `BatchProcessor.js` | three tiers, providers, failover; views of other instances' data; batches | a node reads its own writes; a provider in use is open; locked writes do not mix; the queue of batches goes on |
| Telegram client | `services/telegram.js`, `dispatcher/bootstrap.js` | client, lease, watchdog, recovery | an update is handled once, and once more for each reload; without the lease the client goes; a lasting leader serves |
| webhook router | `webhook/WebhookRouter.js` | requests that were sent on | what QStash is told is done is done |
| life of a process | `services/GracefulShutdown.js`, `utils/lifecycle.js`, `bootstrap/*.js`, `index.js` | hooks, running tasks, timers | a shutdown ends, the cache outlives what needs it, a failure shows |
| instance list | `services/InstanceCoordinator.js`, `services/tunnel/*` | rows with a TTL, timers | it shows the running instances and in the end only those |
| configuration | `config/index.js`, `services/secrets/*`, `config/ServiceReinitializer` | secrets, environment, services | a change comes to the process and to the service that depends on it |
| schema | `database/schema.js` | tables, backups, a lock | a migration keeps the rows, wherever it stops |
| failover, ordered shutdown | `services/SmartFailover.js`, `services/EnhancedGracefulShutdown.js` | nothing imports them | see their modules |

`PROJECT.json` lists 39 components with what is modelled of each; those that are not
modelled at all are named [below](#what-is-not-modelled).

## Modules

```
 TaskStateMachine            statuses, events, the table
   |-- TaskLifecycle         the rows seen from outside: atomic moves (abstract)
   |-- TaskStore             transitionStatus with its awaits   implements TaskLifecycle
   |     `-- TaskProofs        (also of StreamTransfer)
   `-- TaskProcessing        one task through TaskManager, which takes a call of TaskStore
         |                   for one step
         `-- TransferProofs    (also of DirectTransfer, LiveStream and SmartFailover)
 InstanceLock                the lock and the lease of TaskProcessing, in detail
   `-- DispatchProofs        (also of AccessGuard, WebhookForward,
                                ExternalDownload, TaskGroup, Drives and Inbox)
 QueuePublish                what an enqueue of TaskProcessing is, in detail
   `-- TaskProofs
 DistributedLock             the lock of MediaGroup, in detail
   `-- RecordsProofs         (also of CacheTiers, SyncViews,
                                DriveSession, RcloneUpload, Batch
                                and CircuitBreaker)

 MCTask       = TaskStore (twice) + QueuePublish
 MCDialog     = Dialog + InstanceLock + Inbox + AccessGuard + WebhookForward + ExternalDownload
 MCData       = Schema + Drives + TaskGroup + DriveSession + RcloneUpload
 MCTransfer   = StreamTransfer + LiveStream + DirectTransfer + SmartFailover
 MCRecords    = CacheTiers + Batch + SyncViews + DistributedLock
 MCServices   = CircuitBreaker + RateLimit + FloodControl + CacheProviders + QueuePublish
                + ConfigReload + OrderedShutdown
 MCLifecycle  = Shutdown + InstanceRegistry
 MCMediaGroup = MediaGroup
 TaskProcessing, TelegramLeader, QueueBuffer are run as they are
```

An `MC` module gives small sets to its components and puts several of them in one run:
it EXTENDS or INSTANCEs them, each with its own variables.  The variable
`part` names the component a behaviour is of; it is chosen at first and the variables of
the others stand still, so that a run explores the sum of its parts and not their
product.

How they fit: `TaskProcessing` takes a `transitionStatus` for one step.  That is an
abstraction of a call with several awaits; `TaskStore` has the awaits, and shows (by
TLC and by proof) that whatever calls overlap, the rows behave as `TaskLifecycle` says,
that is, as if each call were one step.  Likewise `TaskProcessing` takes a lock that may
be lost at any time and a queue that may lose and repeat messages; `InstanceLock` and
`QueuePublish` say what is behind these.  `MediaGroup` takes a lock that one job holds and
that may expire under it; `DistributedLock` shows that this is what it is.

Two conventions run through all modules.  A variable marked *history* records what
happened and feeds no action; it lets a property name its exceptions ("unless the
lock had ended"), each of which TLC shows to be needed.  And everything between two
`await`s of the code is one step.

### TaskStateMachine, TaskLifecycle

The constants `Statuses`, `Events`, `AllowedFrom` and `TargetStatus` are the table
`TASK_TRANSITIONS`.  `TaskLifecycle` is the abstract specification of a set of rows: a
row is inserted once (`Insert`), then moves along the table one step at a time (`Move`);
a claim is taken or kept while the task is worked on, and gone when it is queued or has
ended.

### TaskStore

One *call slot* `c` is a call of the repository in flight; `pc[c]` says which await it
is at and `call[c]` holds its locals.

| model | code |
|---|---|
| `rows[t]`: status, `stamp`, `claim` | `status`, `updated_at`, the pair `claimed_by`, `claim_lease_id` |
| `view[t]` | the copies of the status in cache and synchronizer, TTL 300 s |
| `Begin` | `transitionStatus` up to its UPDATE: read, `resolveTransition`, `_nextTransitionTimestamp` |
| `BeginLiveness` | `refreshActiveTaskLiveness` up to its UPDATE |
| `UpdateHits`, `UpdateMisses` | the answer of the UPDATE: one row changed, or none |
| `UpdateAnswerLost`, `UpdateThrows` | `D1Service` sends the statement again after a lost answer, and throws after the last |
| `Reread` | the second SELECT and the verdict: success because the row is there already (`raced`), `stale` claim, `blocked` |
| `SyncDerivedTaskState` | `_syncDerivedTaskState`, after the row was written |
| `Create`, `UpdateMetadata` | `create`, `updateFileMetadata`, `updateSourceRef` |
| `Crash` | the process dies between two awaits |

`seen[c]` and `spent[t]` are history variables: what the row was during the call, and
the queue attempts a worker has used up.  A message is not in this module; an attempt
is used up when a row leaves `queued`.

### TaskProcessing

One task; `exec[x]` is a webhook handler that becomes a background execution, at one of
these places:

    lock -> start -> setup -> download -> (stream | mtproto) -> commit -> enqueue -> release
                       `----> upload -> validated -> cleanup -> release
                              any of them -> recover / commit with "fail"

| model | code |
|---|---|
| `row`, `quiet` | status and claim; not written for `STALLED_RECOVERY_TIMEOUT_MS` |
| `queue[k]` | messages of that kind in QStash; delivered by `Deliver`, again by `Redeliver`, dropped by `Lose` |
| `leader`, `lease` | holder and lease number of `telegram_client` |
| `lock` | the instance in `task:<id>` |
| `files` | instances that have the downloaded file |
| `agent["user"]`, `agent["scan"]` | `addTask`, `retryTask`, `cancelTask`; `_runStalledTaskRecovery` with `_restoreBatchTasks` |
| `Handle`, `AcquireLock`, `TakeStaleLock`, `LockBusy`, `Start`, `StartBlocked`, `RepairUpload`, `Launch`, `UploadWithoutFile`, `SetupFails` | `handleDownloadWebhook`, `handleUploadWebhook` until they answer |
| `Heartbeat` | `createHeartbeat` and what each caller does when it throws |
| `Conclude`, `Commit` | `assertClaimFenceCurrent`, later the fenced transition |
| `NothingToDownload` ... `TransferFails`, `TransferInterrupted`, `MediaUnreadable`, `Recover` | the phases of `downloadTask` and `uploadTask` and their `catch` blocks, and their early return when the message has no medium |
| `CleanUp`, `Release` | the unlinking of the local file; the `finally` block |
| `GoesQuiet`, `ScanRead`, `ScanReset`, `AgentEnqueue`, `EnqueueFallsBack` | the recovery of stalled tasks |
| `RetryTask`, `RetryUnlock`, `RetryTransition`, `CancelTask`, `CancelTransition`, `AddMarkFailed` | the user |

Faults, unlucky races and commands are *incidents*: each takes one of `MaxIncidents`.
That bounds them without deciding when they happen, and makes "finitely many faults"
an assumption of liveness that one can read.

Abstractions to know of: the reads of lease and row at the start of a handler are one
step; an instance that is not the leader leaves the message in the queue (503); a
`cancelTask` whose transition throws leaves its flag set, which is not modelled; the
answer of a `transitionStatus` call is exact, while lost answers are in `TaskStore`.

### InstanceLock, DistributedLock

`InstanceLock` is one critical key.  The cache's `compareAndSet` and `deleteIfEquals` are
atomic; reads are steps of their own.  `entry` is the value with the time its TTL ends.
`w \in Workers` is a job between `acquireTaskLock` and `releaseTaskLock` on instance
`Home[w]`; two jobs of one instance share the lock, the timer (`timer`) and the renewal in
flight (`renewal`), because the code identifies a holder by its instance.
`TryAcquireRead/Set` are `_tryAcquire`, `StartTaskLockRenewal` reads the lease after it,
`RenewStart/Read/Set/Fails` are the interval and `renewLock`,
`ReleaseTaskLock/ReleaseLockRead/DeleteIfEquals` the release, `ReleaseStaleRead` the stale
release by anybody.  An answer can be lost after the cache has the value (`TryAcquireSet`
with the caller back at idle).  Time moves by `Tick`.

`DistributedLock` is the other lock, with a version, a heartbeat count and a clean-up of
expired entries.  Its reads come from a first-level copy (`lockL1`); `lapsed` is the set
of lock values whose `expiresAt` is over, so that no clock is needed; `beating` are the
interval timers that run, which outlive `local` (what `release` can still clear).

### QueuePublish, QueueBuffer

A call of `_publishWithIdempotency` goes through the awaits of Redis, of the request and
of the cache; calls of one process join a publish of the same key that is in flight
(`Join`, `Answer`).  `processed` is the bounded set of the process, `redis` the shared
record, `accepted` what QStash has taken, `dlq` and `stored` the dead letters in memory
and in the cache.  `RawClient` says whether `redisClient` is the provider's own client, or
the wrapper around `CacheService` that is used for providers without one, whose `del`
writes an empty value.  `SendFails` is a publish that ends with an error after its retries,
taken by QStash or not; `Retry` is `retryDeadLetterMessage`.

`QueueBuffer` is what is in front of it with batching on: `_addToBuffer`, the timer, the
microtask of a full buffer, `_flushBuffer` and `clearBuffer`.  `lock` is `bufferMutex`
with its queue of waiters; a publish that was collected keeps the mutex until its promise
is settled, as `runExclusive` awaits what its callback returns.

### CircuitBreaker, RateLimit, FloodControl

`CircuitBreaker.execute` is `Execute` (check, maybe half-open) and later `Succeed` or `Fail`
in whatever state the breaker is by then; `ForceOpen`, `ManualReset`, and `CoolDown` for
the time-out.  The clock is one bit: whether the time-out since the last failure is over.

`RateLimit` is `RateLimiter`: tokens, a window counted from the last refill (`age`, so
that time needs no bound), `waiting` callers, the drain timer and its microtasks, and
`updateConfig` under way.  `FloodControl` is `handle429Error` around the auto-scaling
limiter: `cooling` is `globalCoolingUntil`, `remote` its copy in the cache that other
processes set, a tick is 30 seconds.

### TelegramLeader

One instance against others (`LeaseEnds`, `OtherTakes`, `OtherLeaves`).

| model | code |
|---|---|
| `manager[g]`, `now` | the `DispatcherManager` of each generation: `stopped`, `isClientActive`, `isClientStarting`, `runtimeClient`, retries; the current one |
| `loop[<<g, k>>]` | its call of `startTelegramClient` for `start` and its retries, for the interval, or for the retry after a disconnection |
| `client`, `connected` | `telegramClient` of the service; which client objects are connected |
| `handlers`, `inherited` | how often `MessageHandler` listens to `client`; (history) how often when the last reload found it |
| `Begin`; `Acquired`, `NotAcquired` | a timer fires; the answer of `acquireLock`, with `disconnectLostLockClient` |
| `Try`, `Made`, `Started`, `Saved`, `StartFails`, `Attempt` | `tryConnectClient`: `getClient`, `client.start`, `saveSession`, the next round |
| `Returned`, `Listen`, `Ensure` | the caller goes on; `ensureTelegramRuntimeStarted`, with or without a client to wait for |
| `Look`, `Tend`; `Recover`; `BreakerTimer` | the watchdog before and after its awaits; `handleConnectionIssue`; the half-open timer |
| `StopDispatcher`, `StopRuntime` | the two stop hooks |
| `Reload` | SIGUSR2: `startDispatcher` stops the manager and makes a new one; the client, its listeners and the calls of the old manager go on |

A client is a number, so that what a manager listens to can be told from the client that is
there now.  The reload runs no stop hook of these two, because `register` keeps only function,
priority and name of a hook and drops its `requiresCleanup` (`GracefulShutdown.js:55`); so the
listener of the manager that went stays on the client, and the new manager adds its own.  The
property says exactly that: one listener, and one more for each reload that found one.

### MediaGroup

One group.  `add[a]` is a call of `add` between its awaits (`Mark`, `AppendRead`,
`AppendSet`, `AppendBlind` after the last failed attempt, `Schedule`); everything that
starts a flush (timers, queue event, stale clean-up, retry, full batch, restore) makes a
job `j` that takes the lock and goes through `CheckLock`, `GetBuffer`, `Send` or
`SendFails`, `CleanBuffer`, `CleanTimers`.  Reads come from `bufL1`.  `Mark` may find the
marker of an earlier delivery gone (it lasts a minute), and `BufferExpires` is the end of the
buffer's own time: an hour after a compare-and-set, but a minute after a plain `cache.set`
(`MediaGroupBuffer.js:286`, `:384`).  The history variable `added` holds every message that a
call has put in the buffer or found there, for good, so that a loss shows whenever it comes;
`excused` and `doubt` hold what may be missing or doubled and why.

### StreamTransfer, LiveStream, DirectTransfer

`StreamTransfer` is one task, sent by `_handleStreamForwarding` (`att[a]`, one attempt for
each claim) to one worker: requests are in `net` and may arrive after the sender gave
them up; `busy` is the request under `_withTaskLock`; `ctx[c]` are the worker's context
objects, of which `active` is in `activeStreams`; `staging` is the file with a torn
rest.  The upload after the last chunk runs outside the lock (`CheckStaging` to
`SaveEnd`), as do `CleanStaleStreams` and `WorkerDies`.

`LiveStream` is the mode in which the chunks go into `rclone rcat` as they come, with the
events of the process as steps (`Stores`, `Dies`, `ErrorEvent`, `CloseEvent`), and
`DirectTransfer` the transfer from here: each attempt feeds an `rclone` that writes to
a staging name, looks at the final name, and moves.  `rclone` is external in both: one
that is killed may still store what it has.

### DriveSession, RcloneUpload, Drives, Schema, TaskGroup

`DriveSession` is a Proton drive: the dialogue's last answer (`Answers`, `Validates`,
`Creates`), a transfer's login (`LogsIn`, `Keeps`), its own configuration file, a renewal
by `rclone` (`Renews`, which ends the older session at the server), and the write-back when
it ends (`Ends`, `Looks`, `WritesBack`).  `RcloneUpload` is `uploadBatch` with its
attempts, and `_resolveVerifiedRclonePasswordConfig`, which tries the forms a stored
password may have.  `Drives` is the repository of drives with its three kinds of copies;
each of its calls reads, writes its row, and drops or fills copies in steps of their
own.  `Schema` is a migration: the lock, the versions recorded, and `rebuildTableForD1`
statement by statement, of one table (`Clean`, `DropTemp`, `CreateTemp`, `CopyRows`,
`DropBackup`, `RenameMain`, `RenameTemp`, `DropOld`).  `TaskGroup` is `addBatchTasks`,
`cancelTasksByMsgId` with its copied list, and the scan, of one media group.

### Inbox, AccessGuard, Dialog, WebhookForward, ExternalDownload

`Inbox` is `MessageHandler`: deliveries of a message to instances, the bounded memory of
each, and the message lock.  `AccessGuard` is a setting (a role or the mode) behind the
copies of the instances; a reader reads and fills, a writer writes and then settles its
own copy.  `Dialog` is the session of one user with the updates handled side by side
(`hand[h]`: what a handler does and the session it has read); `session.ver` tells a
session that was written in between from the one read.  `WebhookForward` is a message
of QStash with its tries, at the front instance and, sent on, at the leader.
`ExternalDownload` is a link resolved, checked, dialled and streamed, by executions
that use the same two file names.

### CacheTiers, CacheProviders, SyncViews, Batch

`CacheTiers` is one key over the copy of each process, the provider and the file; each of
`get`, `set`, `delete`, `compareAndSet` and `deleteIfEquals` is a call of several steps; the
value is the number of the write that made it.  `CacheProviders` is which provider the
cache works with: the start, failover mode, the two checks of recovery, a switch.
`SyncViews` has one key of `ConsistentCache` and one of `StateSynchronizer` with copies of
60 ms, events and locks.  Its locks are best-effort locks of `InstanceCoordinator`: one may
end under its holders at any time (`LockEnds`: 30 seconds that nobody renews, an owner who is
not listed), belongs to the instance and not to a call, and is given back by the end of any
call of that instance (`Finishes`); `overdue` has the calls that go on without it.  `Batch` is `BatchProcessor`: queue, workers, records in the
cache, and who wakes the queue.

### Shutdown, OrderedShutdown, InstanceRegistry, ConfigReload, SmartFailover

`Shutdown` is `main` with its initializer and `GracefulShutdown`: `boot` is the step of the
start, `stage` that of `shutdown()`, `hook` the next clean-up hook.  `OrderedShutdown` is
the hooks with dependencies of `EnhancedGracefulShutdown`.  `InstanceRegistry` has the rows
of the instances and all timers of the coordinator in ticks of 30 seconds.
`ConfigReload` has two fetches, one by the timer and one by hand, and the reloads they
start.  `SmartFailover` is requests, retries, checks of health and removals; everything
between two awaits is one step.

## Runs

All passing runs complete: the bounds limit the state space, nothing is sampled.

| run | module | question | bounds |
|---|---|---|---|
| `task_records` | `MCTask` | Do overlapping calls on a row keep it within the life cycle and report what happened? Is a message that was acknowledged or forgotten with QStash? | 1 task, 2 calls, 2 claims, each UPDATE sent up to twice, stamps up to 4 (retries: 1 claim, clock 0..1, stamps up to 3); 2 processes, 2 callers, 1 key, limits of one, 2 faults |
| `processing_faults` | `TaskProcessing` | Is a row claimed exactly while it is worked on, does an ended task stay ended, and does a task end? | 2 instances, 2 executions, 2 messages of a kind, 3 leases, 2 incidents of any kind |
| `leader` | `TelegramLeader` | Is an update handled once, and after a reload twice at most, does a client without the lease go, does a lasting leader serve? | 4 clients, thresholds and retries of one, 2 calls of `start`, 2 calls at a time, 1 reload, 2 faults |
| `media_group` | `MCMediaGroup` | Does every loss and every double enqueue have one of the listed causes? | 2 messages on 2 instances, 2 flushes, 1 queue event, 2 errors to give up, 1 incident |
| `dialog` | `MCDialog` | Is an update dispatched once, a setting in force, an action carried out as confirmed, a webhook done that was acknowledged, a downloaded file whole, a lease honoured? | 2 handlers, 2 dialogues, 6 updates; 2 messages delivered twice to 2 instances, 1 fault; 2 readers, copies of 2 ticks, 2 changes; 3 tries, 2 moves, 1 lost answer; 2 executions, 2 chunks, 1 redirect; 3 jobs on 2 instances, TTL 2, clock 0..2, 2 leases |
| `data` | `MCData` | Do migrations keep rows, copies follow rows, answers about a group hold, logins last, successful uploads have stored? | 2 runners, 1 row, 1 fault, 1 lock that ends early; 2 calls with 2 writes; 2 tasks, 2 presses, 1 scan, 1 fault; 2 transfers, 2 dialogues, 3 sessions; 2 uploads of 3 attempts |
| `lifecycle` | `MCLifecycle` | Does a shutdown end, in order, with the right exit code? Does the list show the running instances? | 1 request, 2 calls to stop or reload, 2 drain checks; 2 instances (1 with a tunnel), TTL 3 ticks, 2 starts, 1 failed write, 1 address |
| `records` | `MCRecords` | Does a node read its own writes, a batch get processed once, a locked set stay alone, a lock have one holder? | 2 calls on 2 nodes, 2 writes, 1 fault; 3 batches of 2 items, 2 workers; 2 writers, 3 versions of the state or 2 of the key; 2 jobs, 1 renewal, 1 expiry |
| `transfer` | `MCTransfer` | Is what is staged in order, what is reported as stored there, nothing left over? | 2 attempts, 2 chunks, 2 contexts, 1 retry, 1 incident; 2 pipes, 3 upsets; 2 transfers of 1 and 2 chunks with 2 attempts, 2 troubles; 2 servers, 2 requests |
| `services` | `MCServices` | Do waiting calls come through, does the breaker count right and close, does the cache take the best provider, does a change arrive, do hooks keep their order? | 3 calls, thresholds 3 and 2; 3 requests, window 2; 2 tasks, 2 floods; 2 providers, 2 outages; 2 callers of a key; 2 edits, 1 error; 4 hooks, 2 signals |
| `queue_buffer` | `QueueBuffer` | Does a buffered publish end? (It does not: a finding.) | 3 callers (1 direct), batches of 2, 1 fault |

**What the properties say.**  A property that a run checks is often a conjunction; each
conjunct is defined and commented in its module, with its exceptions.

| property | its parts |
|---|---|
| `StoreSafe`, `ImplementsLifecycle` | types and released claims; the rows implement `TaskLifecycle` |
| `AnswersWereTrue` | `SuccessWasTrue`, `StaleWasTrue`, `RetryAttemptAdvances` |
| `QueueSafe`, `QueueSteps` | `MarkedIsAccepted`, `OneRequestPerKey`, `DlqWithinLimit`; `AckIsDurable`, `DeadLetterKept` |
| `ProcessingSafe`, `EndedStaysEnded`, `TaskEnds` | a claim exactly while at work; an ended task is not written back to work by an execution that shares its lease; (liveness) a task ends |
| `LeaderSafe`, `LeaderMoves` | `HandledOnce`; (liveness) `StaleClientLeaves`, `LeaderServes` |
| `GroupsKept` | `LossNeedsRace`, `DoubledNeedsCause` |
| `DialogSafe` | `ConfirmedOnce`, `DriveIsWanted` |
| `InboxSafe`, `GuardSafe`, `RouteSafe`, `LinkSafe` | `DispatchedOnce`, `SomebodyDispatches`; `InForceAfterTtl`, `OwnChangeHolds`; `AcknowledgedIsDone`, `DoneAgainNeedsLoss`; `HandedOnIsWhole`, `DialledIsChecked`, `NoPartLeft` |
| `LeaseSafe`, `LeaseSteps` | `LeaseHonoured`; `LeaseNeverReturns`, `FreshLockNotForced` |
| `SchemaSafe`, `DrivesSafe`, `GroupSafe` | `RowsExist`; `CopiesAreRows`; `RefusedIsEnded`, `YesIsCancelled` |
| `SessionHolds`, `UploadSafe` | `NoCodeKept`, `LastingLogin`, `RenewalIsKept`, `UnboundStays`; `SuccessIsWhole`, `RightPasswordIsFound`, `VerifiedWasAccepted`, `CancelledIsTold` |
| `ShutdownHolds`, `RegistryHolds` | `CacheOutlivesTasks`, `FailureIsReported`, (liveness) `ShutdownEnds`; `RunningIsListed`, and (liveness) `GoneIsForgotten`, `OneLeaderAtLast`, `AddressIsListed` |
| `CacheHolds`, `BatchSafe`, `ViewsHold`, `LockHolds` | `ReadYourWrites`; `StallNeedsDrop`, `CompletedOnce`; `CopiesAgree`, `LockedSetsAlone`; `HolderIsStored`, `LiveLockHonoured` |
| `StreamSafe`, `LiveSafe`, `DirectSafe`, `FailoverSafe` | `StagedInOrder`, `SuccessMeansCompleted`, `OneUpload`, `WaitIsFed`; `PipedInOrder`, `CompletedIsWhole`, `NoOrphan`, `EndIsReported`; `FinalIsWhole`, `StoredIsThere`, `NothingLeftBehind`; `CountIsRequests`, `ActiveIsRegistered` |
| `BreakerSafe`, `OpensOnFailures`, `Recovers` | counters within thresholds; a closed breaker opens on consecutive failures; (liveness) it closes |
| `CallsComeThrough` | `InTurn`, `Served`; `CoolingHonoured`, `CallsEnd`; `CallReturns` (partly liveness) |
| `ProvidersHold`, `ChangesHold` | `FirstIsTaken`, `InUseIsOpen`, `OthersAreClosed`, `FailoverEnds`; `LoggerFollows`, `EnvCatchesUp`, `DependenciesFirst`, `ExitIsReached` (partly liveness) |

**Why these bounds.**  The hazards are races of two parties and the effect of one or two
faults on them, so two of a kind and one or two faults is the least that shows them.
Where more is needed it is this:

- *Rows*: two overlapping calls are one that read and one that writes in between; the
  second claim is the one that takes over.  While the clock stands still a stamp is
  always the one read plus one, which gives the most collisions; the retries have a
  clock that moves and metadata writes that put the plain clock into the row.  No call
  touches two tasks.
- *Queue*: limits of one make every insertion hit them; the callers share a promise
  when they are of one process and race through Redis when they are not.
- *Lock*: two jobs on one instance and one on another is the smallest case with both
  sharing and contention; with a TTL of two a lease can end, be taken by the other
  instance and be looked at by the first.
- *Processing*: two executions are a worker and whoever disturbs it; the scan and the
  user are further actors.  `OneFirstLeader` fixes who leads first, as instances are
  interchangeable.
- *Leader*: four clients are one that is stale, one in use and one that each call can still make;
  two calls at a time are the two that race, of one manager or of two; a fault besides the
  reload is what the second listener needs to do harm.
- *Transfers*: two chunks have a first, which opens, and a last, which closes.
- *Batches*: one more than may be active and wait, so that the wake-up matters.
- *Breaker*: the thresholds of the queue, with failures to open it twice.
- *Schema*: one row suffices since rows of a table move together; a crash, a second
  runner and a lock that ends are each there once.

`CHECK_DEADLOCK FALSE` stands in every configuration but `MCTransfer`: bounds on stamps,
clocks, changes or faults end a behaviour there, or the system may rest (a task
ended, a process gone).  In `MCTransfer` resting is an action of its own, and TLC looks
for a transfer that is stuck.

`VIEW TaskView` leaves out what feeds no later step (`result`, `spent`, the status
copies); each step that writes it is still checked against the action properties.
Symmetry is over interchangeable calls, claims, nodes and flushes, and never used in a run with a
liveness property.

**Fairness.**  Faults need none, and only finitely many happen.

- `processing_faults`: executions and commands run on (`WF`), since each step is a
  promise that is settled by a time-out at the latest; QStash delivers a message it has
  (`SF`, because the instance it needs may be without the lease or busy again and again);
  the row goes quiet when nobody writes it; a lock nobody renews expires; some instance
  takes a free lease (every instance polls for it); the scan runs again and again (an
  interval).
- `leader`: timers fire (`Begin`, `Look`, the half-open timer), a call goes on (`Proceed`,
  `Tend`, `Recover`), a shutdown that has stopped the dispatcher goes on to the client.  The
  reload, the lease and the other instances are not fair.
- `services`, breaker: time passes, callers keep calling, and a command that does not
  fail succeeds; a breaker has no timer of its own, without a caller it stays open.
  Limiters: timers and microtasks fire, a call that waits for a slot gets it
  (`SF Run(t)`: another call may take it again and again, but retries are bounded).
  Providers: connections open or are refused, a connection that is to be closed is told so
  (its `quit` need not be answered), the check of recovery is an interval.  Publishes:
  a call that can run on does.  Configuration: the polling timer and a reload go on.
  Hooks: they are begun, or given up at their time-out.
- `lifecycle`: requests are answered and the timers of a shutdown fire (tasks and hooks
  may hang for ever); heartbeats and the watch are intervals.
- `queue_buffer`: requests, timers and microtasks run, so that what is found is a real
  deadlock and not a system that stopped.

## Proofs

The proofs hold for any number of tasks, calls, instances, executions, claims, dialogues or
rows, any thresholds and any value of the bounds, from the named assumptions on the constants only
(`TaskStoreAssumption`, `TaskProcessingAssumption`, `CircuitBreakerAssumption`,
`InstanceLockAssumption`, `QueuePublishAssumption`, `LeaderAssumption`,
`SchemaAssumption`, `DialogAssumption`, `CacheAssumption`, `LockAssumption`,
`DirectAssumption`, `LiveAssumption`, `SyncAssumption`, `GuardAssumption`,
`RouteAssumption`, `ExternalAssumption`, `GroupAssumption`, `SessionAssumption`,
`UploadAssumption`, `DrivesAssumption`, `StreamAssumption`, `FailoverAssumption`,
`InboxAssumption`, `BatchAssumption`, `MediaGroupAssumption`): types, `NoClaim`
is not a claim, `Nobody` not an instance, bounds are numbers, a file has a chunk, what is
counted is finite.  TLC evaluates them in each run, and checked each
inductive invariant on a small instance before it was proved.

| module | theorem | states | a property of the run |
|---|---|---|---|
| `TaskProofs` | `StoreIsSafe` | `[]StoreSafe` (types, released claims) | `task_records` |
| | `AnswersAreTrue`, `Refinement` | `AnswersWereTrue`, `ImplementsLifecycle`: each step is an `Insert`, a `Move` or a stutter of `TaskLifecycle` | `task_records` |
| | `EndedIsFinal` | `FinalStatuses`: an ended row is not written back to work | |
| `TransferProofs` | `ProcessingIsSafe`, `EndedIsFinal` | `[]ProcessingSafe`, `EndedStaysEnded` | `processing_faults` |
| | `DirectTransfersAreSafe` | `[]DirectSafe` | `transfer` |
| | `LiveStreamsAreSafe` | `[]LiveSafe` | `transfer` |
| | `FailoverIsSafe` | `[]FailoverSafe` (types, `CountIsRequests`, `ActiveIsRegistered`) | `transfer` |
| `DispatchProofs` | `LeasesAreHonoured`, `LeaseStepsHold` | `[]LeaseSafe`, `LeaseSteps` | `dialog` |
| | `OneInstanceInsideLease` | at most one instance holds the lock inside its lease | |
| | `GuardIsSafe` | `[]GuardSafe` (types, `InForceAfterTtl`, `OwnChangeHolds`) | `dialog` |
| | `RouteIsSafe` | `[]RouteSafe` (types, `AcknowledgedIsDone`, `DoneAgainNeedsLoss`) | `dialog` |
| | `LinkIsSafe` | `[]LinkSafe` (types, `HandedOnIsWhole`, `DialledIsChecked`, `NoPartLeft`) | `dialog` |
| | `GroupIsSafe` | `[]GroupSafe` (types, `RefusedIsEnded`, `YesIsCancelled`) | `data` |
| | `DrivesAreSafe` | `[]DrivesSafe` (types, `CopiesAreRows`) | `data` |
| | `InboxIsSafe` | `[]InboxSafe` (types, `DispatchedOnce`, `SomebodyDispatches`) | `dialog` |
| `TaskProofs` | `QueueIsSafe`, `QueueStepsHold` | `[]QueueSafe`, `QueueSteps`, if `RawClient \/ ~UseRedis` | `task_records` |
| | `StreamsAreSafe` | `[]StreamSafe` (types, `StagedInOrder`, `SuccessMeansCompleted`, `OneUpload`, `WaitIsFed`) | `transfer` |
| `MediaGroup` | `GroupsAreKept` | `[]GroupsKept` (types, `LossNeedsRace`, `DoubledNeedsCause`) | `media_group` |
| `TelegramLeader` | `LeaderIsSafe` | `[]LeaderSafe` | `leader` |
| `Schema` | `SchemaIsSafe` | `[]SchemaSafe` | `data` |
| `Dialog` | `DialogIsSafe` | `[]DialogSafe` | `dialog` |
| `RecordsProofs` | `CacheIsRead` | `CacheHolds` (types, `ReadYourWrites`) | `records` |
| | `LockIsHonoured` | `LockHolds` (types, `HolderIsStored`, `LiveLockHonoured`) | `records` |
| | `ViewsAreKept` | `ViewsHold` (types, `CopiesAgree`, `LockedSetsAlone`) | `records` |
| | `SessionIsKept` | `SessionHolds` (types, `NoCodeKept`, `LastingLogin`, `RenewalIsKept`, `UnboundStays`) | `data` |
| | `BreakerAlwaysSafe`, `OpensOnFailuresOnly` | `[]BreakerSafe`, `OpensOnFailures` | `services` |
| | `BatchesAreSafe` | `[]BatchSafe` (types, `StallNeedsDrop`, `CompletedOnce`) | `records` |
| | `UploadIsSafe` | `[]UploadSafe` (types, `SuccessIsWhole`, `RightPasswordIsFound`, `VerifiedWasAccepted`, `CancelledIsTold`) | `data` |

**`TaskProofs`, the row.**  `IInv == TypeOK /\ ClaimReleased /\ CallsInFlight`, where
`CallsInFlight` says what is known of a call between two awaits: it is about a task, its
event was allowed by the table in the status it read, only the two start events write a
claim, and its new stamp is above the one it read.  It is needed because types say nothing
of what a call was allowed to do when it read the row: `ClaimReleased` is preserved by an
UPDATE because a claiming call has a start event, and `FinalStatuses` because a call
whose WHERE clause matches an ended row was checked against the table in that very
status.  For the answers there is a second invariant, `CallsWitnessed`: `seen[c]` holds
what the row is now, and the target status once the call's own UPDATE has changed the row.
The lemma `RowChanges` is the heart: a row changes only in an insertion, in a metadata
write or in the UPDATE of a call that it matches.

**`TransferProofs`, the execution.**  `IInv == RowOK /\ ExecsOK /\ AgentsOK /\ EnvironmentOK`.
`RowOK` has `ClaimMatchesStatus`; `ExecsOK` says that an execution has a lease (not 0, the
missing claim) from reading it to giving up its lock, and has decided on an event when it
is about to write the row.  The lease matters because a fenced write of an execution with
lease 0 would match an unclaimed row and bring it back to work without a claim.  The
lemma behind all theorems is `RowStep`: a step leaves the row alone, or makes a move
that keeps or drops the claim, which is unfenced or made by the claim's holder, or is a
start that replaces the claim.

**`TransferProofs`, the direct transfer.**  `DirectInv` adds to the types and `FinalIsWhole`,
for each transfer, `PipeOK` (once `rclone` is done, its staging file is as long as what was
written to it, and only the attempt under way has an `rclone` that is still storing),
`SentOK` (what was written is the whole file, unless the source ended early), `StageOK` (a
staging file is that of the attempt under way or known to be left behind) and `SeenOK`.
`FinalIsWhole` alone says nothing of what a `Move` puts under the final name: the first
two carry the length from the chunks over the pipe and the staging file to the move.  The
lemma `OtherTransfer` says that a step of one transfer touches of another one's state only what
may be under the final name, and then counts it as `replaced`.

**`TransferProofs`, the live stream.**  `LiveInv` adds to the types that contexts are
opened in order, that the worker under its lock and `activeStreams` know only the one
opened last (`ServingOK`, `CurrentOK`), what each context has been given and how far its
handlers are (`ContextOK`), and, as long as no two crossed, that only the last can be at
work and that the remote file is what it stored, or nothing if it cannot have been whole
(`AloneOK`, `CompletedOK`).  That is what keeps `CompletedIsWhole` after the row says completed:
whoever writes or removes the remote file is a context at work, and once the row says
completed there is none.  The code gives no such order when an
earlier `rclone` is still to end as the next context opens: `crossed` says so, and the
properties are about the other behaviours.

**`DispatchProofs`, the lock.**  `IInv == TypeOK /\ EntryOK /\ ReadsOK /\ DecisionOK /\
LeaseIdsOK /\ LeaseHonoured`.  What a worker or a renewal has read is a value the cache has
held (`ReadsOK`), so that a compare-and-set that succeeds replaces exactly what was
looked at; what it is about to write carries an id that is new or the one it read
(`LeaseIdsOK`, `DecisionOK`).  An id that has left the lock is therefore never written again, and an
instance removes only a lease that has ended, is its own, or is older than
`MinStaleAge`.

**`DispatchProofs`, the settings.**  `GuardInv` adds to the types that the stored value is the
last change; that once time has passed since it nobody holds another value that is still to be
written or copied, and a copy that is not in force is at least as old (`ForceOK`); and, for
each instance, that what it has copied or is about to copy is not behind its own change
(`OwnOK`).  The age is what makes it inductive: `InForceAfterTtl` says nothing of a copy before
its life is over.

**`DispatchProofs`, the message of QStash.**  That work is done again only after a loss is a
count, and `CountOK` keeps it: how often the work was finished, plus the requests that were
given up while the leader goes on with them (`Orphans`), is at most the losses, plus one for
an attempt that was or is about to be told as done.  `InTurn` says that one attempt follows the
other, so that there is one such attempt at most.  The property itself is no invariant of a
step: a request that timed out is a loss first and work done later.

**`DispatchProofs`, the link.**  `LinkInv` follows the two file names of a download.  A part is
of an execution that is still at it or about to remove it, unless there was a death
(`PartOK`); as long as only the holder of the claim has made or removed files, the part is
the holder's from its first look to its renaming, and the file after that (`HolderOK`); what is
handed on is the file of an execution that is done (`DownloadedOK`).  An overtaken execution
may still rename the holder's part, and by `HolderOK` the file it makes is the holder's.

**`DispatchProofs`, the group.**  `GroupInv` rests on one fact: a group's rows are inserted
together, so that what anybody has listed of them, the copy in the cache included, is all of
them or none (`AllOrNone`).  A press that has a list therefore has all tasks, and `PressOK` says
that what it has done so far is cancelled: no scan, publication or execution takes a row
out of that status.

**`DispatchProofs`, the drives.**  `CopiesAreRows` speaks of the time when no call that writes
is under way.  `DrivesInv` says why it comes about: a copy that is not excused is what the row
says, or some call has still to drop it (`Pending`, for the list and the ids, `PendingFor` for
one drive); and what a call is about to copy is what the rows say, as long as no row was
written since it has read (`CallFresh`).  The two lemmas the proof turns on are `CopiesFollow`,
of the steps that leave the rows alone, and `CopiesAfterWrite`, of those that write one: each copy that a
write makes wrong is dropped with it, is dropped later by the writer, or is among the excused.
The run has one type of drive; what the calls on two types do to each other (`wipe`,
`setDefaultDrive`) was checked once with two types and no failing deletion, and the theorem
covers any number.

**`DispatchProofs`, the inbox.**  For each message that is not in `doubled`, `OneHandler` says
that it was dispatched or is in the hand of one handler and not both, that it then still has its
lock, and that the holder of a lock remembers the message: this is why the instance's own lock,
which it may take a second time, does not let a second delivery in.  For each message that is
not in `excused`, `Covered` says that whoever knows the message, or was refused, leaves it to a
handler that works on it or has dispatched it.  How often a message was dispatched is the
number of its copies that are done (`HandlersOK`).  The lemmas about the bounded memory say
what a message that is moved, added, or pushed out leaves of the others.

**`TaskProofs`, the message.**  `QueueInv == QueueTypeOK /\ MarkedIsAccepted /\ (\A c \in Callers :
CallOK(c)) /\ LettersOK /\ DlqWithinLimit`.  `CallOK` says of a call between two awaits what
it may rely on: past its request, that QStash has the message; joined to another's
promise, that this one is in flight for the same key.  The hypothesis `RawClient \/
~UseRedis` is what the code needs: through the cache wrapper the clearing of a failed
publish writes a value, which then counts as a record of a message that QStash may not have.

**`TaskProofs`, the staged file.**  `StreamInv` says in its types that what is staged or stored
is the beginning of the file (`Beginnings`), whoever wrote it.  Then it ties the places
together in which the worker keeps an upload: what is done under the task lock has the
context it found or none any more (`BusyOK`), a context with an open file is the active one,
as far as the staging file, and one that has the last chunk is about to hand it over
(`CtxOK`).  Who says that the file is uploaded finds the row completed (`DoneOK`), which
stays so.  As long as no clean-up forgot an upload, only the active context uploads, and the whole
file (`AloneOK`), unless all is over (`Over`: a completed row, an empty staging file):
that is where a late chunk or a second resume could begin a second upload, and what its
lease check excludes.  `FedOK` says of a sender that waits, or is about to, that an upload is
under way or its end is stored (`Fed`); it must be carried from the last chunk on, over the requests
that others still have under the lock.

**`TransferProofs`, the failover.**  `FailoverInv` adds that a request under way is with
one of the servers.  The counts are kept by two lemmas about the set of the requests at a
server (`OneMoreSent`, `OneLessSent`), for whatever way a try ends.

**`RecordsProofs`, the breaker.**  The invariant adds to the counters' bounds that, while the breaker
is closed, `failureCount` is `streak`, the number of failures since the last success.

**`MediaGroup`.**  Two things are carried together.  Nothing is forgotten
(`NothingForgotten`): a message that a call or a flush has read, however old the reading, is
in the buffer, on its way into it, or accounted for; and what a flush is going to delete
without having sent it is excused from the moment it could be missed (`DeletesAccounted`).
That is `LossNeedsRace`, at every step and not only at rest.  Nothing is doubled as long as
nothing that may double happened (`Calm`): while no lease expired, one flush works
(`HoldsLock`); no two calls add the same message, and what a call adds is new (`OneAdds`,
`AddsNew`); and a message
that was queued is in the buffer only between its enqueue and its delete, under the lock of
the flush that did it, whether that flush lives or died (`QueuedOnce`).  The proof corrected
the types: the error count of the buffer may pass `MaxErrors`, because a flush that gave up
can stop before it deletes and the next one counts on.

**`TelegramLeader`.**  `IInv == LeaderTypeOK /\ WorkOK /\ ReplacedStopped /\ ListenerKnown`.  A
manager remembers the client it listens to, and listens in one step with the look at that
memory: `ListenerKnown` says that the listeners are those of the last reload, or one more, and
then the current manager remembers the client or is stopped.  `ReplacedStopped` says that every
earlier manager is stopped, so that a call that outlives its manager comes to that step and
leaves it without a listener; without it, such a call would add one that nobody remembers.

**`Schema`.**  While no lock has ended under its holder (`slow = 0`) the invariant says
that one runner is between its first statement and its last (`HoldsLock`), what it
relies on at the statement it has come to (`PlaceOK`), and where the rows are: in the
table, or, with an empty table in its place, in the backup or the temporary one
(`RowsPlaced`).  The last is what carries the rows over a crash to whoever goes on.

**`Dialog`.**  A dialogue is of one sort for good (a drive, a confirmation, a path), which
no variable remembers: `IInv == DialogTypeOK /\ \E sort \in Sorts : SortsOK(sort)` says
that there are sorts that fit the session and everything a handler may still write.
`SortsOK` has, for each dialogue that is not torn, that at most one handler acts for it,
only when the action has not run, the session has left it and its button was pressed
(`ActOK`, `RunOK`).  A write makes what the other handlers have read stale (`session.ver`),
so that only the handler whose write was not preceded by another's may go on to act; the
others tear the dialogue, which is the exception the property names.

**`RecordsProofs`, the cache.**  `CacheInv == CacheTypeOK /\ (\A c \in Calls : CallOK(c))
/\ (\A n \in Nodes : NodeOK(n))`.  That the copy is as new as what its node was told
(`NodeOK`) is not inductive by itself: a node's `wrote` grows when a write is
acknowledged, and by then the tiers must hold it.  So `AloneOK` follows a write that no
other overlapped from its start (its own copy holds its value or nothing) over the provider
(which shows it or something later) to its end, and `WriteOK` keeps every write under way
newer than all that were acknowledged; an overlap ends the first and keeps the second.
`ReadOK` says the same of what a get has read and carries over its awaits.  Two lemmas,
`OtherCall` and `WriteLeaves`, say when a step of one call keeps what is known of another.

**`RecordsProofs`, the lock.**  `LockInv` adds to the types that a stealer has seen an
expired value, that what a release is about to delete is its own instance's, and
(`StoredUntilReleased`) that while nothing has expired a job is the stored one not only at
work but until its release ends: that is why a release that goes by the instance, and reads
a copy, cannot take away the lock of the next job.

**`RecordsProofs`, the views.**  `SyncInv` says of a call that holds a lock which has not
ended under it that the lock is its instance's (`LocksOK`), so that two such calls are of one
instance; and, as long
as nothing was disturbed, that a restore under way is alone and without events
(`RestoreOK`), that every event carries the state as it is, and that a copy which is neither
empty nor the state has such an event on its way, or a restore still to tell it
(`CopyOK`).  `CopiesAgree` speaks only of the end; this is what leads there.  The theorem is
about both services running at once, where the run has one at a time.

**`RecordsProofs`, the batches.**  That the queue does not stall is a count: as long as nothing was
dropped, a queue that holds a batch has `MaxActive` batches under way or wake-ups on their way
(`NoStall`).  A batch that ends gives a wake-up for its place, and a wake-up takes a place or
finds none; a batch that queues up when there is room takes it.  For the count to be right the
queue must hold each waiting batch once and `activeBatches` those under way (`LineOK`,
`ActiveOK`).  `LineOK` has also that the urgent batches come first, which the place of a new one
rests on.  Of a pool, `PoolOK` says that an item that was taken is in one hand and not done, or
done once.

**`RecordsProofs`, the session.**  `RenewalIsKept` speaks of the time between transfers.
What leads there is `RenewalComes`: as long as no renewal may have been lost, the row has a
session that the server takes, or a transfer under way will write one back, and every
transfer began with the drive that is there.  `FormOK` has that the session of a binding about to be
stored is nobody else's, because sessions are counted (`Counted`); `TransferOK` what a transfer
brings along to the two steps that write the row.  `UnboundStays` follows from the guards
of each write of the row: all but the binding's update an active row only.

**`RecordsProofs`, the password.**  `UploadOK` follows the candidates of an upload: as long as
the password is the account's and `rclone` could obscure it, the candidate that opens
the remote is still among those left.  The types say what a row can claim: one marked
`plain` is plain, and one marked `verified` has been accepted.  A row with any other mark, or
from before the marks, may be either, which is why it has both candidates.

**Only model-checked.**  Liveness under fairness and `ENABLED` are out of this prover's
reach: `TaskEnds`, `Recovers`, `LeaderMoves`, and the parts marked (liveness) of
`ShutdownHolds`, `RegistryHolds`, `CallsComeThrough`, `ProvidersHold`, `ChangesHold`.  What
these five say of safety is not proved either; see the plan.  `Visit` in
`OrderedShutdown`, the only recursive operator, is out of reach of the prover together
with its module.

## Where the code disagrees with what is said of it

One disagreement has a run that ends in a counterexample; `PROJECT.json` has the quotation.

| run | what happens |
|---|---|
| `queue_buffer` | with batching on, the first publish that is not direct keeps `bufferMutex` until its batch was sent, and the batch is sent inside the same mutex: neither ends, and nobody after them publishes. A comment says that the flush is started outside the lock to avoid a deadlock; the test replaces the mutex by one that does not lock |

Others are in the models as the code has them, without a run of their own: as an exception
that a property names, a history variable, or an action.

*Tasks*
- A fenced call of a worker that was overtaken is answered with success when the new owner
  has put the row in the status it wanted (`TaskRepository.js:843`; `racedToTarget` is looked
  at before the claim).  Two retries that read the same version of a row hand out the same queue
  attempt (`:824`).  `claimTask`, which has no caller, tells the loser of a race that it succeeded.
- A message delivered twice to the leader gives two executions of one task
  (`TaskManager.download.js:108`): the lock belongs to the instance and the start event is
  allowed from `downloading`.
- `retryTask` drops the lock of its instance although the task may have been claimed since it read
  the row.  `uploadTask` unlinks the local file also when the upload failed its validation,
  under the comment "Clean up local file only on success".
- A cancel that comes before the rows of a group keeps an empty list for two minutes; when
  the answer to `createBatch` is lost, the rows are there and nobody publishes them;
  `addBatchTasks` marks all tasks failed when one publish failed.
- Of a link: `updateFileMetadata` and `updateSourceRef` are not fenced; two executions share one
  `.part` file.

*Queue and limits*
- A manual retry of a dead letter removes the entry at an index it found before its publish
  (`QstashQueue.js:702`).  Through the cache wrapper, clearing the record of a failed publish
  writes an empty value, which counts as a record (`:237`); the theorems about the queue exclude
  that wrapper.  A dead letter that could not be stored passes for a stored one, because `CacheService.set`
  does not throw.  The state that breakers would share compares lower with upper case and is never read.
- A breaker that reopens keeps the successes of the trial that failed.
- The limiter of the bot starts at 1 and errors raise it to 20; a shorter flood answer
  overwrites a longer `globalCoolingUntil`.

*Locks, cache, views*
- `DistributedLock` keeps the timer of a lock that was lost and taken again (`:228`, `:259`;
  its class comment says that leaks of locks are solved).
- `ConsistentCache.js:75` and `StateSynchronizer.js:187` take the `null` of a missing copy for a
  hit; "强一致性读取" (strongly consistent read) then reads nothing.  Received events write a key with its prefix twice.
- A slow `get` fills the copy with an older value; an old file copy is promoted to the provider;
  in failover mode `set` returns true without the provider; the attempts of a compare-and-set
  read the same stale copy again.
- `enhancedFailover`, `switchToProvider` and `resetFailureCount` have no callers; the enhanced
  check of recovery skips the provider in use.
- A batch whose record is gone leaves the queue without a wake-up.
- The lock of a write (`ConsistentCache.js:37`) lasts 30 seconds and is never renewed; another
  instance may take it when the owner is not listed (`InstanceCoordinator.js:613`), and the end of
  one call gives back the lock of another call of its instance.
- A check of recovery that was under way when the timer was replaced clears the new timer
  (`CacheService.js:1147`); a connection whose `quit` was refused passes for connected
  (`RedisCache.js:161`).
- A message of an album waits an hour in its buffer, but a minute only after one plain `cache.set`
  (`MediaGroupBuffer.js:286`, `:384`), since the time of life is `staleThreshold` there.

*Transfers and drives*
- `resetTask` clears the owner, so that later chunks are refused; `cleanupStaleStreams` forgets
  uploads longer than five minutes (`StreamTransferService.js:1535`), and the forgotten one may store the
  part that is staged anew over the file that another attempt was told is uploaded; the `close` of an older `rclone` drops a newer context;
  `getRemoteFileInfo` answers null when it failed; files are compared by their size only.
- The write-back of a Proton session stores what was read at the start, for the drive that
  is the default one at the end; `uploadBatch` by connection string loses the renewed session;
  directories with logins stay after a crash; the delay between the attempts of `uploadBatch` ignores a
  cancellation.
- Two creations that revive the same deleted row of a drive both succeed; copies that could not be deleted stay.
  `setDefaultDrive` reads the ids whose copies it will drop before its update
  (`DriveRepository.js:501`): a drive that was bound and made the default in between loses that in D1,
  and its copy keeps it.
- A migration that stops between its two renames is recorded as done by the next start,
  and the rows stay in the backup (`schema.js:895`); version 3 of the drives then fails for ever; the
  migration lock of 120 s is never renewed; what is written between copy and rename is lost.

*Dialogues, start and stop*
- An error of the cache marks a message as seen and loses it; the message lock is
  re-entrant for an instance and its key lacks the chat; the confirmation of an action is
  cleared before the action; a role copied after its deletion stays for five minutes.
- A webhook sent on is given up after 15 seconds while the leader goes on, and an instance may send one to itself.
- `register` drops the option `requiresCleanup` of a hook (`GracefulShutdown.js:55`), so that a reload
  (SIGUSR2) runs none of the stop hooks and starts the business modules over what runs: the
  Telegram client then has the listener of the old manager and that of the new one, and
  handles an update twice; and a call of the old manager may connect it without the lease while no
  watchdog has been started, against "Telegram runtime ownership is governed only by the
  telegram_client lease" (`telegram.js:833`).
- The HTTP server closes without a time-out; a SIGTERM during a reload is ignored; an invalid
  configuration logs that it stops, and goes on; failed hooks exit with 0.
- The first adjustment's timer cannot be cleared; a heartbeat under way registers a stopped instance again; a
  changed tunnel address never replaces the one listed.
- `CacheService.destroy` leaves `isInitialized` set, so that a reload of the cache does
  nothing and reports success; `refreshConfiguration` by hand applies nothing; two reloads of the
  logger overlap.
- In `EnhancedGracefulShutdown` a circular dependency throws when the shutdown comes; in `SmartFailover` a
  failure that comes late moves away from a healthy server.

## What is not modelled

These components are not modelled at all; `PROJECT.json` has the reasons.

- *Commands and menus of the dispatcher*: what a command changes is modelled where it
  happens; the rest is paging and texts.
- *Other drive providers*, *user and API key repositories*, *other cache adapters*: one
  row or one protocol, without a step of anybody else in between.
- *Metrics, telemetry, log sinks, user interface, MCP*: no other part reads their state.
- *Local buffer queue and task deduplicator*: nothing imports them.

In the modelled components:

- *Task repository*: reporting queries, the write buffer (`pendingUpdates` has no
  writer), the count of active tasks.  *Task manager*: the messages of the group monitor.
- *InstanceCoordinator*: `executeWithLock`, the attempts and delays of `acquireLock`; of best-effort
  locks only what `SyncViews` has of them.
- *Publishing*: best-effort publishes, the mock mode, `clearDeadLetterQueue`, the expiry of stored
  dead letters; in `QueueService` the building of URLs, metadata and keys.
- *Media group buffer*: the index as a list of several groups, the local LRU of message ids.
- *Dialogues*: the copy of a session that an instance keeps for 30 seconds (`SessionManager.js:13`).
  Its own writes replace it, and all updates come to the one instance with the Telegram client;
  what is left out is a session that the leader before it has written.
- *Processing*: an exception between the delivery of a message and the claim.
- *Streams*: the choice of a worker, the progress cache, in live mode a file of unknown size.
- *Direct transfer*: how long the adaptive stall time-out is, which messages of `rclone` may pass.
- *Telegram*: the second for which the watchdog's start is put off, a client that
  `disconnectLostLockClient` or `saveSession` makes because there is none by then, the time that
  `getClient` takes within a check or a recovery; back-off delays, thresholds by kind of error, the clearing of the stored session;
  token buckets and the nesting of the queues.
- *Cache*: two checks of recovery at once (a `ping` that takes longer than 30 seconds), the awaits
  within one enhanced check; pass-through calls, statistics, the vendors' variants of a provider.
- *Drives*: the list that an instance keeps for 60 seconds.  *Schema*: columns, checks, indexes.
- *Webhooks*: signatures, the size limit, the health paths.  *Shutdown*: drain helpers without callers.

Data is abstracted everywhere: a file, a user, a message text or a drive never influences
the control that is modelled.

## Plan

What is left is to prove the safety parts of `ShutdownHolds`, `ProvidersHold`,
`RegistryHolds`, `ChangesHold` and `CallsComeThrough`, from inductive invariants that TLC has
to confirm first.

A theorem about a component that a run has through INSTANCE belongs in the component's own
module, under the names of that module.

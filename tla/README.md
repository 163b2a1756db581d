# AsterForge in TLA+

AsterForge is a Rust workspace of building blocks for services that run as
several processes over one database. Most of its crates are libraries without
state of their own; what is hard in it is the coordination code: leases,
claims, heartbeats, renewals, retries and shutdowns, over statements that may
fail after they took effect. This directory models that code in TLA+, checks
the models with TLC and proves their safety properties with TLAPS.

Paths below are relative to `src/crates/` and drop the prefix `aster_forge_`:
`tasks/src/execution.rs` is `src/crates/aster_forge_tasks/src/execution.rs`.

## 1. Inventory

### Modelled

| Component | Code | State | Operations | Hard behaviours |
|---|---|---|---|---|
| Runtime lease | `runtime/src/lease.rs`, `db/src/runtime_lease.rs` | one row (owner, expiry); per instance the await of its supervisor | claim (insert, find, update, reread), renew, stop, release | takeover while the old owner still stops; clock skew; statements with lost answers; crash with the lease held |
| Task claiming and execution | `tasks/src/dispatch.rs`, `execution.rs`, `heartbeat.rs`, `lease.rs` | task rows (status, token, attempts, cancellation, lease); per slot a run, its guard and its heartbeat | claim, begin, heartbeat, body, acknowledge, confirm, release, retry, fail, join | a run that outlives its lease; cancellation racing an outcome; a guard that measures its lease from the wrong moment |
| Task consumer | `tasks/src/consumer.rs`, `wakeup.rs`, backoff of `runtime.rs` | spawned executions and releases, one claim in flight, the phase, poll timer and idle interval, status and report | one round of a biased select, claim handling, drain, cancel, abandon | limits that change under a claim, a stop at any moment, handlers that hang, lost wakeups |
| Scheduled tasks | `tasks/src/schedule.rs`, task groups of `runtime.rs`, `db/src/scheduled_task.rs` | the catalog row (next_run_at, claim owner, claimed_at, expiry); per runtime a runner and a renewal loop | ensure, find, claim, renew, record, complete, shutdown, abort | two runtimes on one firing, renewals that fail or stop, skewed clocks, abort inside a statement |
| Mail outbox | `mail/src/outbox.rs`, `db/src/mail_outbox.rs` | mail rows (status, attempts, due, stale claim); per dispatcher a listing and its position in it | enqueue, drain, list, claim, deliver, mark sent/retry/failed | listings that are older than the claim, delivery that cannot be undone, claims that go stale while held |
| Managed batch writer, audit sink | `runtime/src/buffered.rs`, `audit/src/db_writer.rs` | queue, overflow lane, watermarks, failure and doubt marks, worker | record, flush, retry_failed, drain, stop, the worker's batches | a flush scope that later records must neither satisfy nor extend; a stop inside a write that may have been stored; lost wakeups |
| Process lifecycle | `runtime/src/lifecycle.rs`, `component.rs`, `startup.rs`, `shutdown.rs` | component graph, phases, tokens, signal listener | validate, startup phases, service, signal, join, hook, shutdown phases, drop | the signal callback racing the end of the service; phases that fail, panic or hang; order along the graph |
| Refresh token rotation | `auth/src/coordinator.rs`, `refresh.rs` | permits and lock map per process, requests; the session in the product's store | acquire, cancel, close, prepare, rotate, resolve a conflict, drop | the removal of a lock racing its registration; two processes with one token; lost commits |
| Configuration synchronisation | `config/src/notification/`, `config/src/runtime.rs`, `events/src/supervisor.rs` | rows and their cached versions, hints, subscription, pending retry | write, publish, subscribe, receive, reload, apply, retry | hints lost while the subscription is down or overrun; failed callbacks; a reload racing a local write |
| Cloud files: mutation journal | `cloud_files/core/src/mutation.rs` | session generation, records, runners | submit, resume, apply, reconcile, record the outcome, complete | crash between the remote effect and its record; late requests; runners of two generations on one record |
| Cloud files: uploads | `cloud_files/core/src/upload.rs`, `content_storage.rs` | dirty generation, leases, upload records, the remote's session | begin, chunks, conditional commit, reconcile, acknowledge, complete | an edit while the older generation is being acknowledged; a commit that arrives after a reconciliation |
| Cloud files: content entry | `cloud_files/core/src/content_storage.rs`, `cache_write.rs` | sparse range set, pins, leases, journals of writes and evictions; the bytes | cache write, eviction, pin, lease, edit | bytes that change outside the store's transactions; range merging at its limit |
| Cloud files: hydration | `cloud_files/core/src/hydration.rs` | shared reads, waiters | register whole and range requests, poll, cancel, drop, release | a waiter that goes while another one registers; limits |
| Cloud files: Linux namespace | `cloud_files/linux/src/writeback.rs` | overlay of local and remote entries with five indices; the store | lookup, list, create, rename, remove, remote upsert and deletion, restore at mount | a remote change between a local commit and its acceptance; stale index entries |

How they interact. The supervisor of the runtime lease starts and stops the
group of background tasks of a process (`start_workload`, `stop_workload`). In
that group run the scheduled tasks, the task consumers and the dispatch
worker; stopping the group cancels one token and aborts what is left after a
grace period. A consumer claims rows and runs `process_claimed_task` for each:
`TaskConsumer` is the loop above, `TaskExecution` what happens to one claim.
The mail outbox is drained by a scheduled task or by the component's shutdown,
so several processes may drain it together. Nothing is shared between
processes but the database, and no module assumes more of it than atomic
statements.

A runtime process is assembled and taken down by the process lifecycle, whose
shutdown phases stop the task group, drain the outbox and stop the batch
writer. The configuration and the refresh coordinator live in a process and
meet other processes in the store only. The cloud files crates are a system of
their own: the journals, the content entries and the hydration work are used
by the platform front ends, of which the namespace of the Linux mount is
modelled; journals and entries meet in one transactional store.

### Not modelled, with state worth modelling

- `cache/src/`: reservations, and the Redis cache that falls back locally.
  Hard: set-if-absent checks, reserves and inserts across awaits, and a Redis
  timeout hides whether the value was set. The one hazard of `PROJECT.json`
  without a property.
- `db/src/transaction.rs`, `db_migration/src/coordination.rs`: replay of
  transactions around an unknown commit, advisory locks.
- `tasks/src/runtime.rs`: the dispatch worker (wakeup, timer and shutdown).
- `events/src/redis_transport.rs`, `transient_bus.rs`: the transports under
  the subscription supervisor.
- `cloud_files/`: the change-feed checkpoint and identity tables of the core,
  write handles of the Linux mount, the watchdog and the waiter registry of
  the Windows front end.

### Not worth modelling

Parsers, formatters, DDL and query builders, cryptography, HTTP and metrics
wiring, web middleware, templates, WebDAV request handling, the XML crate,
validation and utilities, test support: sequential code without state that
outlives a call, or foreign code. They are listed in `PROJECT.json` as
`not_modelled` with the reason. They are also most of the workspace's 117,000
lines: the models cover the coordination code, a few percent of the text, and
a model of a parser or of a foreign-function table would say no more than its
source.

## 2. How the models are built

Every await of an async function is a value of a program counter, and what the
code does between two awaits is one action. A database statement takes effect
and answers in the action that ends its await. It may also fail, and a failed
write has or has not taken effect: a connection can be lost on either side of
the commit. A crash can happen at any await, and so can the abort of a task
group. `MaxFaults` bounds how many failures and crashes one behaviour has.

Definitions introduced by a comment that says "Mutant" are not part
of the models: they are plausible bugs of the definition that follows them,
kept to show that each property can tell the code from a wrong variant of it.
Every property of every passing run has one in `PROJECT.json`.

Components that share no state are checked in one run each for a group of
them: `MCTasks`, `MCCloudFiles` and `MCServices` instantiate the component
modules, a variable `part` says which component a behaviour is about, and the
variables the part does not have keep the value `Unused` (variables that
`MCServices` and `MCTasks` extend stay in their initial state instead: there
those of the lease and the tasks). The state space is the disjoint union of
the parts'. A property is a conjunction over the parts it is about. The bounds
of these modules are constants that the .cfg files give values, so that the
proofs about them hold for all values.

Left out everywhere: log and error texts, metrics, tracing, JSON payloads and
the values of ids. Retry delays and timeouts are kept as constants.

### RuntimeLease, RuntimeLeaseTimely

`run_runtime_lease_supervisor` is `Start`, the acquisition actions,
`StandbyWakes` and the ownership actions; `claim_lease` is the chain
`Inserted` / `InsertFailed`, `FindReturns`, `UpdateReturns`, `RereadReturns`,
one action per statement. `TTL`, `RenewInterval` and `RetryInterval` are the
three `effective_*` functions, zero and too-large settings included. The row's
expiry is kept as the time left and every await has an age, so behaviours are
unbounded in time and the state space is finite. `lag` is the age of the `now`
a claim or renewal carries: the code reads the clock once, before up to three
statements.

`RuntimeLeaseTimely` adds the deployment assumption (section 4) and the
inductive invariant.

### TaskExecution, TaskGuard

A slot is one run of `process_claimed_task`: `Begin` creates the guard and
spawns the heartbeat, `BodyReturns` is any return of the product's body,
`AckFirst`, `Confirm`, `Release`, `Retry`, `Fail`, `AckFinal` are the calls
`complete_claimed_task` makes, in the order it makes them, `Join` is
`stop_task_heartbeat`. `HeartbeatTick`, `HeartbeatRenewed`, `HeartbeatStops`
and `HeartbeatError` are the heartbeat loop. `EnsureActive` is the guard's
test, with the order in which it looks for a reason to stop.

The store is a trait that the product implements. Its operations are external
definitions: `Executable` is the token fence every update is documented to
have, `Undisturbed` adds that no cancellation was requested, in one atomic
statement.

`TaskGuard` restricts time: neither the way from a claim to its run nor a
heartbeat statement takes longer than a heartbeat interval.

### TaskConsumer

`run_consumer_loop` is a biased select: an action of the loop is enabled only
if no earlier branch is. Claim, execution and release are spawned futures that
return at any time (`ClaimReturns`, `ExecutionReturns`, `ReleaseReturns`).
`TakeClaim` and the handling of its result are two steps because the stop
token may be cancelled between them. The phases running, draining and
cancelling are the code's `ConsumerPhase`.

### ScheduledTask

A runner and its renewal loop are two processes of one runtime. An iteration
reads the clock and then awaits up to six statements before its body starts:
the insert of `ensure_task`, which on every look but the first is refused
(`Ensure`, `EnsureFails`), the read of the row (`Refresh`), the update of a
display name that differs and the read after it (`Rename`, `Reread`), the read
of `claim_due` (`Find`) and its update (`Claim`, `LoseClaim`). Timestamps are
absolute and read off a skewed clock, because `next_run_at`, `claimed_at` and
the expiry are compared with each other. `Owns` is the predicate of
`renew_claim` and `complete_claim`, which does not look at the expiry.
`Shutdown`, `Abort` and `Restart` are `BackgroundTasks::shutdown` and the next
start of the group under the same owner id.

### MailOutbox

`drain_mail_outbox` calls `dispatch_mail_outbox` for up to `DrainRounds`
passes; a pass lists a batch and then claims, delivers and marks each row of
it. `snapshot` is the attempt count as listed, which the code keeps using.
`MarkSentFails` is the retry loop around `mark_sent`. Time is abstract: a row
becomes due, and a claim becomes stale, at any moment; `overruns` counts the
claims that went stale while somebody still worked on them.

### DurableBuffer, BatchWriter

`DurableBuffer` is what a buffer in front of a store promises: a record it took
is stored at most once, confirmed only if stored, and stays in custody
otherwise; a flush that succeeds confirms all that was taken before it; after
a stop nothing is written. `BatchWriter` is the code: `record` into the queue
or the overflow lane, the worker with its delayed batches, the watermarks a
`flush` waits for, `retry_failed`, `drain`, and `stop`, which may cancel the
worker inside a sink call. The refinement mapping (`Buffer`) reads a record's
status off queue, lanes and watermarks; `IsDurableBuffer` is `Buffer!Spec`.

### MutationJournal, ContentUpload

One action per await of `MutationRunner` and `ContentUploadRunner`. The store
compares the runner's session generation in every transition
(`with_fenced_mutation`); the remote is external: a request takes effect, is
refused by its precondition, loses its answer, or arrives late (`late`). Other
writers change the item. `Resume` dispatches on the state a record is found
in, which is what the code does after a crash.

### ContentCache, Hydration

`Insert` is `ContentRangeSet::insert` with its three searches, over ranges of
numbers. Cache writes and evictions are journals with an effect on the bytes
that is not transactional: `InstallBytes` and the eviction's removal are
actions of their own, and are repeated after a crash. `RecordProviderRange`
adds coverage without a journal; the code checks nothing but the limit there,
and that the bytes are on disk is the caller's promise (its only callers in the
repository are tests). A range recorded while an eviction removes the bytes
would break the promise later, and is left to the caller too. `Hydration`
registers requests over shared work: alignment, gaps, limits (`RegisterRange`,
`RegisterWhole`); nothing is spawned, so reads only answer while somebody
waits.

### LinuxNamespace

One directory of a writable mount. `overlay` holds the entries by name and by
key for creates, renames, tombstones and remote entries, as the engine's maps
do; `Lookup` and the listing follow the code's precedence among them. A local
operation is looked up, committed by the product's store and then accepted,
three steps between which remote changes interleave; a remote change is
validated and then applied under the lock. `RestoreNamespace`, `RestoreRemote`
and `RestoreCreated` rebuild the overlay at the next mount from the rows. Stable keys
stand for their inodes.

### ConfigSync, RefreshRotation

`ConfigSync`: the reload supervisor polls the subscription supervisor, so the
latter stands still while a callback runs (`Polled`). Values are versions.
`RefreshRotation`: a lock is an identity with its set of holders, the map's
entry a weak reference to it; the drop of a reservation is two steps, as the
lock is released before the entry is looked at. The session store is modelled
by the contract its trait documents: one transaction that reads, classifies
and updates under a compare-and-swap.

### ComponentLifecycle

`Valid` and `ShutdownOrder` are the two depth-first traversals over every
dependency graph of the instance, self-dependencies, cycles and an unknown name
included.
`AsterRuntime::run` is the chain from `Build` to `Return`; `Drop` is its
future being dropped at any await.

## 3. Runs

All runs finish within a few minutes. Two actors are enough for most races in
question: each is between a holder and one other that takes over, and a third
would be one more other. Symmetry is used for safety runs only.

| Run | Bounds | Shows |
|---|---|---|
| `tasks` | see below | Runs that lost their lease never disturb the row; reports are what the row says; attempts, outcomes and cancellations are not lost. While statements take at most a heartbeat interval, an active guard means that the row carries the run's token. Renewals keep the body of a scheduled task exclusive; a firing whose claim ran out is taken in hand within one sleep and eleven statements (`LookAgain`). |
| `task_guard_slow` | the execution part of `tasks`, without the bound on statements | Violation, see section 5. |
| `consumer` | 2 tasks, limit 0 to 2, 1 fault | No oversubscription, no start after the stop, no unread notification, no silent leak; the consumer returns after a stop although handlers hang. |
| `schedule_safety` | 2 runtimes, skew 1, TTL 1, time 3, 1 fault, 1 shutdown | The schedule only advances and past recorded firings; a completed firing never runs again. No timing assumption: the TTL is so short that claims expire all the time. |
| `schedule_missed_ticks` | TTL 6, 2 faults, no latency | Violation, see section 5. |
| `outbox` | 2 dispatchers, 2 mails, batch 2, 1 round, 2 attempts, 2 tries of mark_sent, 1 fault, 1 overrun | Outcomes are final, true and reported once; concurrency alone makes no second copy; every mail is sent or failed in the end. |
| `outbox_budget` | 2 dispatchers, 1 mail, no fault | Violation, see section 5. |
| `batch_writer` | 3 records, queue 2, batch 2, overflow lane, 1 flush, 1 stop, 1 fault | The writer implements `DurableBuffer`, marks exactly what is in doubt, and leaves no caller waiting. |
| `cloud_files` | see below | Journals tell the truth and settle; no local change is lost; entries hold what they claim; hydration is exact; the Linux namespace hides nothing that is committed. |
| `linux_remove` | 1 remote item, 2 names | Violation, see section 5. |
| `linux_rename` | 1 remote item, 1 local file, 2 names, 2 mounts | Violation, see section 5. |
| `services` | see below | One workload at a time, restarted while an instance stays; tasks settle; the configuration catches up and never regresses; a token is rotated once; cleanup is last and in order. |

`tasks` has two parts. Execution: 1 task, 2 slots, 2 claims, 2 attempts, lease
3, heartbeat 1, claim delay 1, 1 fault. Schedule: 2 runtimes whose clocks
agree, TTL 20, renewals every 6, statements of up to 1, 1 fault. 20 is the
least TTL that `BodiesAreExclusive` allows for there, and time 33 is one claim,
its expiry and the longest look-again. Nobody is shut down in it, for the size
of the state space; the theorems hold with shutdowns, and `schedule_safety` has
one.

`cloud_files` has seven parts. Mutation: 1 operation, 2 runners, 2 generations,
1 fault, one change by somebody else. Upload: 1 upload of 2 chunks, 2 runners,
2 edits, 2 generations, 1 fault. Cache: 3 bytes, 2 writes, 1 eviction, 1 lease,
so that ranges touch, overlap, contain each other and leave holes; once with
room for three ranges, more than 3 bytes can need, and once for a single one,
so that a write whose range does not touch the others is refused its coverage
and stays pending until something bridges the gap. Hydration: 3 requests over 2
bytes that compete for 2 reads: an extent joins work of another, or is left a
gap on one side of it; the proof is for every size. Namespace twice: creates of
a file and a directory over one remote item with a second mount, and two remote
items with a lost answer; two names make every rename a rename onto something,
and the proof is for every number of them.

`services` has five parts. Lease: 2 instances, TTL 10, renewal 2, latency,
stop, lag and skew 1, 1 fault. Tasks: 1 task, 1 worker, 4 claims, 1 fault.
Configuration: 2 rows written elsewhere and 1 here, once each, a buffer of 1,
1 pending key before hints coalesce, 2 faults (a retry that fails, too).
Refresh: 3 requests over 2 processes, a budget of 2, 3 credentials, 1 fault.
Process: every graph over 3 components, 4 lists of phases (in and against the
order, two phases of one component, one component without any), 2 startup
phases, one component whose phases have no timeout.

Deadlock is not checked where the system may stop: `schedule_*` stop at
`MaxTime`; a mount may be the last, or have failed; the batch writer has
stopped, all journals are complete, all requests answered, the process has
exited. In `tasks` it is checked: the end of time is a step there. The runs of
`MCScheduledTask` and `MCTasks` use a VIEW that drops what neither an action
nor a property of the run reads any more: the history variables where they are
not the subject, timestamps of claims nobody acts on, the snapshot, guard and
lease of a run that has used them.

### Fairness

- `RuntimeLease.FairSpec`, `TaskExecution.FairSpec`: tokio polls every task
  that can make progress, and time passes. For `TaskExecution` the body
  returns as well; a body that never returns never ends its run, in the code
  too. A slot whose process was shut down is started again.
- `TaskConsumer.LoopFairSpec`: only the loop and the clock. The return after a
  stop needs no more. The other parts of `ConsumerProgresses` (readiness
  recovers, queued work is claimed) are stated under `CallsReturn`, which says
  that claims, handlers and releases come back.
- `MailOutbox.FairSpec`: the worker keeps calling drain, retries become due
  and claims go stale. A fault may stop a drain, never all of them.
- `BatchWriter.FairSpec`: the worker and the callers are polled and sink calls
  return; deadlines need not fire, so that no caller depends on one.
- `MCCloudFiles.FairSpec`: runners, waiters and executors are polled, and
  incomplete records are resumed, as the product does at every start. Requests
  to the remote need not arrive, nor need it ever tell their outcome:
  `JournalsSettle` says that all is finished but an operation whose outcome
  stays unknown for ever, and a cache write the entry has no room for. The
  namespace has safety properties only.
- `MCServices.FairSpecOfPart`: the fairness of the lease and the tasks above;
  the supervisor of the configuration is polled, delays pass and writers
  finish what they began; refresh requests are polled and the store answers;
  the process's `run` is polled, timers fire, and a service that was told to
  stop stops. Startup phases, the hook before the shutdown and phases without
  a timeout may hang: `ServicesSettle` promises an exit as long as those that
  are awaited return.

Only weak fairness is used. One part runs at a time, so fairness of a
disjunction over parts is fairness of each.

No fairness is assumed of failures, shutdowns, notifications, edits, new
requests or cancellations.

## 4. Proofs

The proofs hold for every value of the constants: any number of instances,
slots, tasks, dispatchers and faults, and any durations that satisfy the
named assumptions. Each module proves an inductive invariant first.

Named assumptions and constant hypotheses are cited where they are used: a
theorem below that does not mention one holds without it.

**ServicesProofs** (`SingletonWorkload`, `OwnerKeepsLease`,
`ShutdownFreesLease`, `ConfigurationIsCurrent`, `RowsNeverRegress`,
`RotationsAreExclusive`) is about the lease, and about `MCServices.Spec` part
by part.

- Lease. Mutual exclusion is not inductive: nothing in it says why a takeover
  cannot happen. `LeaseInv` adds how much of the lease is left: at every await
  of the owner the row names it and lasts longer than the owner still needs
  (`Needs`) plus the largest skew, and the timestamp of a claim is no older
  than its statements can make it. It rests on `TimelyAssumption`: renewal
  interval + timer lag + four statements + stop of the workload + skew is less
  than the TTL. That a shutdown without a fault frees the row needs none of
  this, only `CleanInv`: as long as nothing failed, an instance the row names
  is between its claim and its release.
- Configuration. `ConfigInv` says of every row where the cache is not current
  that a hint or an update announces it, that a reload is about to read it, or
  that a retry is armed (`StaleIsCovered`), the same of the rows a reload has
  read (`LoadedIsCurrent`), and that a reconcile reads all of them. For the
  other theorem it adds that what a reload is about to publish lies between the
  cached and the stored version of each row.
- Refresh. `RefreshInv` says that the requests of one process for one token
  hold the lock the map's entry names (`EntriesAreHeld`), one of them the
  guard, and that an entry has a request that will remove it; that a candidate
  is a credential nobody has seen, of one request; and that a credential that
  was exchanged is not the current one again.

**TaskExecutionProofs** (`UniqueTokens`, `DurableReports`, `BoundedAttempts`,
`DecisionsAreKept`, `HoldersWriteAlone`, `GuardVouchesForLease`). `FenceInv`
says that tokens were handed out by claims and are unique, that the snapshot of
a run is current as long as the fence lets it write, and that an unsettled task
has an attempt and a claim left to spend. No timing assumption. The two action
properties follow from lemmas on what any step does to a row; that only the
holder writes also needs `BeatsInRuns`, a heartbeat only lives inside a run.
The guard's theorem is about `TaskGuard.TimelySpec` and does assume that claims
and heartbeats are prompt: `GuardInv` relates two clocks, the time left in the
row and the age of the guard, which together with one heartbeat interval always
make up the lease while the guard is open.

**TaskConsumerProofs** (`NothingIsForgotten`, `StopStopsStarts`,
`TypeCorrect`, `NotifiedWorkIsPolled`, `LimitIsRespected`). `LeakInv` adds to
`LeaksAreReported` where a claimed task can be: in the batch of a claim that
came back, in an execution or a release, or counted; a finished execution no
longer holds its task, and nothing is held before the loop starts or after it
ended. `SeenInv` adds to `NotifiedWorkIsSeen` what a claim that came back says
about the tasks it left: it brought a batch, after which the consumer polls
again, or the notification of what it left is still unread. The limit is an
action property; it needs the types, and that executions can be counted.

**ScheduledTaskProofs** (`ScheduleTypes`, `GivenUpOnlyRecorded`,
`ScheduleAdvances`, `NeverRerun`, `BodiesAreExclusive`, `FiringsRecover`).
`complete_claim` matches owner and `claimed_at` and never compares
`next_run_at`; `FiringInv` says why that is enough: a runner the row still
names has its claim on the firing the row points at, finished firings lie
before it, and what is about to be completed is recorded. No timing assumption
and any skew. One body at a time is about `TimelySpec` and has the hypothesis
`TTLCoversLostRenewals`: the TTL exceeds seven statements, `MaxFaults + 1`
renewal periods, grace, timer lag and skew. Seven, because a claim is six
statements old when it begins (the refused insert, the read, a rename and its
read, the two of the claim) and a renewal is one more. `BodyInv` says that a
runner in its body owns the row, and counts what is left of the claim against
the renewals already lost and the next one due (`RenewalsKeepUp`). The run
`tasks` satisfies the hypothesis by one (20 > 19); the violation run
`schedule_missed_ticks` sits exactly on its bound (6 and 6), so that the
hypothesis cannot be weakened by one tick there. `FiringsRecover` is about the
same specification under the same hypothesis. `RecoverInv` follows what each
runner knows of the row (`Watches`): a sleeping runner saw, no longer ago than
five statements and the recorder before its sleep, that the row was not due;
one that looks is as close to that sleep; one that lost its claim lost it to a
recent change; and whatever changes the row leaves it recent
(`ChangedRowIsRecent`), a late completion too, because of the runners that
finished their body the one that still owns the row finished last
(`OwnerIsLatest`). A fault or a shutdown takes one runner out of this account
at most, so that one is left while there are fewer of them than runtimes. The
bound, `LookAgain`, is a sleep, the recorder and eleven statements: five of the
look that came just too early and six of the next. Both theorems are lifted to
the specification that TLC checks at the end of `TaskExecutionProofs`
(`ScheduledBodiesAreExclusive`, `ScheduledFiringsRecover`).

**MailOutboxProofs** (`OutboxTypes`, `MarksTellTheTruth`, `ReportedOnce`,
`OutcomesAreFinal`, `CopiesNeedAFault`). `OutboxInv` ties the attempt counts of
rows and of listings to the deliveries that really failed, and a dispatcher
about to mark a row sent to the copy that went out. `CopyInv` holds while
nothing has failed: a row in processing has exactly one dispatcher working on
it, and a row with a copy out is still held or is sent, so that no listing,
however old, can claim it again.

**BatchWriterProofs** (`TypeCorrect`, `DoubtsAreMarked`,
`ImplementsDurableBuffer`). `BufferInv` says where a record is: in one place at
most (the queue or the overflow slot), nowhere before it is admitted; what a job
writes is the front of the queue or the slot; the overflow lane has confirmed no
more than both lanes together (`LanesAdd`); the watermark of a flush covers every record admitted before it that is not confirmed
(`WatermarksCover`); an open flush has no answer; and a closed writer rests.
The refinement is proved action by action: the buffer's state is a function of
the writer's, most steps leave it unchanged, and a flush that answers does so
when the watermarks say that all it covers is stored.

**CloudFilesProofs** (`DecisionsAreTrue`, `DecisionsStay`, `ProgressIsNoStall`,
`ChangesAreKept`) is about `MCCloudFiles.Spec`, part by part, for every number
of operations, uploads, runners, generations, revisions, chunks and faults.
`MutationInv` and `UploadInv` have the same shape: each record tells the truth
in every state it can be in, not only when decided; what a runner saw is at
most what the record is now; an answer on its way is unknown or true; and a
runner about to observe was fenced, sees a record that has moved on, or asked
about an outcome that stays unknown, which is why an unchanged record never
means a stuck store. A transition of the store is *sound* (`Sound`,
`UploadSound`) when it moves on from what its caller saw; there is a lemma for
each transition, and one for the call that applies it under the fence. Truth
survives late requests because a commit is conditional: `Forward` and
`UploadForward` say of every step that records move on, the remote only grows,
and an item that has moved takes no other commit. `DecisionsAreFinal` follows
from `Forward` alone. For the dirty state `UploadInv` adds that it is none or
the latest generation, so that clearing it for a committed snapshot cannot
forget a later edit.

Its second part is about the content entry (`EvictionsAreExclusive`,
`CoverageIsOnDisk`, `HydrationsAreExact`), for every size and every number of
writes, evictions and leases. It first proves what
`ContentRangeSet` computes: `Covers` answers exactly for the covered bytes
(`CoversIsExact`), and `Insert` keeps the normal form and adds exactly the
bytes of the new range (`InsertIsExact`). These are facts about sequences of
any length; instead of an induction they take a least counterexample
(`LeastNat`, from the well-foundedness of the natural numbers). `CacheInv` then
adds that a pending write whose bytes are recorded has them on disk, and that
the coverage is on disk unless an open eviction is removing it.

`HydrationInv` is about the work that requests share: an entry has an id of its
own, every byte of what a waiting request asked for is in a live entry it
depends on, and an entry is counted by exactly its waiters. From this the order
in which `assemble` walks the dependencies gives a result without a hole. That
a registration covers the target is again shown without an induction, with the
first of the entries behind a byte it would leave out.

**LinuxNamespaceProofs** (`NothingCommittedIsHidden`) is about `LinuxNamespace`
by itself, for every set of names and items and any number of mounts and lost
answers; `CloudFilesProofs` uses it for the two directories of `MCCloudFiles`
(`CommittedIsShown`). `NothingIsHidden` is three statements. In a mount that is
up, every committed entry whose name no operation or change under way, and none
the overlay refused, is about is shown (`ShownAsCommitted`). Of local
operations, which the overlay takes only after the store has committed them, it
refuses nothing but a rename onto a local item, and what follows it at the same
name (`OnlyReplacementsAreRefused`). And only the pending rename of a remote
item keeps a mount from coming up (`OnlyRenamesFail`). The violation run
`linux_rename` shows both failures; the names of a refused remote change are
excepted too, and section 5 says so. The hypothesis `KeysAreDistinct` says that
remote items, created files and created directories have different stable keys
and that there are finitely many names; `MCCloudFiles` assumes it of its
constants. First come lemmas about what each `accept_*`, `apply_remote_*` and
the restoration of a mount make of an overlay, field by field. `HiddenInv` then
says, for every name that no operation or change under way and none the overlay
refused is about, what each index holds: the namespace index exactly the
pending renames and directory creates, the created index exactly the pending
files, and for everything else the remote index, or the backend's listing with
no remote tombstone on it (`LocalAgrees`, `ListingAgrees`). That no deleted key
and no tombstone hides anything rests on two facts about the store: a key in
`overlay.deleted` is `Gone`, it has no entry and can get none, because the name
it has remotely carries a tombstone and the change feed leaves such names
alone; and an entry nothing is pending for is the remote one. What the store
has committed and the overlay has not yet taken is carried by `LocalInv` and
`ChangeInv`: they keep an operation and a change that overlap in either order
from being about the same item. `ReasonInv` is for the other two statements: a
created item that awaits the overlay is new to it, and so is its name; the name
a rename takes is indexed for the item it replaces, if at all.

Only model-checked:

- the liveness properties, since the prover has no reasoning about fairness;
- `CleanupIsOrdered`: that the order of the shutdown phases respects the graph
  is what a depth-first traversal computes, and an induction over data is not
  available, except where a least counterexample can take its place, as above.

## 5. What the runs found

Six places where the code does not do what its comments say:

1. `task_guard_slow`: `TaskLeaseGuard` starts its clock when it is created and
   when a heartbeat has been answered (`tasks/src/lease.rs:70`), later than
   the `now` from which the stored expiry was computed. If a claim waits long
   enough for its run, `ensure_active` succeeds after another worker has
   claimed the row. The token fence still protects the row; what the guard is
   asked to protect is everything else the body writes.
2. `schedule_missed_ticks`: "two consecutive missed ticks still leave one
   renewal before expiry" (`tasks/src/schedule.rs:590`). The third tick falls
   on the expiry itself, at which a claim may be taken over.
3. `outbox_budget`: the attempt count that a dispatcher writes back is the one
   it listed (`mail/src/outbox.rs:515`). Another dispatcher's retry between
   the listing and the claim is forgotten, and the mail is delivered more
   often than `max_attempts`.
4. `linux_remove`: "Atomically accepts unlink or rmdir and hides the durable
   tombstone from new lookups" (`cloud_files/linux/src/writeback.rs:979`). An
   item that a remote change has put into the overlay keeps its remote entry,
   which lookups prefer to the tombstone: it is still there after it was
   unlinked, and under its old name after it was renamed.
5. `linux_rename`: "Atomically renames or moves one namespace entry while
   preserving stable identity" (`cloud_files/linux/src/writeback.rs:923`). A
   rename onto a name that was created or renamed locally is committed by the
   store and then refused by the overlay's conflict check
   (`writeback.rs:2117`, called at 1884), which finds the item the rename
   replaces: the call fails, and the mount goes on showing both old entries.
6. `linux_rename`, again: "Restores durable local directory creates, renames,
   and tombstones for a newer mount" (`namespace.rs:735`), and "a rename and a
   daemon restart must retain the same record" (`inode.rs:111`). Restoring
   a pending rename of an item of the static inode table checks it against that
   item's own record (`restore_namespace_overlay` calls
   `ensure_namespace_item_is_unique` without a key to except,
   `writeback.rs:2317`), so that the next activation fails until the rename has
   been synchronised. `RefusedIsRestored` says that what the overlay refused
   the next mount shows; the run ends in a mount that does not come up.

Limits that no document contradicts:

- The renewal of a runtime lease is awaited without a timeout
  (`runtime/src/lease.rs:296`). A statement that hangs for longer than the TTL
  leaves the workload running while another instance takes over; this is what
  `TimelyAssumption` excludes.
- The renewal loop of a scheduled task stops with the shutdown token while the
  body may go on for the whole grace period (`tasks/src/schedule.rs:727`). If
  the grace period exceeds what is left of the claim, two bodies run. With at
  most one missed renewal, the body is exclusive when
  7 statements + 3 timer lags + skew + grace < renewal period.
- A run that dies is claimed again without an attempt being counted; only
  counted attempts are bounded.
- A mail whose `mark_sent` fails for good, or whose claim goes stale while it
  is being delivered, is sent again: delivery is at least once.
- A remote change that the overlay refuses is answered with an error and
  left to the product's feed; that can follow an earlier refusal, or a local
  operation on its items, and no property says when it must be accepted.
- A cache write that would exceed `MAX_RANGES` stays pending, and blocks the
  eviction of its entry, until ranges merge (`JournalsSettle` excepts it).
- Calls of cache writes and evictions to the content store carry no session
  generation; only the journals of mutations and uploads are fenced.
- Dependencies without shutdown phases are skipped, so an order that two
  components have only through such a third one is not kept, as
  `component.rs:441` says.

What the models assume of their surroundings, beyond the fairness above:

- Configuration: one process writes a row, and its writes are sequential.
  Failed publications, shutdown, rejected namespaces and restart-only rows are
  left out.
- Hydration: waiters that are not dropped are polled; exhaustion of work ids is
  left out. What the platform has materialised is left out of content entries.
- Linux namespace: the backend's listing is the one of the mount, local
  operations in a directory are serialised by the kernel's lock, and the
  product's feed leaves alone what a local mutation is pending for.
- Refresh: the product's session store keeps the contract of its trait.
- Lifecycle: dependencies are visited in the order of registration (the code
  uses the order they were declared in; no property depends on it).

## 6. Plan

1. `CacheReservation`: one winner per key while the entry lives, and what is
   left of that with Redis timeouts and the local fallback. Reading the code
   for it: a delete that races `set_if_absent` can leave a reservation until
   its TTL, an expired entry found by `get_bytes` is removed by key, and a
   `take` served locally while the circuit is open leaves the copy in Redis.
2. `TransactionRetry`, `MigrationLock`, the dispatch worker, the change-feed
   checkpoint, write handles of the Linux mount, the Windows watchdog.
3. Compositions: the scheduled task under the runtime lease (one body at a
   time from the lease alone, if the grace period fits), and the consumer over
   the execution of its claims.
4. Proofs: `CleanupIsOrdered`, if the traversals can be related to their result
   without an induction.

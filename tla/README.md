# A verification project for helm-api

helm-api is an LLM gateway: it accepts requests in several wire protocols, decides
which lane and which upstream model should serve them, and relays the answer. What
makes it hard to get right is not the translation of messages but the state that
requests share: concurrency slots, circuit breakers, OAuth credentials, deferred
writes, background jobs and the database maintenance that stops them all. This
project models that state in TLA+, model-checks small instances with TLC and proves
the most important results with TLAPS for every instance.

Paths below are relative to the repository (`src/` here). `PROJECT.json` maps every
definition to the lines it stands for.

## 1. Inventory

A request passes, in this order, through authentication, the *gate* (rate limit,
concurrency, budget), the memory and classification helpers, lane resolution, the
execution of a candidate chain (breaker, capability filter, provider call, fallback)
and translation of the answer. What it leaves behind goes through the deferred write
queue and, for memory, through background jobs. `apps/gateway/src/server.ts` builds the
parts and wires them together. Gates fail closed, helpers fail open.

| Component | State | Operations | Talks to | Status |
|---|---|---|---|---|
| Distributed concurrency leases (`core/src/queue/distributed-keyed-semaphore.ts`, `store/postgres/concurrency-leases.ts`) | lease rows in PostgreSQL; per replica: queues, one poll run per key, poll timers, holders with heartbeat and deadline | acquire, release, poll, renew, lose ownership, shutdown | the gate; the database; other replicas only through rows | partly: `DistributedSemaphore` |
| Local keyed semaphore (`queue/keyed-semaphore.ts`) | per key: count, waiters | acquire, release, handoff, time-out, watchdog | the gate | modelled: `KeyedSemaphore` |
| Concurrency gate (`apps/gateway/src/middleware/concurrency.ts`) | none of its own; two semaphores, live settings | acquire key slot, then process slot; release both | both semaphores, live settings, key records | partly: `ConcurrencyGate` |
| Circuit breaker (`core/src/circuit/breaker.ts`) | per alias: state, failures, openedAt, probe token | canAttempt, recordSuccess/Failure/Abort | the executor | modelled: `CircuitBreaker` |
| Failover execution (`apps/gateway/src/routes/execute.ts`, `image-chain.ts`) | per request: position, notes of the walk, probe | walk, attempt, settle, fall back, answer | breakers, providers, abort signals | partly: `FailoverExecutor` |
| OAuth token manager (`core/src/provider/token-manager.ts`) | per manager: tokens, forced refresh, rejected token, refresh in flight; per account: gate, lease, store row | getAuthHeader, refresh, invalidate, disconnect | the store, the token endpoint, sibling managers | partly (preset grant): `TokenManager` |
| Deferred write queue (`apps/gateway/src/runtime/write-queue.ts`) | buffers, calls waiting for capacity, batches and tasks on two chains, timer, pause, stop | enqueue, wait for capacity, flush, write, pause, resume, stop | stores, maintenance, every route | modelled: `WriteQueue` |
| Maintenance gate (`runtime/maintenance-gate.ts`, wiring in `server.ts`) | active requests, maintenance queue, paused activities, tracked tasks | enter, queue a pass, pause and drain one activity after another, resume, dispose | requests, body leases, memory worker, signal scheduler, background tasks, write queue | partly: `Maintenance` |
| Memory admission (`runtime/memory-admission.ts`) | leases of request bodies, bytes reserved | acquire, release, pause, resume | every buffering route, maintenance | partly: an activity of `Maintenance` |
| Memory jobs (`core/src/memory/*.ts`, `store/sqlite/memory-store.ts`) | turns, frontier, observations, reflection, job rows with lease and generation | enqueue, claim, read, commit behind a fence, promote, merge, archive, sweep | the store, the model, requests | partly: `MemoryJobs` |
| Keyed serial gate (`queue/keyed-serial-gate.ts`, `user-turn.ts`, `provider/oauth/serialize-client.ts`) | per key: chain of turns, last delay, GC timer | enter, leave, time out | the executor | planned |
| Reset-credit guard (`apps/gateway/src/oauth/reset-credit-guard.ts`, `auto-reset.ts`) | four config rows per ChatGPT account; per process: last credit, last window, lease | reserve, consume, commit, roll back | the upstream, the config store, processes only through rows | partly: `ResetCredit` |
| API-key account pool (`core/src/provider/api-key-pool.ts`) | per account: state row, permits | acquire, compare-and-set, settle | the executor, the store | planned |
| Rate limit and budget (`core/src/ratelimit`, `core/src/budget`) | buckets, reservations | check, debit, settle | the gate | planned |
| Registries (`realtime-call-registry.ts`, `responses-registry.ts`, `oauth/admin-refresh-coordinator.ts`) | live calls, requests in flight | register, take over, close | websockets, routes | planned |
| OAuth account pool (`core/src/provider/oauth/pool.ts`) | parked accounts, affinities | select, park, settle | token managers, executor | later |
| Routing, protocol translation, classifier, catalog, capability filter, config, privacy | none, or configuration | pure functions | executor | not modelled |
| Provider clients, stores, telemetry, signals, cleanup, admin and portal UI | connections, rows | I/O | everything | not modelled; seen through the components above |

### What is hard, and what correctness means

* **Leases.** Ownership is judged by the replica's monotonic clock, expiry by the
  database's. Replies may be late, lost after commit, or meant for a waiter that is
  gone; processes crash with rows in the table. Correct: never more owners than the
  limit, cluster-wide; no queue asleep while somebody waits; no row left behind
  without somebody who deletes it or the expiry that will; a call that was told it
  failed never holds.
* **Local gate.** Two semaphores taken in order, a watchdog on one of them, limits that
  change under waiting calls. Correct: counts are exactly the leases, nobody is stranded,
  no deadlock between the two.
* **Breakers and chains.** Requests interleave only while attempts are in flight, but
  an attempt admitted in one breaker state ends in another. Correct: no probe lock is
  leaked or stolen, no alias is refused for ever, a client's abort is never the
  upstream's fault, a 422 is final, a paid image write is sent once.
* **Credentials.** A refresh token is good for one exchange; several managers, a logout
  and a restart reach for it. Correct: no replay, no rotation lost in the process, a
  logout is final, no request without a token, every waiting caller answered.
* **Reset credits.** An operator and the automatic reset, in several processes, spend the
  same scarce credits over eight awaits; the answer may be lost after the credit is gone,
  the record may fail, the process may die. Correct: one credit for a weekly window, an
  hour between two, the lease of an attempt its own.
* **Deferred writes.** Two serial chains, a budget, calls that wait for room, and pauses
  and stops that drain what others are still appending. Correct: the budget holds, side
  effects keep their order, a finished drain left nothing behind, a bad row takes no
  other with it, what was accepted is settled.
* **Maintenance.** A VACUUM must be alone with the store although requests, jobs and tasks
  come and go, may wait for one another, or never end. Correct: it is alone; whatever was
  paused is resumed, however the pass ended; a shutdown closes the store last; no pass
  and no shutdown hangs.
* **Memory jobs.** A lease may run out under a worker that goes on; a decay sweep archives
  what a reflector is reading; turns arrive while they are being compacted. Correct: each
  turn is in the prompt or in one observation, forgotten text stays forgotten, versions
  never repeat, every job ends and every turn is observed in the end.

`PROJECT.json` lists the hazards at their lines, with the properties that would catch
them, and those not covered yet with the reason.

## 2. The modules

Each component has a module, an `MC` module with its small instances, and where there
are proofs a `_proofs` module. Operators whose comment begins with "Mutant:" are
plausible bugs (section 3); nothing else uses them.

### Leases: `ClusterLimit`, `DistributedSemaphore`

`ClusterLimit` is the promise: slots of a key, at most `Limit` of them occupied, and
owners, who own an occupied slot. `DistributedSemaphore` is the protocol for one key:

| Code | Model |
|---|---|
| `queues`, `polls`, `pollTimers`, `stopped` | `queue`, `poll`, `retry`, `status` |
| settled promise of `acquire` | `result` |
| `holders`, `ownershipTimer`, `renewInFlight` | `holder`, `left`, `renewal` |
| rows of `api_key_concurrency_leases` | `lease` |
| `acquire`, `fail` | `Acquire`, `GiveUp` |
| `processHead` up to the commit / its reply / its throw | `PollCommit` / `PollGranted`, `PollRefused`, `PollOrphaned`, `OrphanReleased` / `PollError` |
| `heartbeat` | `Heartbeat`, `RenewCommit`, `RenewReply`, `RenewError` |
| `armOwnershipDeadline` | `Remaining`, `OwnershipDeadline` |
| `release` | `Release`, `ReleaseDone` |
| `shutdown` | `Shutdown`, `ShutdownRelease`, `Exit` |

Time: every instant is kept as a distance from now, so the state space is finite and
no clock is shared; clocks need only run at the same rate. Timers may be arbitrarily
late. A request is one call and its lease id. The transaction of `tryAcquire` and the
`UPDATE` of `renew` are each one step: `renew` does not take the key's row lock, and
what two such statements can do to each other within microseconds of an expiry is a
listed hazard and a planned module, not something this model (or the theorem) excludes.
Also left out: keys without a limit, and a limit edited while calls wait. A holder whose
replica shuts down is released while its work may go on (its signal is not aborted);
such a call is no owner in the sense of `Owners`.

### Local gate: `KeyedSemaphore`, `ConcurrencyGate`

`KeyedSemaphore` has what `acquire`, `release`, `handoff`, `fail` make of an entry.
`ConcurrencyGate` composes the semaphore of the keys and that of the process, as
`createConcurrencyGate().acquire` does: `Enter`, `EnterGlobal`, `GiveUp`, `Watchdog`,
`Release`, and the admin's `ChangeSettings` and `ChangeKeyLimit`. A call reads the
settings once, on its way in (`seen`). Refusals that leave the state as it was (queue
full or aborted at the first semaphore) are stuttering. Streams claim the lease from
the middleware and release it at their end; both ways are the one `Release`.
A newcomer is let in whenever the count is below *its* limit, also past calls still
waiting under the limit they came with; `ServedInOrder` is therefore stated for the
calls in the queue.

### Breakers and chains: `CircuitBreaker`, `FailoverExecutor`

`CircuitBreaker` is one alias's entry and what each call makes of it. The breaker's
clock is kept as ticks since it opened. `FailoverExecutor` is the loop of `execute()`
and of `runImageChain()`: since JavaScript runs a request alone between two awaits, one
step settles the awaited attempt, passes over unusable candidates (`AfterSkips`, with the
`finally` that hands back a probe lock) and starts the next attempt or answers
(`Walk`). Each way an attempt ends is an action: `Succeed`, `Cancelled`, `Reject`,
`Stall`, `Fault`, `AccountFault`, `Incompatible`, `CountedTooLong`.
The capability filter's verdict is a constant of request and alias (it reads neither
breaker nor clock). The count-tokens preflight and the call it precedes are one attempt
in flight. Aliases are taken to resolve to distinct upstream models, and the branch for
a gateway without any usable provider is left out.

### Credentials: `TokenManager`

The managers of one OAuth account in one process, their callers, the gate of
`runExclusive`, the store row, and a token endpoint that accepts each refresh token once.
Credentials are numbered in the order of issue; access and refresh token of one issue
share the number, so "which token" is all the data there is.

| Code | Model |
|---|---|
| `accessToken`, `refreshToken`, `presetLoaded` | `mem` |
| `expiresAt` against the clock | `stale`: tokens up to it have expired |
| `forcedRefresh`, `invalidatedAccess`, `refreshing` | `forced`, `rejected`, `op` |
| `presetRefreshGates` | `gate`, a queue whose head runs |
| `lease.revoked` | `revoked` |
| `getAuthHeader` / `ensureFresh` | `Ask`, `Load`, `Proceed`, `Decide`, `Abort` |
| `runPresetRefresh` | `Reread`, then `Exchange` (outside) |
| `doPresetRefresh` | `Receive`, `Falter`, `Backoff`, `Fail`, `Store`, `StoreError` |
| `requestWithAuthRetry`, `invalidate` | `Unauthorized`, `Done` |
| `disconnectOAuthCredential` | `AskLogout`, `Disconnect` |

`answered`, `reported` and `lost` are history for the properties; no guard reads
them. A store read is one step, with the decision taken on it in the same
continuation (`Reread`, `Backoff`), or throws (`Fail`). A fresh manager after a
logout takes the place of the old one once that one is quiet (`Rebuild`). Not modelled:
the confidential grant; a login over an existing credential (two families of refresh
tokens), which is a listed hazard.

### Reset credits: `ResetCredit`

The attempts of all processes on the credits of one ChatGPT account.

| Code | Model |
|---|---|
| config rows `last`, `window`, `pending`, `redeem` | `row` |
| `lastBySharedKey`, `windowBySharedKey`, `pendingBySharedKey` | `mem`, per process |
| the variables of one `reserve()` and its reservation | `call`; its `stage` is the await it stands at |
| `reserve`, await by await | `Reserve`, `Consult`, `Recall`, `Check`, `Claim`; under the lease `Confirm`, `Recheck`, `Resolve`, `Mark` |
| `consume()` | `Redeem`; `LoseAnswer` when it throws, after which `RedeemLate` may still happen |
| `commit` | `Commit`, `Note` (the window), `Date` (the time), `Release` |
| `rollback`, and the releases of a failed setup | `Release` |
| a store call throws, applied or not | `Fail` |
| two minutes of a lease, the hour of the cooldown, the week | `Lapse`, `Tick`, `NextWindow` |

A redeem id is the attempt that made it up. An hour is a cell of the clock: two times of
one hour are within the cooldown. A lease is over for whoever took its `nowMs` after the
two minutes (`over`), and `releasePendingReservation`, which may only lower a row to zero
that is not later than one's own lease, frees exactly one's own. `spent` and `lost` are
history: the requests that cost a credit, and whether the time of one was not recorded, or
its attempt outlived its lease. The upstream is as the code counts on it: an id it has
redeemed is answered `alreadyRedeemed` and costs nothing.

What the properties rest on, and the code does not enforce: a `reserve()` ends within its
own lease of two minutes and within the window it was asked for; and, for
`OneCreditPerWindow`, the deadline of a window is reported alike to all (`Drift` has one
element, see the notes of section 4). Left out: rows that do not parse (the guard then
refuses), `creditId`, an idempotency key chosen by the operator, a snapshot of an earlier
window that the manual route may still use, and `autoResetInFlight`, which only joins
automatic resets of one label. `resolveCodexAccountKey` falls back to the label when the
credential cannot be read (`server.ts:2849`): an attempt under that key meets other rows
than its siblings, and is not part of this model.

### Deferred writes: `DeferredWrites`, `WriteQueue`

`DeferredWrites` is the promise: an item is turned away when it is handed over, or accepted
and settled once; only what cannot succeed fails; tasks run in the order in which they came;
whoever closed the queue and flushed it finds it empty until it is opened again.
`ImplementsDeferredWrites` maps a stage to the `Fate` of the item, `calls` to the order, and
`paused` and `stopped` to the `Mode`. `WriteQueue` is how `createWriteQueue` keeps it.

An item is the argument of one `enqueue...` call: a telemetry row, a payload row or a
task. What it says is left out; its cost, its kind and whether the store refuses it
(`Poison`) are constants.

| Code | Model |
|---|---|
| `telemetryBuf`, `payloadBuf`, `inFlightDepth`, `pendingTasks` and the byte counts | the items at a `stage`; `Backlog`, `Depth`, `CostOf` |
| `admissionTail`, `pendingAdmissions` | `admission` |
| the `await`s of `waitForCapacity` | `blockers` |
| `writeChain`, `taskChain` | `chain` (batches), `tasks` |
| `timer`, `paused`, `stopped` | `timer`, `pausedBy`, `stopped` |
| `enqueueTelemetry`, `enqueuePayload`, `enqueueSession`, `enqueueTask` | `Enqueue` (`Admit` is their append) |
| `waitForCapacity` and the append after it | `AdmitHead` |
| `doFlush`, `scheduleTimer` | `DoFlush`, `ScheduleTimer`, `TimerFires` |
| `writeTelemetry`, `writePayloads`, `isCurrent` | `BatchSettles` |
| the `.then` of `taskChain` | `TaskSettles` |
| `pauseAndFlush`, `stop`, one `await` after the other | `Drain`, `DrainStep` |
| `resume` | `Resume` |

`calls` is history: the tasks in the order of their calls. A write or a task of the store
is one step, and each `await` of a drain is another, so items are enqueued, admitted and
settled between any two of them.

### Maintenance: `Maintenance`

`EXTENDS WriteQueue` and composes it with everything else that uses the store.

| Code | Model |
|---|---|
| activity gate: `paused`, active count | `gatePaused`, `active` |
| `createSerializedMaintenanceQueue` | `queue`, `closed`, `QueueTakes` |
| `createTrackedBackgroundTasks` | `bgState`, `jobs`: `Spawn`, `JobEnds` |
| body leases, memory worker, signal scheduler | `side`, `sidePaused`: `Begin`, `WorkerChecked`, `Finish` |
| `maintenanceActivityMiddleware` | `Enter`, `Leave` |
| `runVacuumNow`, `runCleanupPassNow` called by a route | `Ask` |
| the ticks of the two schedulers | `TickFires`, `SkipTick`, `StartAutoVacuum` |
| `withPausedActivities` of `executeVacuum` | `StartVacuum`, `PassStep`, `PassTimeout`, `PassEnds`; `Reopen` is its `finally` blocks |
| `dispose()` and the shutdown handler | `Dispose`, `DisposeWrites`, `CloseStore` |

`step` says which activity the pass is draining. Requests write through the queue at any
time, those whose response is over included. The pauses of the write queue are the passes
themselves, so `Drain(Head(queue))` of `WriteQueue` is a part of `PauseActivity`, and the
queue's own `Resume` only happens in `Reopen`.

### Memory jobs: `MemoryJobs`

One thread of one project, whose requests may name different scopes; a turn is its
number, an observation the range of turns it stands for, a reflection the set of
observations it was made of (each named by its first turn).

| Code | Model |
|---|---|
| `memory_messages`, the thread's `observer_frontier_at`, `_id` | `recorded`, `frontier` |
| `memory_observations`, `archived_at` | `observed`, `archived` |
| `memory_reflections` | `reflection` |
| `memory_jobs`: open row of a key, `lease_generation`, `updated_at` | `row`: `by` is whose generation it is, `lapsed` that the lease is over |
| what a running job has read | `worker` |
| `observeInbound`, `observeOutbound` | `ObserveInbound`, `ObserveOutbound` |
| `enqueueJob` (the partial unique index coalesces) | `Enqueued` |
| `claimPendingJobs` | `ClaimPendingJobs`; `LeaseLapses` is `RUNNING_LEASE_MS` going by |
| fenced updates | `Current`, `Close` |
| `runObserverJob` | `ReadPage`, `MineFacts`, `FinishMining`, `CommitObserverPage`, then `Promote` |
| `runReflectorJob` | `ReadObservations`, `Merged`, `CommitReflectionJob` |
| `runDecayJob` | `ArchiveObservations`, `FinishSweep` |
| idle and decay schedulers | `GoQuiet`, `IdleSweep`, `DecayTick` |
| an error of the store or the model; the process dies | `JobFails`; `Crash` |

A generation is only ever compared for equality with the claimer's own, so who claimed
last stands for it: a worker has one job at a time. A worker whose lease ran out goes on
as if nothing had happened; only `Current` stops its writes. Where the model's answer or
a size decides (how many turns are folded, what a sweep archives) the model chooses freely.

## 3. The runs

Each passing run's properties have a mutant each: a plausible bug, defined next to the
definition it would replace, under which TLC finds the property violated.

| Run | Instance | Shows |
|---|---|---|
| `lease_safety` | 2 replicas, 3 calls (2 on one), limit 1, queue 1, TTL 2 | `OwnersWithinLimit`, `QueueServed`, `RowsAccountedFor`, `NoHolderForFailedCall`, and that the protocol implements `ClusterLimit` |
| `lease_liveness` | 1 replica, 2 calls | `WaiterAnswered` without any wait timeout; `RowGoesAway` |
| `failover` | 3 requests and an image request, 2 usable aliases, one without a client, one too small; threshold 2 | `RefusalHasReason`, `UnsatisfiableIsFinal`, `LockKeptByOwner`, `CooldownRunsDown`, `ImageSentOnce`, `AbortOpensNothing`; `RefusalEnds` |
| `gate` | 4 calls, 2 keys, key limits 1 and 2, process limit off or 1 | `CountsAreLeases`, `GoneHoldsNothing`, `NobodyStranded`, `GlobalLimitHolds`; `WaitEnds` |
| `token` | 2 managers, a caller each, 2 credentials; `upsert` may throw | `NoReplay`, `RotationKept`, `HeaderHasToken`, `LogoutIsFinal`; `CallerAnswered` |
| `reset_credit` | 2 processes, 3 attempts (2 in one), 2 hours, 2 windows; every store call may throw | `OneCreditPerWindow`, `CooldownKept` |
| `write_queue` | 2 payload rows (one refused), an oversized inbound and an outbound message, depth 2, 3 bytes, a pause and a stop | `BacklogBounded`, `TasksInOrder`, `DrainedMeansEmpty`; `AcceptedIsSettled`; and that the queue implements `DeferredWrites` |
| `maintenance` | a VACUUM and a cleanup on request, an off-hours VACUUM, a background task, a row; a shutdown | `VacuumAlone`, `NothingLeftPaused`, `StoreClosedLast`; `PassesEnd` |
| `maintenance_waits` | the same | violation, see findings |
| `memory_jobs` | 2 lanes, 2 scopes, 2 turns, pages of 1, one mishap | `ObservedOnce`, `NoResurrection`, `VersionGrows` |
| `memory_drain` | the same with 1 lane | `JobsClose`, `TurnsObserved` |
| `memory_late` | 1 lane, no mishap | violation, see findings |

**Bounds.** Two replicas are enough for two clocks and for a competitor who is not in
one's queue; three calls for a holder, a head and one behind it. With TTL 2 a deadline can
be counted from one tick ago, from now, or be over. In the gate three calls of one key
are a holder and two in order, and the fourth, of another key, competes for the process
only. Two aliases give a fallback and its exhaustion; threshold 2 tells a failure that
counts from one that trips. For credentials, two issues are the one that is used up and
the one that replaced it; the two managers share the gate, and each has a caller, who
comes back as often as it likes. `MaxToken` is the only bound in a guard there: behaviours end
for want of tokens (the exchange then fails by `Falter` or `Fail`, as its deadline has it).

Three attempts on reset credits are one whose answer or record is lost, one that comes after
it in the same process or another, and one that meets both; two hours and two windows let
the second attempt be too early, in time, of the same window or of the next. `MaxHour` and
`MaxWeek` bound guards; the attempts are each used once.

Depth 2 of the write queue with four items fills it, makes one wait and one wait behind
that one; the inbound message (4) is larger than the byte budget (3) and so is admitted
alone; two rows share a batch, of which the store refuses one; `MaxBatch` and `FlushBytes`
are both within reach, and both drains may run at once. In `maintenance` two requests, a
tick and a queue of depth 2 let a pass run, one wait behind it and one be refused; each of
the two requests may also be an ordinary one, since an admin request may end without
asking. Two turns with pages of one give a page, a remainder and a late turn; two lanes
give a worker whose job was claimed again, and one mishap is enough for that (a second
claim needs one lapse). `Turns` and `MaxMishaps` bound guards; mishaps are errors,
crashes and leases that lapse under a worker that is alive, and a lease of a dead worker
lapses for free. Versions grow without bound, but only by a reflector job, of which there
are finitely many in a behaviour with finitely many turns and archivals.

Requests of the executor and of the local gate come again and again without bound.
Symmetry is used only in runs without liveness, and only between callers or lanes whose
constants are the same. State counts: `failover` 47,520, `gate` 54,128, `token` 79,703, `reset_credit` 2,541,536 (with symmetry), `write_queue`
94,037, `maintenance` 243,568, `memory_jobs` 2,655,059 (with symmetry), `memory_drain` 86,454.

Deadlock checking is off where a system at rest has nothing to do (all calls of the
leases answered and gone, all items settled, all turns observed, and so on); a stuck
waiter would show as a violated liveness property, not as a deadlock, since clocks and
admins go on.

**Fairness.** All of it is weak, but for one.
`DistributedSemaphore`: time passes, a database call returns or throws, due
timers fire, callers finish; nobody has to give up, crash, restart or renew.
`FailoverExecutor`: an attempt ends (each has a request deadline) and the clock goes on.
`ConcurrencyGate`: continuations run and responses end; no timeout, abort or watchdog is
assumed. `TokenManager`: store calls and the exchange return or throw (the
exchange has `refreshTimeoutMs`), resumed callers run. `WriteQueue`: store and tasks
settle, timers fire, continuations run; nobody has to resume a pause. `Maintenance`: a pass
goes on or its drain's timer fires, background work ends; requests need *not* end, since
the drain's timeout is there for them. `MemoryJobs`: steps of a worker end, leases run
out, the schedulers tick; and a job that is claimable again and again is claimed in the
end, which is strong fairness per job: `claimPendingJobs` takes the oldest rows first, so no
stream of younger jobs keeps one waiting. No decay sweep is assumed.

**Type invariants.** Those of `DistributedSemaphore`, `FailoverExecutor`, `ConcurrencyGate`,
`TokenManager`, `MemoryJobs`, `ResetCredit`, `WriteQueue` and `Maintenance` are theorems.
`ServedInOrder` of the gate and `LeaseIsExclusive` of the reset
credits are theorems and no property of a listed run; nor is `NoCollateralLoss` of the
write queue, which is a part of what `ImplementsDeferredWrites` says.

## 4. Findings

Two runs end with a violation:

* `maintenance_waits`: a cleanup request that queues behind a VACUUM stays an active
  request, unlike a VACUUM request, whose activity is released first. The VACUUM waits for
  the active requests, of which this is one, and it waits for the VACUUM, until the
  drain times out and the VACUUM is abandoned.
* `memory_late`: the re-enqueue for turns that came after the observer's read runs
  only for unbounded stores; both production stores are bounded. A turn coalesced into the
  running job has no job when that one ends, and waits for the next turn or the idle sweep
  (`TurnsObserved` shows that this one does find it).

Seen while modelling, and kept here as notes without a run:

* With free slots, simultaneous calls on one replica are refused `queue_full`, since the
  call being polled for counts as an overflow waiter; the comment says the bound matches
  the local semaphore's (`distributed-keyed-semaphore.ts:279`).
* A failure of an attempt admitted before the breaker opened trips HALF_OPEN and clears
  the lock of the running probe; after the cooldown a second probe runs beside the first.
* Two callers get a 401 for the same token; the second `invalidate()` remembers `null` as
  the rejected token, and the re-read adopts the rejected one again.
* When the write of a rotated credential throws, the next refresh reads the old row over
  the good credential in memory and replays the used-up token. `NoReplay` and `RotationKept`
  excuse the token of such a row, and only that one.
* The guard of the reset credits takes deadlines up to 30 minutes apart for one window
  (`reset-credit-guard.ts:131`), but looks its redeem id up under the exact deadline
  (`reset-credit-guard.ts:293`), which drifts with the response headers (comment at line 61).
  After a lost answer, a retry that was told a deadline one millisecond off asks with a new
  id, and may spend a second credit of the window: with `Drift = {0, 1}` TLC finds
  `OneCreditPerWindow` violated, without any store failure.
* A process prefers the window it remembers to the row (`reset-credit-guard.ts:207`), so it
  may ask again for a window that another process has reset; with an undrifted deadline it
  asks with the same id, and that costs nothing.
* A manager that does not enforce the request lease may hand out a header without a token,
  when a sibling's 401 clears it during the write.

## 5. The proofs

All are for every value of the constants, from the named assumptions of the modules
and, where it is said, one more. In each module the properties follow from one
inductive invariant; the steps of `Next` are taken one by one, in a lemma each or in a
case each.

**`DistributedSemaphore_proofs`**: `TypeCorrect`; `Invariant`, with
`Inv == TypeOK /\ Structure /\ Timing /\ Capacity`; `LimitHolds`
(`OwnersWithinLimit`); `ClusterLimitImplemented` (`Spec => ImplementsClusterLimit`).
The limit is not inductive. What carries it is `Timing`: an ownership deadline is counted
from the *start* of the operation that wrote the row, so a holder's `left` is never more
than its row's `lease` (and the reply under way keeps `Ttl <= lease + age`). Hence every
owner has a live row. `Capacity` bounds the live rows: only `PollCommit` adds one, under the
count, and `RenewCommit` extends only live ones. `Structure` is what makes a lease id
live once: a call that is not yet a holder stands at most once in its own replica's queue,
the run in flight polls for such a call, and a stopped replica has no queue; so a reply for
one call is never taken for another's, and no row is inserted for a lease id that already
has a holder. For the refinement, each step maps to `Occupy` (`PollCommit`), `Own`
(`PollGranted`), `Vacate` (releases, expiries, lost deadlines, crashes) or a stutter.

From the same invariant: `QueueAlwaysServed` (every call
of `processHead` leaves a replica with waiters polling, a refused run arms the timer),
`FailedCallsHoldNothing` (by way of the stronger `Told`: whoever is queued is still
unanswered, and a holder was answered `ok`), `RowsAlwaysAccountedFor`.

**`ConcurrencyGate_proofs`**: an entry is `InOrder` when its count is the number of its
holders, its queue has each of its waiters once, and there is a holder if there is a waiter.
`TakeInOrder`, `WaitInOrder`, `LeaveInOrder` and `HandoffInOrder` show that each operation of
`KeyedSemaphore` keeps that, and the invariant says it of every key's entry and of the
process's, with the holders and waiters read off the leases and the stages; besides, a lease
belongs to a call that is past its semaphore, so nobody waits for what it holds. Follow
`TypeCorrect`, `CountsAlwaysLeases`, `GoneAlwaysHoldNothing`, `NobodyEverStranded`,
`AlwaysServedInOrder` and, if one of the global limits is the highest,
`GlobalLimitAlwaysHolds`.

**`FailoverExecutor_proofs`**: the invariant has the breaker entries sound (a closed one has
failures left), requests inside their chains, the lock of a probe held by an attempt in
flight at that alias, and the notes of the walk honest about what was passed over. Follow
`TypeCorrect`, `RefusalsHaveReasons`, `UnsatisfiableAlwaysFinal`, `ImagesSentOnce`,
`CooldownsRunDown`, `AbortsOpenNothing`, and `LocksKept` if `Cooldown # 0`: without any
cooldown and with an alias twice in a chain, the late failure that trips a breaker could be
followed by a new probe in the same step.

**`TokenManager_proofs`**: the invariant is `TypeOK`; the gate's queue has exactly the managers
with a refresh under way, once each, and only its head is past its turn (`GateKept`); a refresh
past its turn works for a credential that is there, and without a row only a manager that
was told of the logout still has a refresh token (`Connected`); what was exchanged is older
than the newest credential, and what is being written is the newest (`Ordered`); and
a row that was exchanged has its replacement on the way, unless the store refused it
(`Replaced`). Follow `TypeCorrect`,
`LogoutsAreFinal`, `NothingReplayed`, `RotationsKept`, and `HeadersHaveTokens` if every manager is `Enforcing`.

**`MemoryJobs_proofs`**: `IInv` joins the types with the fence (`Fence`): a worker that is still
current has read an archived-free text, and the version it read is higher than the
reflection's. Since an archival closes the running reflector in its own transaction, no
worker is current any more when its text is stale. Follow `TypeCorrect`, `ObservedOnceAlways`,
`NothingResurrected`, `VersionsGrow`.

**`ResetCredit_proofs`**: `Leases` says that an attempt counting on an unlapsed lease has the
row (a claim succeeds only over a free or lapsed one, a release touches only its own), so
only one attempt at a time is in the setup. `Cooldown` adds that, unless something was lost,
one attempt at a time is anywhere between its claim and its release, that it is later than
the recorded credit by an hour, and that each credit's time is recorded or about to be. `Ids`
says that all requests of a window that cost or may yet cost a credit ask with one id, and
that the row knows the id of the current window. It survives every loss because the id
is written before it is used: a new one is marked only while no request of the window
exists. Follow `TypeCorrect`, `LeaseAlwaysExclusive`, `CooldownAlwaysKept`, and, if `Drift` has
one element, `OneCreditAlways`.

**`WriteQueue_proofs`**: everything rests on how an item moves in a step (`AllMove`): forward
only, and into the queue only while it is neither paused nor stopped; `NoCollateralLossAlways`
is read off that. `Types` says that each queue holds what is in its stage, once, and that the
batches are apart (`TypeCorrect`). `DrainInv` says what is left behind a drain in each of its
phases: what waited when it began can only get less, what is on its way cannot be followed by
anything once nothing waits and nothing is buffered (`DrainedAlwaysEmpty`). `OrderInv` says that
the tasks that ran were called for before those that are queued, those before the ones that
wait, and that both queues keep the order of the calls (`TasksAlwaysInOrder`).
`BacklogAlwaysBounded` adds up costs with `CostOf`, a fold over a set: a recursive function
whose existence has to be shown before anything can be said of it. `SumsAgree` and
`SumExists` show it from the well-foundedness of inclusion among finite sets (the smallest
set for which it failed would not fail, `SetInduction`), and `Costs` says what is needed: the
empty set costs nothing, one item more costs what it costs, a smaller set costs no more. With
that, what is let in is within the budget or alone, and nothing else adds to the backlog.
`DeferredWritesImplemented` (`Spec => ImplementsDeferredWrites`) joins them: a call maps to
`TurnAway` or `Accept`, a settled batch to `Write`, a task to `Run` (it is a task, and was called
for: `Kinds`; those before it have run: `TasksInOrder` of the next state), a drain to `Close`, its
last step to `Flush` (nothing is left: `DrainedMeansEmpty`), `Resume` to `Open`; an admission, a
flush of the buffers and the other steps of a drain are stutters.

**`Maintenance_proofs`** builds on those. `StepUsesQueue`: every step of `Maintenance` is a step
of the queue or leaves it alone (the pauses of a pass fall on activity 6 and belong to the pass
at the head; a pass ends by `Resume`, or after a `stop()` without it). So `Maintenance` implements
the safety specification of `WriteQueue` (`QueueUsed`), and what is proved there holds here
(`QueueKeepsItsPromises`, and `GatewayDefersWrites` for the refinement). `DrainedSoFar` is what makes `VacuumAlone` inductive: for each activity
that the pass has put behind it, that it is paused *and* that nobody is active in it. Each is
kept by its own guard: a paused gate lets no request in; a paused side starts nothing, and the
worker looks again after its question was answered; a paused registry takes a task only from a
running task, and there is none. `Undisturbed` says this of a step; `OthersDisturbNothing`
shows it for everything that is not a pass, and `PassStepPasses` adds the next activity.
`Closing` does the same for a shutdown (`ShutdownStays`): what `dispose()` waited for cannot come
back, since the registry and the queue are closed. Follow `MaintenanceTypeCorrect`,
`VacuumAlwaysAlone`, `StoreAlwaysClosedLast`, and `NothingEverLeftPaused`, by way of
`EndPassReopens`: unless a shutdown has begun, the registry is not closed and the write queue is not
stopped, so that the `finally` blocks do reopen everything.

Every safety property that a run checks is proved, but for the two that the code violates. Out
of the prover's reach, and model-checked only, is liveness (`WaiterAnswered`, `RowGoesAway`,
`RefusalEnds`, `WaitEnds`, `CallerAnswered`, `AcceptedIsSettled`, `PassesEnd`, `JobsClose`,
`TurnsObserved`). `PendingBytes` folds over a sequence; no property speaks of it.

## 6. Not modelled

* Of the leases: keys without a limit, a limit edited while calls wait, and `tryAcquire` and
  `renew` statement by statement under READ COMMITTED.
* Of the executor: what a provider call does before it settles, the stream relay, a gateway
  without usable providers. Of the token manager: the confidential grant and a login over a
  live credential.
* Of the maintenance passes: the bytes of the memory admission, what a VACUUM or a cleanup
  does, the scheduler's choice of an hour.
* Of the memory jobs: the `advance` verdict that moves the frontier over legacy coverage, the
  legacy path of unbounded stores, oversized messages, embedding jobs, retention, batch
  claims and the wake timer of the lanes, what facts say, a thread that changes its scope,
  idle threads past a maximum age.
* Of the reset credits: see section 2; rows that do not parse, the fallback to the label's key
  and what the callers do after a reset.
* The serial gate, the API-key and OAuth account pools, rate limit and budget, the
  registries: stateful, and next in the plan.
* Routing, protocol translation, classifier, catalog, capability filter, configuration and
  privacy: pure functions of their input, covered by the repository's golden tests; their
  results are constants or free choices above. Provider clients, the SQL of the stores
  beyond what the components use, telemetry, signals, admin and portal: I/O.

## 7. Plan

1. `ApiKeyPool` with compare-and-set; `SerialGate` (its GC timer); `RateLimit`; `CallRegistry`.
2. `LeaseStatements`: `tryAcquire` and `renew` statement by statement under READ COMMITTED.
3. A second family of refresh tokens in `TokenManager` (login over a live credential).

A run asks one question; new components come with one run each, and shallower runs and
properties make room for them.

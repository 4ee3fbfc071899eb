# DispatchHub in TLA+

DispatchHub is a distributed task queue: an API server stores tasks in MySQL and puts
copies of them into Redis, workers fetch and execute the copies, and one of several
schedulers, elected through etcd, runs the maintenance loops. This directory models the
parts that decide what becomes of a task, checks them with TLC on small instances and
proves the central guarantees with TLAPS for every instance.

## Inventory

| Part | State | Operations | Hard because |
|---|---|---|---|
| Queue broker (`redis/queue_broker.go`) | per queue: ready and delayed sorted sets, in-flight hash, lease sorted set, counters | Enqueue, EnqueueDelayed, EnqueueIfNotInflight, Dequeue, Ack, Nack, PromoteDelayed, ReclaimInflight, Remove, cancel pub/sub | scripts are atomic, the pipelines of Ack and Nack and the second half of Dequeue are not; leases expire under slow handlers |
| Task repository (`mysql/task_repository.go`) | the tasks table | Create, Get, Update (optimistic lock), FindStaleByState, TouchUpdatedAt, DeleteTerminalOlderThan, HasRunningTasks | many holders of stale copies write the same row |
| Task service (`task_service_impl.go`) | none | SubmitTask, CancelTask, cron job CRUD | two stores written without a transaction |
| Worker (`worker_app_service.go`) | semaphore, WaitGroup, contexts, map of cancel functions | fetchLoop, processTask, handleSuccess, handleFailure, cancelListenLoop, heartbeatLoop, Run with its drain | crash, failed call, cancel or signal between any two calls |
| Scheduler (`scheduler.go`, `scheduler_app_service.go`) | map of known workers | promote, reclaim, compensate, cleanup, cron, watch and health loops | works on rows and queues that change under it |
| Cron (`cronjob_repository.go`, TriggerDueCronJobs) | cron_jobs table | FindDueCronJobs, ClaimCronJob | two schedulers may run it at once, with different clocks |
| Election (`election.go`, `cmd/scheduler/main.go`) | session, key, isLeader, loops | Run, campaign | etcd and the leader learn of a lost session at different times |
| Registry (`etcd/worker_registry.go`) | leases, one key per worker | Register, Heartbeat, Deregister, WatchWorkers | sync and watch leave a gap, a full channel drops events |
| Middleware (`middleware.go`) | the goroutine and the channel of a handler | Recovery, Logging, Timeout | a timeout does not stop the handler; a panic on another goroutine is not recovered |
| Route validator (`route_validator.go`) | a cached topology and its age | Validate, refresh | read, refresh and verdict are three critical sections of concurrent requests |
| Rate limiter (`ratelimit.go`) | a map of token buckets | Allow, refill | two handlers create the same bucket; fractions of tokens |
| HTTP/gRPC servers | none | submit, cancel, cron jobs, reads | each request runs on a goroutine of its own |
| Config, logging, metrics, mains | values read once at start | | |

What makes each correct: the broker loses no task but in known ways and, unless a client
overtakes the pipeline of another, leaves no in-flight entry that the reclaim loop cannot
see; the table only goes through the transitions of the state machine
and counts attempts exactly; a task whose attempt has begun is always in some queue, lease
or worker; a cancelled task is not executed on; a stored task ends; a scheduled time fires
at most once; at most one leader is valid and a new one takes over; the scheduler's view of
the workers converges; a worker neither loses slots nor ends its drain too early, whatever
its handlers do; the lease of an attempt outlives the attempt; a submission is refused only
for a reason that was recently true; no queue admits more than its rate.

`PROJECT.json` lists every part under `components` and everything that is hard to test, at
its line, under `hazards`.

## Modules

```
Task ── TaskStore ─────┐
  └──── QueueBroker ───┴─ Dispatch ··refines·· TaskLifecycle
Redis ──┘
CronTrigger      Election      Membership
Admission        RateLimiter   WorkerPool     Attempt
```

* **Task**: states, `IsTerminal`, `CanRetry`. A copy of a task (its JSON in Redis, or the
  struct in memory) is a `Member`: id, version, retry count and a `stamp` that stands for
  the timestamps, since those alone make the JSON that compensation writes differ from the
  JSON SubmitTask wrote, and so make two members of one sorted set.
* **Redis**: ZADD, ZREM, ZPOPMIN and ZRANGEBYSCORE on sets of `[member, score]` (external).
* **QueueBroker**: `queue_broker.go`. One action per script; `Ack`/`Nack` start a pipeline
  (`pipe[c]`) whose commands are `ExecHDel`, `ExecZRem`, `ExecLast`: they are built with
  `client.Pipeline()`, so Redis may run other clients' commands between them, and a client
  may vanish (`Vanish`) with any rest of its pipeline unsent. `BrokerSpec` puts the broker
  under arbitrary callers.
* **TaskStore**: `task_repository.go`; each SQL statement is a step. `Written` keeps that
  `Updates(struct)` skips zero fields, `Bumped` that `Update` raises the caller's version
  even when it fails.
* **TaskLifecycle**: the abstract specification: the state table of a task.
* **Dispatch**: API server, workers and scheduler loops over `QueueBroker` and `TaskStore`,
  a step per call. `slot[c].pc` is the place in `processTask`; `cancels[w]` the map of
  cancel functions; `comp` the batch a compensation has read. A graceful stop is not
  distinguished from a crash, because every call `processTask` makes uses the root context
  that the stop cancels.
* **CronTrigger**: `TriggerDueCronJobs` run by several schedulers with clocks of their own.
  `NextJob` takes the scanned jobs in any order. `NextAfter = 0`, the branch for an
  expression that does not parse, is unreachable through the API, which validates with the
  same parser; the instances never return 0.
* **Election**: `Run`/`campaign`. etcd's lease (`lease`, `keys`) and the client's knowledge
  of it (`noticed`) are separate. etcd's `Campaign` waits for the older keys to go and does
  not look whether its own key is still there. `observe` only logs and is left out.
* **Membership**: registry and watch. Ages of heartbeats are counted in heartbeat
  intervals; the clock waits until running workers have beaten and the channel is drained
  (both take milliseconds).
  A process takes up an id again only when what its predecessor sent has arrived or is given
  up (the guard of `Grant`; `LiveRegistered` rests on it).
  `SyncFails` and `WatchCloses` are the two ways a leader's view starts or stays wrong:
  a failed initial sync is only logged, and a watch that etcd closes is not reopened.
* **WorkerPool**: the goroutines of one worker process: `fetchLoop` (`fetch`, `backoff`),
  the semaphore `sem`, the WaitGroup `wg`, a `processTask` per task (`proc`), the goroutine
  that Timeout starts for its handler (`handler`, `result`), and `Run`'s drain (`run`,
  `stop`). Complements `Dispatch`, which has the stores and not the counters.
* **Attempt**: the clocks of one task. `VisibilityTimeout` and `RetryBackoff` translate
  `computeVisibilityTimeout` and `computeRetryBackoff` with integers that wrap at `Half`;
  `Tick` lets an attempt spend time in the handler, bounded by `HandlerLimit`, and around
  it, bounded by `MaxSlack`.
* **Admission**: a submission on its way through the HTTP or gRPC handler, the hook, the
  route validator and the insert, one step per critical section. `since` remembers how long
  each route has had, or been without, a worker. Every registered worker is online: no
  code registers another state.
* **RateLimiter**: `MultiQueueLimiter.Allow` in its three critical sections. Tokens are
  counted in parts (`Unit`), so that a fractional rate is exact. A `Limiter` is named after
  the goroutine that created it, so that two of one queue could be told apart.
* **MC...**: instances. **...Proofs**: theorems.

Operators marked `Mutant` in the modules are wrong variants of the definition below them.
`PROJECT.json` pairs each with the property that must fail when it replaces that
definition; no specification uses them.

## Runs

| Run | Shows |
|---|---|
| `broker_race` | under any calls of two clients, with interleaved and broken pipelines: in-flight entries are leased in every run in which nobody takes a task while another client is between HDEL and ZREM of it (`LeasedUnlessOvertaken`); a task is lost only by Ack or final Nack, by Remove, by a retry that breaks off after HDEL, or by the ZREM of an overtaken pipeline (`LossesKnown`) |
| `dispatch_live` | with expiring leases, interleaved pipelines and a lost enqueue, but no crash or failed call: an attempt that has begun is never forgotten, and every stored task ends |
| `dispatch_faults` | with a crash and two failed calls: the rows refine `TaskLifecycle`; retries are counted exactly, for tasks that every worker has a handler for |
| `dispatch_cancel` | a delayed, cancelled, retried task and a failed call, on two workers with one slot each: the second check in `processTask` closes the cancel window; the delay, which is within the compensation's threshold, is kept |
| `cron` | a scheduler works on due slots only and moves `next_run_at` forward; at most one task per scheduled time; a due job does not stay due |
| `election` | one valid leader; a deposed one stops, another takes over |
| `membership` | every key hangs on a lease, and a running worker that renews its lease has one, also after a restart under the same id; unless the watch is lost, the known queues converge; keys of dead workers go |
| `worker_pool` | slots are neither lost nor doubled and come back from every handler; no nil result reaches `processTask`; the drain ends, and only when nothing is left |
| `attempt` | the lease outlives every attempt of a task with a timeout; retries keep their exponential distance |
| `admission` | a refusal and an admission by the route validator rest on what was so within the refresh interval and two delays of a goroutine |
| `rate_limiter` | no window admits more than the burst and its refill; a steady stream is not starved |

One run ends in a violation: it states what the documents say and shows how the code departs
from it; `findings` quotes the lines:

| Run | Property | What happens |
|---|---|---|
| `terminal_rewritten` | `TerminalFinal` | a cancel between the second check and the Update to running: that Update fails but raises the struct's version, so the Update to completed overwrites `cancelled` |

### Further configurations

Not in the list of runs, kept for a reader who wants the traces. They end in a violation; the
line in brackets is where a document or a comment says otherwise:

| Configuration | Property | What happens |
|---|---|---|
| `SplitPipeline.cfg` | `InflightLeased` | the reclaimed copy of a slow task is dequeued between HDEL and ZREM of the first worker's Ack, which takes its lease: the entry is never reclaimed, and compensation skips the task because the entry is there (`queue_broker.go:166`). `broker_race` checks what is left of it |
| `ExecutedTwice.cfg` | `SingleExecution` | compensation adds a second member for a task still in the ready set (`scheduler_app_service.go:179`, `architecture.md:475`) |
| `CrashStrands.cfg` | `NeverForgotten` | crash between the Update to retrying and Nack: no Update of the redelivered copy matches, then it is acknowledged (`queue_broker.go:475`) |
| `CancelMissed.cfg` | `CancelReachesHandler` | a copy redelivered to the same worker overwrites the running copy's cancel function (`worker_app_service.go:386`) |
| `StartedEarly.cfg` | `NotEarly` | compensation puts a task whose delay is longer than its threshold into the ready set (`queue-design.md:8`) |
| `FaultStrands.cfg` | `NeverForgotten` | the Update to completed fails, the Ack follows all the same (`architecture.md:518`) |
| `FailureUncounted.cfg` | `FailuresCounted` | exhausted tasks leave through Ack and count as completed (`api-reference.md:338`) |
| `RetryRewound.cfg` | `RetryAlwaysCounted` | a worker without the handler fails an attempt with one Update instead of two; the struct of a late copy, raised by its failed Update to running, matches the row and puts its old count back (`api-reference.md:65`) |
| `CronOverlap.cfg` | `NoOverlap` | `HasRunningTasks` sees neither pending nor retrying tasks (`api-reference.md:961`) |
| `LeaseLost.cfg` | `ConsumerKnown` | a worker that lost its lease consumes on and never registers again (`storage.md:595`) |
| `WatchLost.cfg` | `ViewFollows` | etcd closes the watch, `watchWorkers` returns, and the leader's view stays as it is until the next election (`architecture.md:523`) |
| `DrainLoses.cfg` | `DrainFinishes` | the signal cancels the context with which outcomes are written: tasks that end during the drain leave no trace and run again (`architecture.md:263`, `:330`, `deployment.md:371`) |
| `PanicEscapes.cfg` | `PanicContained` | a panic on Timeout's goroutine is recovered nowhere and ends the process (`architecture.md:520`) |
| `StrayHandlers.cfg` | `HandlersBounded` | handlers that outlive their timeout run beside the next tasks (`configuration.md:131`) |
| `CronLease.cfg` | `LeaseAlwaysCovers` | a cron job without a timeout: 30 s of lease, `task_timeout` for the handler (`api-reference.md:381`, `:411`) |
| `BackoffOverflow.cfg` | `BackoffNeverShort` | a large base shifted past 2^63 comes back as a small positive delay, which the test for negative numbers lets pass (`queue_broker.go:75`) |

Two departures need no trace. The wait of `Resume` doubles while it is below the maximum, from
1.6 s to 3.2 s, where `components.md:387` and `architecture.md:228` cap it at 2 s. Between the loss
of a session and its notice the old leader's loops run beside the new one's (`noticed` in
`Election`; `architecture.md:119` has one leader, `leader-split-brain.md` describes the window).

### Bounds

Clocks stop at `MaxTime` (2 or 3 units; a lease, a delay and a backoff are 1 or 2, so each
can pass, several times, within a run). Failures are budgets: `MaxCrashes`, `MaxFaults`,
`MaxLost`, `MaxLosses`, `MaxChanges`, up to four, and every action that fails draws on one. One task in two
hands exhibits the races over a task; the theorems cover more tasks, queues and clients. `MaxRetries` is
2, so that there is a retry and an exhaustion. `Horizon` cuts due times that no clock of
the run reaches; in `dispatch_live` it equals `MaxTime`, so that everything becomes due in the end
although the clock stops. `MaxStat` saturates the counters of a queue. `MaxRev` in
`Election` is never exhausted: two first campaigns and one for each of four losses; the theorem covers more schedulers.
`MaxLive` bounds a cron job's unfinished tasks.

`WorkerPool`: three tasks on two slots, so that tasks wait, slots are reused and a stray
handler overlaps; the backoff reaches its fixed point. `Attempt`: integers of 6 bits
(`Half = 32`), so that backoffs overflow to negative and to small positive numbers within
five retries, timeouts negative, zero and on both sides of `DefaultVisibility -
LeaseBuffer`; `MaxSlack + Skew < LeaseBuffer` is the assumption under which the buffer can
suffice at all. `Admission`: two handlers, since three overlapping refreshes order their
stores no worse than two; `MaxHold` bounds how long a goroutine sits between reading and
using a topology, and the horizon `RefreshEvery + 2 * MaxHold` is tight (with one tick less
both properties fail); four changes make a route served, unserved and served again with
a failed call. `RateLimiter`: half a token per tick makes fractions matter; an age saturates
at `MaxAge`, where every bucket is full, so nothing is cut off.

Deadlock is not checked (`CHECK_DEADLOCK FALSE`) where the model really may end: all tasks done and the
clock at its bound, all schedulers in their final state with the budget spent, the worker process exited, the
task of `Attempt` done. `Membership`, `Admission` and `RateLimiter` run for ever and are checked.

### Fairness

Weak fairness of what goroutines and tickers do: submitting goroutines finish their calls,
every slot of a worker goes on (a handler ends because the Timeout middleware ends it),
each loop of the scheduler runs, Redis and MySQL answer, clocks advance, leases without a keepalive expire, a
client notices a lost session within a TTL. In `WorkerPool` every goroutine but the
handler's goes on (a context is done in the end, because Timeout always sets a deadline);
handlers may hang for ever, and the timer of the drain need not fire. In `RateLimiter` calls
end and time passes. No fairness for users, crashes, failed calls,
restarts and depositions.

## Proofs

All for every number of tasks, queues, clients, schedulers and every bound.

* `DispatchProofs`: the broker alone, then the composed system.
  * `BrokerTypes` (the type invariant), `EveryEntryLeased` (`LeasedUnlessOvertaken`) and
    `LossesAre` (`LossesKnown`), with every interleaving of the pipelines. That entries are
    leased is not so without a condition (`SplitPipeline.cfg`), and with it not inductive: ZREM
    of a pipeline removes a lease, so one has to know that the entry went with the HDEL before
    and has not come back. `Paired` is `EntryGone` (between HDEL and ZREM the entry is gone)
    and `EntryLeased`; only a Dequeue of the same task can bring the entry back, and its
    client then holds the task, which is what `Overtaken` says. The condition is on the run
    (`[]~Overtaken`), not on the program; the code does not ensure it once a lease has
    expired under a handler. `BrokerInv`, which needs no condition, is `Types` (types with the
    shape of every pipeline) and `HomeInv` (an entry is stored in its task's queue, under its
    task's id; what a pipeline may contain).
    `LossesAre` is an action property: each action keeps the task in one of ready, delayed,
    in-flight or a retry being written, or is one of the four steps of `KnownLoss`; each of
    the four does occur in `broker_race`. The step lemmas are about
    `CallerStep`, any caller of the broker that provides tasks, runs each client's calls in
    turn and may forget clients; the free callers of `BrokerSpec` are one, the whole system is
    another. Further lemmas say where the copies of a task can be after each call
    (`ProvideStored`, `LoopsStored`, `CallsStored`, `ForgetStored`, `ListedStays`,
    `ReturnListed`).
  * `DispatchTypes` (`TypeOK`). `Base` adds to it which of task, struct and pipeline a slot
    has at each point of `processTask`. With it every step of the system is a `CallerStep`
    (`DispatchCalls`), so that `DispatchLeased` (`LeasedUnlessOvertaken`) and
    `DispatchLosses` (`LossesKnown`) follow from the lemmas about the broker.
  * `RetriesCounted` (`RetryCounted`). Nothing but the version orders the writers of a row,
    and `Update` raises the version of the struct even when it fails, so that a stale struct
    might match later. `Attempts` says why it cannot: every attempt raises the version
    twice. A copy in a queue, a pipeline, a batch or a hand that has not started has version
    2 * retry + 1, a struct after the Update to running 2 * retry + 2, whether that Update
    matched or not; a row between these versions has that count. `RowMoves` lists what a step
    does to a row. The argument needs two Updates per attempt, hence tasks that every worker
    can handle (`Handled`): a worker without the handler fails an attempt with one, and
    `RetryRewound.cfg` has the count that is then put back.
  * `ImplementsLifecycle` (`LifecycleSpec`), the refinement of `TaskLifecycle`, for tasks
    that in addition nobody cancels (`terminal_rewritten` is why). `Stages`: version and
    count decide the state of a row, so a write whose version matches makes a transition
    of the table.
  * `NothingForgotten` (`NeverForgotten`), under `[][Calm]_vars`: no worker crashes, and none
    of the calls fails with which a worker extends its lease, writes a row or settles a task.
    Reads of the row, the API server's and the scheduler's calls may fail, anything may be
    cancelled, pipelines interleave, handlers may be missing, leases may expire.
    `Begun`: a running row has a worker past its start whose struct has the row's version, a
    retrying row a copy of that version in a queue, on its way back or in a hand, or a
    cancellation that has passed its Remove. A settling call by anybody else takes away another copy.
    `CrashStrands.cfg` and `FaultStrands.cfg` show that one crash or one failed call breaks it.
    `NothingForgottenQuietly` discharges `Calm` for `MaxCrashes = MaxFaults = 0`, as in
    `dispatch_live`. The exception in `NeverForgotten` is real: a cancel between the second
    check and the Update to running lets the Update to retrying overwrite `cancelled`
    (as in `terminal_rewritten`); when Remove then takes the returned copy, the row stays
    retrying and nobody has the task.
  * `ShortDelaysKept` (`ShortDelayKept`), whatever fails. A copy leaves the delayed set when
    it is due, but the compensation goes around that set: it enqueues a copy read from the
    row. `Timely`: the time asked for lies within the delay of the last write of the row, since
    every write dates it; so a row older than `StaleAfter` is of a task that is due, if its
    delay is no longer. `Kept`: every copy on a ready list, in flight, on its way back, in a
    hand or in a batch is due (`NewOut` lists the ways it got there). `StartedEarly.cfg` shows a longer delay cut short.
  * `CancelReaches` (`CancelReachesHandler`), under `[]Alone`: no worker works on two
    copies of one task at once. `CancelInv`: a message means that the request is through;
    between `trackCancel` and `untrackCancel` the map has the execution's own function; a
    delivered message of a cancelled row has reached the context. `CancelMissed.cfg` shows
    that `Alone` is needed. It holds in `dispatch_cancel`, whose workers have one slot each; with
    the many slots of a real worker it is an assumption about the run.
* `MembershipProofs`: `MembershipTypes` (`TypeOK`), `EveryKeyLeased` (`KeysLeased`) and
  `LiveWorkersRegistered` (`LiveRegistered`). Neither invariant is inductive: whether a late
  heartbeat revives a key depends on the lease it carries, and that lease on the life of the
  process that sent it. `Entry` ties key, lease, process and Put on its way together for one
  worker: what is renewed belongs to a process that came up, what a process left behind is on
  record as orphaned, and a new process of the same id moves the key to its own lease.
* `AdmissionProofs`: `AdmissionTypes`, `RefusalsJustified`, `AdmissionsJustified`. The
  topology that decides a request was listed by any handler and stored late, with a fresh
  `lastRefresh`. `Lag` bounds the age of the news that each of a list, the cache and a
  request about to decide can have missed: `late`, `age + MaxHold`, `RefreshEvery + late +
  MaxHold`. `TopologyFaithful` is the one lemma about data: the topology built from a list
  has a route exactly when a listed worker serves it, and is empty exactly when none has a
  queue. Assumed: `MaxHold`, and that the default queue has a name.
* `CronTriggerProofs`: `CronSafe` and `CronTypes`, types and `AtMostOncePerSlot`. `SlotsDue`, a part of `TypeOK`: a scanned slot has come on its
  scheduler's clock and the time computed from the clock lies after it. `ClaimInv`: a slot claimed or fired lies
  before the job's `next_run_at`, claims not yet turned into tasks are of distinct slots and not fired yet. Hence the
  compare-and-swap cannot succeed twice on one slot. The assumption on `NextAfter` (a time
  after its argument) is what the cron library promises.
* `ElectionProofs`: `ElectionSafe` and `ElectionTypes`, types and `OneValidLeader`. `Past`: every revision handed
  out is below the next one. `LeaderOldest`: the key of a leader, while it is there, is
  the oldest. The keys of others can only be younger when they are put and only disappear otherwise.
* `RateLimiterProofs`: `LimiterSafe` and `LimiterTypes`, types and `RateBounded`. A bucket that was idle holds
  tokens for admissions still to come, so the bound alone is not inductive. `Ledger`: over
  every window that reaches back to the bucket's last refill, admissions and tokens together
  stay below the burst and the refill of the rest of the window; a shorter window has seen no
  admission. `Held`: nobody uses a `Limiter` that is not the one in the map, which is where the
  second look under the write lock is needed.
* `AttemptProofs`: `LeaseSafe` (`LeaseCovers`), `AttemptTypes` (`TypeOK`) and `RetriesSpaced` (`RetrySpacing`). `Budget` divides
  the age of a lease into time in the handler, at most its deadline, and time around it, at
  most `MaxSlack`; the lease is the visibility timeout, which `VisibilityLong` shows to exceed
  the deadline by the buffer. `BackoffBounded`: whatever the shift wraps to, the delay is
  between 0 and the cap. `Drawn` ties the delay of an entry to the count and the base it was
  drawn for, and `BackoffDocumented` that backoff to the formula of the documents while nothing
  overflows. The provers know nothing of powers of two: `PowerAssumption` states, for the
  exponents that occur, that they are positive and grow. Assumed besides: `MaxSlack + Skew < LeaseBuffer`, and timeouts small enough
  for the buffer to be added.
* `WorkerPoolProofs`: `PoolSafe`, `PoolTypes`, `ResultsNotNil`, `DrainSafe`. `Counts`: `sem` is the number of executions that
  have not reached the deferred function plus the Dequeue under way, `wg` that of goroutines
  that have not ended. `Order`: the drain begins behind `fetchLoop`, and "done" has seen `wg`
  at zero. `Answers`: what lies in the channel is a result. The lemmas `Enters`, `Leaves`
  and `Stays` say how one moving task changes a cardinality.

With TLC only: all liveness, since the prover does neither fairness nor ENABLED
(`EventuallyTerminal`, `DueIsHandled`, `DeposedStops`, `Takeover`, `ViewConverges`, `GhostsExpire`,
`SlotsRecover`, `DrainEnds`, `NotStarved`).

## Not modelled

Payloads, results, wording and JSON layout; read-only operations (Get, list, statistics,
metrics) and the conversions of the gRPC server; start and stop of the servers;
configuration, whose values are constants; generated code. Float rounding in the limiter;
`Limiter.Wait`, which repeats `Allow` and has no caller. That the limiter's map keeps an entry
for every queue name ever asked for is plain from `Create`, and nothing bounds it. The
concurrent refreshes of the route validator all go to etcd; how many is not bounded. Redis and
MySQL do not lose data they acknowledged.

## Plan

1. Done: broker, store, dispatch, cron, election, membership with the loss of the watch;
   worker pool and middleware, timing of an attempt, admission, rate limiter.
2. Done: the theorems above. Every safety property of a passing run is the statement of a
   theorem.
3. Next proofs: a weaker condition than `Alone` for `CancelReaches`.
4. Next modules: `Membership` composed with the queues that promote and reclaim visit.

# Arkloop: runs, their jobs and their workers in TLA+

TLA+ modules, TLC configurations and TLAPS proofs for the core of Arkloop's
backend (`src/src/services`): how a run is queued, leased and executed by
exactly one worker at a time, how its event log grows, how it is cancelled,
fed, scanned, reaped and superseded meanwhile, what a client that streams the
log sees, how an account's concurrent runs are counted, how sub-agents run and
report to their parent's thread, who may start a run in a thread, and how a
run's answer reaches a chat.

Paths below are relative to `src/src/services` unless they start with `src/`.

## The system

A user's message creates a *run* in a *thread*. The API writes the run's row,
its first event and a job in one transaction. A worker leases the job, executes
the agent loop and appends events to the run; clients follow these over SSE.
PostgreSQL holds everything that must survive; Redis holds the counters of
concurrent runs and carries broadcasts; `NOTIFY` only shortens waits.

| Component | State | Operations | Hard because |
|---|---|---|---|
| Job queue, `worker/internal/queue/pg_queue.go` | `jobs`: status, attempts, lease token, two timestamps | EnqueueRun, Lease, Heartbeat, Ack, Nack, dead-letter | leases expire under live holders; lookups race inserts |
| Consumer, `worker/internal/consumer` | the worker goroutines, advisory locks, heartbeats | RunOnce, processLease, heartbeatLoop, settle, scaling | crashes, lost sessions, failing statements, two goroutines reporting at once |
| Run row and event log, `api/internal/data/runs_repo.go`, `worker/internal/data` | `runs.status`, `run_events(seq, type)` | create, cancel, input, append, force-fail, supersede | many writers, one row lock, one number per event |
| Handler, guard, event writer, `worker/internal/{executor,pipeline}` | an open transaction, the attempt's position | Handle, cancel guard, early failures, Append, commit | reads in one transaction used in the next; retries |
| Injection scan, `pipeline/mw_injection_scan.go` | a goroutine per run, inline scans | report, block | writes beside the loop's own transaction |
| Reaper, `api/internal/jobs/stale_run_reaper.go` | none | list, force-fail, resynchronise counters | acts on live runs |
| SSE stream, `api/internal/http/conversationapi/v1_runs.go` | a cursor per connection | catch-up, batches, resume | relies on commit order and on numbers that differ |
| Run slots, `shared/runlimit`, `api/internal/data/run_limiter.go` | a counter per account | acquire, release, set | released by several parties, some in contexts that end early; retries |
| In-memory queue, `queue/channel_queue.go` | the jobs of the desktop process | as the job queue | no takeover of expired leases |
| Sub-agents, `worker/internal/subagentctl`, `worker/internal/data/sub_agents_repo.go` | a row per sub-agent, its current run, the inputs that wait | send_input, resume, interrupt, close, wait, project an end | parallel tool calls plan on unlocked reads; work behind commits |
| Thread runs, `api/internal/data/runs_repo.go`, `subagentctl/projector.go`, `pipeline/mw_subagent_callbacks.go` | the active runs of a thread, its callbacks | claim, supersede, cancel a heartbeat, create callback runs, consume | two ways to create a run, an order of runs that is not that of the lock, unlocked lists, hooks behind ends |
| Channel delivery, `pipeline/mw_channel_delivery.go`, `pipeline/channel_delivery_drain.go`, `data/channel_delivery_outbox_repo*.go` | `channel_delivery_outbox` | insert, send, note progress, fail, drain, settle | a lease that no write checks; segments sent in several messages; retries of sends and of runs |
| Scheduler, `api/internal/scheduler` | triggers | claim, fire, postpone | a crash between claim and fire |

What makes each part correct:

- *queue and consumer*: one handler per run at a time; a lease has one holder;
  a job is done only after a handler succeeded and dead only when its attempts
  are used up; every job settles and every lock comes free;
- *run and log*: numbers without gaps and without duplicates; one end; nothing
  from the agent after a cancel; an input accepted once; the row says what the
  log says; an ended run stays ended; every run ends;
- *stream*: what the cursor has passed was delivered; the client catches up;
- *slots*: an account never executes more runs than its limit, and no slot is
  lost (the code keeps either under conditions, below);
- *sub-agents*: one run at a time; the row says what the run says; an input that
  waits is taken; a wait misses no end; a busy sub-agent is worked on;
- *thread*: one active run, and a heartbeat's beside it at most (the code lets a
  third in, below); a callback that
  waits is watched, is consumed only when it was shown, and does not keep its
  thread busy for ever;
- *channel delivery*: "sent" means delivered, "dead" means tried, nothing is
  sent twice without a reason, every row is settled.

Gateway, sandbox, bridge, CLI, the desktop shell and the web applications are
listed in `PROJECT.json` and not modelled: they are clients of the core or
services of their own.

## Modules

| Module | Models | Composed with |
|---|---|---|
| `JobQueue` | the `jobs` table, one operator per SQL statement | |
| `Consumer` | workers over the queue: lock, handler and heartbeat goroutines, settling, crashes | extends `JobQueue` |
| `ExclusiveExecution` | what queue and consumer promise together, without leases, tokens, locks or heartbeats | instantiated by `Consumer` |
| `MCConsumer` | values of `RunOf`, symmetry | extends `Consumer` |
| `ConsumerProofs` | the theorems about `Consumer` | extends `Consumer`, `TLAPS` |
| `RunLifecycle` | one run: row, log, attempts, API calls, scan, reaper, supersede | |
| `RunLifecycleProofs` | the theorems about `RunLifecycle` | extends `RunLifecycle`, `TLAPS` |
| `RunStream` | an SSE client of that run | extends `RunLifecycle` |
| `RunStreamProofs` | the theorems about `RunStream` | extends `RunStream`, `RunLifecycleProofs` |
| `RunSlots` | the counter of an account's concurrent runs and all who move it | |
| `MCRunSlots` | symmetry | extends `RunSlots` |
| `RunSlotsProofs` | the theorems about `RunSlots` | extends `RunSlots`, `TLAPS` |
| `SubAgents` | one sub-agent: row, runs, inputs, the parent's calls, a waiter | |
| `MCSubAgents` | symmetry | extends `SubAgents` |
| `SubAgentsProofs` | the theorems about `SubAgents` | extends `SubAgents`, `TLAPS` |
| `ThreadRuns` | the runs and callbacks of one thread | |
| `MCThreadRuns` | symmetry, and a view that leaves out used slots | extends `ThreadRuns` |
| `ThreadRunsProofs` | the theorems about `ThreadRuns` | extends `ThreadRuns`, `TLAPS` |
| `ChannelDelivery` | the outbox rows of one run and their senders | |
| `ChannelDeliveryProofs` | the theorems about `ChannelDelivery` | extends `ChannelDelivery`, `TLAPS` |

### JobQueue and Consumer

A job is a record of its row: `status`, `attempts`, `token`, `elapsed`. A job
waits on one timestamp at a time, `available_at` while queued and
`leased_until` while leased, and `elapsed` says whether it has passed; it may
pass at any moment, so every relative speed of clocks, heartbeats and retries
is covered, and the length of the retry delay does not matter beyond its being
positive. A token is the number of the lease within the job, which is fresh as
`uuid.New()` is. `EnqueueRun` is two steps for a job that executes a run,
the lookup and the insert with the unique index of migration 00155; that both
find no job is the race the index decides. Jobs of other types (webhooks,
knowledge-base ingestion) have `RunOf = NoRun`, no index entry and no lock.
Which eligible job a worker takes, and what capabilities it asks for, is any.

A worker is a goroutine with a program counter:

| `pc` | in `loop.go` |
|---|---|
| `idle` | `RunOnce`, `waitForWork` |
| `leased` | `processLease` before the lock |
| `supervising` | the `select` over `jobDone` and `heartbeatReason` |
| `stopping` | `<-jobDone` after `cancelJob` |
| `acking`, `nacking` | `settleJob`, `safeAck`, `safeNack` |
| `unlocking` | the deferred unlock |

`handler` and `reason` are what its two goroutines have done, `errors` is the
count of consecutive heartbeat failures. `lock` maps a run to the session that
holds `pg_advisory_lock`. `Crash` leaves the lock with a `DeadSession` until
PostgreSQL notices; `SessionEnds` also happens under a live worker, which the
code cannot notice: such runs are recorded in `lostLocks`, and exclusion is
promised for the others only. `succeeded` and `starts` are history variables.
A handler may ignore its context for as long as it likes. The model has
heartbeats enabled, as the default configuration has.

### RunLifecycle and RunStream

`log` is the committed part of `run_events` in commit order; `batch` the rows
of `eventWriter`'s open transaction. PostgreSQL's row lock is the guard
`RowFree`: a writer that takes the lock, reads and appends in one transaction is
one action, enabled while no batch is open. What takes longer is several
actions: the attempt's reads (`Handle`, the guard's two) and its later writes,
the batch, and the one statement of `ForceFailRun` and
`supersedeSubagentCallbackRun`, whose snapshot (`ForceFailRunStarts`,
`SupersedeStarts`) is older than the row it gets (`ForceEnds`). This is READ
COMMITTED as PostgreSQL does it: an UPDATE that waited re-reads the updated row
and nothing else of the statement.

An attempt goes through `handle`, `receive`, `guard`, `guardTerminal`,
`pipeline`, `agent`, and ends `finished`, then `done`, or fails and is `queued`
again or `dead`. `AttemptFails` may happen anywhere but in a statement without a
deadline: errors, a cancelled context and deadlines all roll back and nack.
`Consumer` is what justifies that attempts of one run follow each other.

The injection scan adds `ScanReports` (transactions of their own, from the
middleware, a goroutine that may outlive the attempt, or tool output),
`InjectionBlocks` (the goroutine blocks the run), and the inline scan of an
input (`ScanInput`, `InputScanned`, `InputBlocked`). `Interactive` says that the
executor is `agent.interactive`, which streams a segment event just before the
loop polls its inputs, so that the transaction may be open there. Inputs are not
consumed in the model: the number of scans is bounded, not their subject.

An event is its number, its type and a note: the input key, or `NoKey`, the
empty string that `ProvideInputWithKey` leaves out. Agent events are one type;
messages, usage, credits and channel deliveries written in the same transactions
are left out. `RunStream` adds a client: what arrives is any cut of the rows after
the cursor in the order of `seq`, for a page or a connection may end anywhere, and
the next request resumes behind the last row that arrived. `ListEvents` orders by
`seq` alone, so among rows with one `seq` the cut may take any of them, and the
rest is behind the cursor for good.

### RunSlots

`counter` is the Redis key of an account. A run's `phase` is at first its
request (`admitted`: `TryAcquire` succeeded, nothing committed), then its job
(`queued`, `executing`, `ending`: the terminal event is committed and the slot
not yet released), at last `over`. `creator` says whose request it is: `createThreadRun` (`api`) leaves the
slot to the worker, the scheduler's deferred `Release` also runs after the
commit (`returning`), and other creators take none. A request that fails gives
its slot back with `r.Context()`: `CreateFails` releases, or, when the client has
gone (`ClientIsGone`), the script fails and the key stays as it is. A commit whose
answer is an error gives back the slot of a run that is there
(`CommitIsUnanswered`). `sync` splits `SyncFromDB` into its query and its SET. An
attempt that fails may have released or not: `Execute` can fail before the release
is deferred. `lost` counts the slots whose release never reached Redis, for that
reason, by a dead process or by a gone client; it and `reaped` are history, and
`Holders` are those who are still to release, no run that is over among them. Two processes' fallback counters (Redis down), the key's expiry
after a day and deployments without a limiter are not modelled. The runs are
root runs; `releaseSlot` does nothing for others.

### SubAgents

One sub-agent whose first run is over. A tool call of the parent is two steps:
`Plan`, the unlocked read of `mustLoadOwnedSubAgent`, kept in `seen`, and its
transaction. What the transaction checks again is what the locked transition
checks: `CreateRun` needs `MayQueue`, `Close` takes a queued sub-agent, and
`QueueInput` and `Interrupt` check nothing, so an input may be queued behind a
run that has ended. `row` is the child runs, `pending` the inputs that wait,
`enq` and `maker` the enqueue that follows a commit and the process that owes it;
`CrashBehindCommit` is that process's death. An attempt is `starting`,
`pipeline` or `loop`: it may end early (`EndsEarly`, `appendAndCommitSingle`,
which does not look at the inputs) or in the loop (`Ends`, which makes the next
run from them). `publishing` are the `run.child.*.done` messages that are still
to be sent; the waiter is `waitOneByRedis`, one step per call. `lost` and
`stranded` are history, and say in the properties where the code gives up: a
crash behind a commit, a dead job and the reaper leave the sub-agent busy for
good, because nothing but its run ever moves its row.

### ThreadRuns

The runs of one thread in slots that are used again. A claim is two steps under
the thread's row lock, the look at the newest active run and the transaction
that acts on it: only runs may change between the two, and they do, since ends
do not take the thread's row. "Newest" is by `created_at`, whose default `now()` is
the time the transaction began (migration 00003:30), while the row is locked later,
after other claims: `InsertRun` may put a run behind any of the active ones
(`Places`), and `late` remembers that it did. What `resolveHeartbeatConflict` finds in the
messages is open: a claim may go beside the heartbeat, cancel it or be refused.
`cb` is the callback rows, `old` the age at which `ListPendingByThread` forgets
them. `hook` is what a worker does behind a commit: list the pending callbacks,
check that the thread is idle and create a run for the oldest, enqueue it, and
when that fails mark it and try another. `shown` is what the middleware put
into an attempt's prompt. `wakeup` is history: whether the last end was followed
by a look for callbacks, which ends written by the cancel guard, the reaper and
a supersede are not.

### ChannelDelivery

The rows of one run, of kind `message`. `owed` is what the worker is about to
hand over: the notice of a failed attempt or the answer. `row` holds status,
content, `sent` (`segments_sent`), `attempts` and the lease, which in the code is
a date: `lease` names the sender it was given to, `nobody` while it or a backoff
runs without a sender, `free` once it has passed. A sender works with the copy it
has read (`at`): next segment, attempts. That is the code's, which checks
neither lease nor status when it writes. `LeaseIsOverrun` frees a row under its
sender. A segment is `Parts` messages, sent one per step as `SendText` does it
(`part`), and a refusal of one fails the segment: what arrived of it is not noted
and is sent again. `copies` counts how often the chat got each message of the
answer, `failures` what senders met, `cut` the refusals inside a segment; all are
history. The six platforms' senders follow the same protocol and are one here.
A batch of rows is several drains by one drainer: waiting behind other rows
shows only as a lease that is overrun.

## Runs

| Run | Shows | Instance |
|---|---|---|
| `consumer_safety` | type, exclusion, one active job, one holder, done means handled, retry budget, how leases end, and that `Consumer` implements `ExclusiveExecution` | 2 workers (symmetric), 2 jobs of 1 run, 2 attempts, 2 heartbeat errors; 0.66 M states |
| `consumer_liveness` | every job settles, every lock is released | 1 worker, a job of a run and another one, 2 attempts; 37 k states |
| `run_forced` | what holds with reaper and supersede: no gaps, no work after a cancel, inputs once, row and log agree, ended stays ended, and every run ends unless its attempt waits behind its own transaction | 2 attempts, 2 agent events or scans, 1 input key, interactive; 0.46 M states |
| `run_unforced` | without forced terminations: unique numbers, one end, the stream loses nothing and catches up | 2 attempts, 2 events, interactive; 125 k states |
| `slots_shared` | a slot is lost to a crash, a gone client or an attempt that fails early, and to nothing else; the limit holds for API runs that are not retried | 3 runs (symmetric) of any creators, limit 1, 2 attempts, the reaper; 2.8 M states |
| `sub_agents` | one run per sub-agent, row and run agree, inputs are taken, waits miss no end, somebody works on a busy sub-agent | 2 calls (symmetric), 2 runs of calls and 1 of inputs, 2 attempts, 1 mishap; 1.6 M states |
| `thread_runs` | only a late run shares its thread with another one, heartbeats aside; callbacks watched and shown, no deadlock | 3 run slots and 2 workers (symmetric), 2 callbacks, 1 mishap, 1 late run at a time; 1.9 M states |
| `thread_callbacks` | callback runs stop | 2 run slots, 2 callbacks, 1 worker, no mishap; 127 k states |
| `channel_delivery` | sent means delivered, dead means tried, every copy has its cause, every row settled | 2 drainers and the inline sender, 2 segments of 2 messages, 2 attempts, 1 notice, 2 mishaps; 0.94 M states |
| `run_duplicate_seq` | violation of `SeqUnique` | 1 attempt, 1 agent event, cancels, the reaper; in the trace a cancel is the other writer |
| `run_stuck_scan` | violation of `EveryRunEnds` | 1 attempt, 2 events, interactive, the reaper |
| `delivery_swallowed` | violation of `AnswerIsDelivered` | 1 drainer, 2 segments, 1 notice, no mishap |

Bounds. Two workers are enough for a takeover and for a stale holder beside a
current one; two attempts for a takeover, a retry and a dead letter; two jobs of
a run for the race of two enqueues and for a job that is enqueued while the
previous one's handler still runs. Two heartbeat errors stand for three: below
the limit and at it. In `RunLifecycle` two attempts allow writes of an earlier
attempt to meet reads of a later one, and two agent events a batch that is
longer than one and a batch after a commit. In `RunSlots` three runs let a slot
be taken, given back twice and taken by a third; `TwoMishaps` lets two slots be
lost, or one and the reaper come, after which `NoSlotLeaks` and `LimitKept` claim
nothing more. In `SubAgents` two
calls meet each other and the end of a run between their two steps, and the
third run is the one made from an input. In `ThreadRuns` three slots hold a run,
a heartbeat beside it and a third that must not be there unless it or the first is
late; `OneLate` stops where two late runs are active, the theorem does not; two
callbacks are what a list can have an oldest of; `MCThreadRuns` identifies states that differ only
in slots nobody speaks of, which `InsertRun` overwrites. In `ChannelDelivery`
two drainers and the inline sender let a stale sender write beside the one that
took over and beside a third; two messages let a refusal fall between them, and
two segments a segment be done before; two mishaps are an overrun and a loss; two
attempts (of five) let a count be forgotten and still be reached. `thread_runs`
and `thread_callbacks` check for deadlock; the other systems come to rest, when
jobs are settled, runs over, inputs used up or rows sent, and say
`CHECK_DEADLOCK FALSE`.

Fairness. `Consumer`'s `FairSpec`: goroutines are scheduled (`WorkerStep`,
`TakeStep`), the clock advances (`Tick`), and a handler returns, which the run's
deadline and the cancelled context see to. Nothing is assumed of clients,
heartbeats, crashes, sessions or of which of two ready channels a `select`
takes. Liveness holds for any number of crashes because a crash uses up an
attempt. `RunLifecycle`'s: attempts go on (the consumer's liveness), time
passes, the reaper polls. `RunStream`'s: the stream polls at its heartbeat
interval. Notifications are not assumed to arrive. `ThreadRuns`': claims and
attempts end, time passes, and a hook gets the thread's row in the end although
claims take it again and again (strong fairness: PostgreSQL's lock queue is
first come, first served). `ChannelDelivery`'s: the run ends, senders go on,
backoffs pass, and some drainer drains a free row, as each does every ten
seconds. `SubAgents` has none: `BusyIsWorkedOn` says as an invariant that
somebody who will move the row exists.

## What the violations show

1. **Two events with one number** (`run_duplicate_seq`). The reaper lists a silent
   run and `ForceFailRun` starts: `MAX(seq) + 1` on the statement's snapshot is 2.
   A user's cancel has the row, commits `run.cancel_requested` as 2, and leaves the
   run active; `ForceFailRun` gets the row and inserts `run.failed` as 2. Whoever
   holds the row meanwhile can be the other writer, a worker's batch too. The
   comment at `api/internal/data/runs_repo.go:1343` says the UPDATE serialises the
   allocation. The unique key contains `ts` and does not object. An event of
   another type than a forced end's (`run.failed`, `run.cancelled`) never takes a
   number that is taken (`OnlyForcedEndsCollide`). A client can miss either of the
   two events, not only the forced end: `ListEvents` has no second sort key, and a
   page or connection that ends between them leaves one behind the cursor. No other
   event is missed (`OnlySharedNumbersLost`).
2. **A run nobody can end** (`run_stuck_scan`). With `agent.interactive`, a
   streamed segment event leaves the row locked while the loop scans an input
   over another connection. The report waits until the run's deadline; blocking
   the input then waits without one, for the lock of its own attempt, and
   the reaper and the user's cancel wait behind it. Blocking has to be enabled.
3. **An answer the notice swallows** (`delivery_swallowed`). An attempt that ends
   in an error delivers the error as a notice, in the run's only live row of its
   kind, and is retried. The retry's `InsertPending` returns that row, sent and
   at segment 1, and the answer goes on from there: its first segment is never
   sent, and what fails is not retried, because a drainer would not find a sent
   row and would find the notice's payload. The package comment of
   `channel_delivery_outbox_repo_types.go` promises at-least-once delivery.
   In a run that handed over no notice a row that says "sent" does mean that the
   answer has arrived (`DeliveredWithoutNotices`), whatever crashed or overran its
   lease meanwhile. That is all it means: an answer whose hand-over is lost, by a
   crash between the run's end and `InsertPending` or by an insertion that fails,
   which is only logged, has no row (`HandOverIsLost`) and is never sent.

The properties that hold have exceptions, and these say where the code does less
than one would expect:

- `SingleTerminal` needs a run nobody ends by force: a worker past the guard's
  reads writes a second terminal event after a supersede's or the reaper's,
  although the comment at `runs_repo.go:252-255` says the worker stops.
- `NoSlotLeaks` counts the slots that are lost and says that nothing else loses
  any. Beside crashes, the code loses one when the client of `createThreadRun`
  goes away before the commit: the deferred release has the request's context
  (`v1_runs.go:347`, `358`), the script fails, and `runlimit.go:122-126` decrements
  the process's fallback counter instead. It loses another when a run's last
  attempt fails before `Execute` defers the release. Such a slot is taken until a run
  that took none releases one, the reaper sets the counter, or the key expires.
- `OnlyLateRunsShare` excepts late runs, so the thread may have two runs that are
  both normal: a user's claim begins, a heartbeat's claim begins later, is served
  first and creates its run; the user's claim then goes beside the heartbeat, and
  its run, whose `created_at` is earlier, sorts behind it; the next user's claim
  finds the heartbeat as the newest run and goes beside it as well. The comment at
  `runs_repo.go:210-211` says that normal against normal is refused. The property
  says that a late run is the only way.
- `LimitKept` speaks of first attempts of API runs: `slotOnce` is per attempt, so
  a failed attempt that will be retried gives its slot to another run, and runs
  of channels and of the scheduler release a slot that is not theirs. Nothing
  is claimed once the reaper has set the counter: `SyncFromDB` counts `running`
  rows and forgets runs being cancelled or just admitted.
- `InputsHaveARun` excepts inputs that were stranded: a `send_input` planned on a
  run that has ended since, the cancel guard's and the pipeline's early ends, a
  failed enqueue, the reaper and a close leave inputs where they are.
- `BusyIsWorkedOn` and `RowMatchesRun` except `lost` runs: the reaper ends the run
  and not the sub-agent, and an end with `run.interrupted` is refused by
  `TransitionToTerminal`, so that the attempts burn. Such a sub-agent is busy for
  good, and takes inputs that nobody will read.
- `WaiterIsWoken` excepts a sub-agent that went on to another run: the waiter
  listens to the channel of the run it saw first, until its timeout.
- `ConsumedWasShown` excepts supersedes: the claim consumes every callback of the
  thread, unseen ones too, although the comment at `runs_repo.go:248-250` says
  that no meaning is lost, and also when the callback run has ended since the
  claim's look.
- `PendingIsWatched` excepts ends without hooks (`wakeup`), and `CallbackRunsStop`
  holds because of the age limit: a callback that turns ten minutes old while its
  parent's run works is forgotten by everyone.
- `CopiesHaveCauses` allows copies: a refusal of a later message of a split segment
  (`channel_sender_telegram.go:33-60`, `channel_sender_discord.go:66-89`) repeats
  the messages before it with every retry, and failures, losses and overrun leases
  repeat what they concern. It bounds the copies of the answer by these; copies of
  notices are not counted. `SentIsDelivered` speaks of rows made for an answer.
- `WaiterIsWoken` takes a subscription to be there before the second look at the
  row. go-redis writes SUBSCRIBE and does not wait for the acknowledgement, so the
  message of an end that commits behind the look is missed if it overtakes the
  SUBSCRIBE; `waitOneByRedis` has no polling, and such a wait lasts until its
  timeout.

## Proofs

Each module's theorems hold for any values of its constants, under the assumption
the module states (`JobQueueAssumption`, `ConsumerAssumption`,
`RunLifecycleAssumption`, `RunSlotsAssumption`, `SubAgentsAssumption`,
`ThreadRunsAssumption`, `DeliveryAssumption`), which TLC evaluates in the module's
runs. Three theorems assume `Forcers = {}` besides, as the run `run_unforced` does:
a run that is neither reaped nor superseded. With a forcer two of the properties
fail, as `run_duplicate_seq` and the section above say, and what is left of them is
proved for every run by `OnlyForcedEndsCollide` and `OnlySharedNumbersLost`.

| Theorem | Property | Argument |
|---|---|---|
| `ConsumerProofs` | | |
| `TypeCorrect` | `TypeOK` | inductive together with the position of each worker: a heartbeat can fail only while no reason is given, so `errors` stays below its limit |
| `HandlersExclude` | `OneHandlerPerRun` | a worker whose handler runs holds its run's lock, or the run is in `lostLocks`; a lock has one holder |
| `LeaseHasOneHolder` | `OneHolder` | tokens a worker remembers are at most the job's attempts, a new one is above them, and two workers never remember the same one |
| `RunHasOneActiveJob` | `OneActiveJobPerRun` | only the guarded insert makes a job active |
| `DoneJobsSucceeded` | `DoneWasHandled` | a worker that is to ack has seen a handler of its job return nil |
| `LeasesEndProperly` | `LeaseEndsProperly` | per action, from the invariants above |
| `RetriesBudgeted` | `RetryBudget` | `StartsPaid`: the starts, and the workers that hold a lease and have not started, are together at most the leases; `TokensNumbered`: the attempts a worker settles by are the current ones |
| `ConsumerImplements` | `ImplementsExclusiveExecution` | the initial states map to initial states; each action maps to an abstract one or a stutter, by the exclusion, the holder and the budget above |
| `RunLifecycleProofs` | | |
| `TypeCorrect` | `TypeOK` | inductive together with the numbers and `BatchClean` |
| `NumberedWithoutGap` | `Gapless` | log and open transaction together are numbered 1 to m; a number computed too early is one of these |
| `CancelledWorkStops` | `WorkStopsAtCancel` | while a transaction is open no cancellation is in the log, for its lock keeps `RequestCancel` out, and a row that is committed is permitted by what its writer looked at |
| `InputsOnce` | `InputsAcceptedOnce` | look and append are one transaction under the lock |
| `StatusInLog` | `StatusMatchesLog` | each committed row moves the status as its type says (`StatusInv`, which names the end instead of choosing the last) |
| `EndIsFinal` | `EndedStaysEnded` | per kind of step |
| `NumbersAreUnique` | `SeqUnique`, `Forcers = {}` | a row's number is its place in log and transaction (`PlacesInv`) |
| `EndsOnce` | `SingleTerminal`, `Forcers = {}` | an attempt at work has seen no end and nobody else writes one (`WorkInv`) |
| `OnlyForcedEndsCollide` | | a row that is not of a forced end's types has a number above all before it (`GrowInv`) |
| `RunStreamProofs` | | |
| `NothingSkipped` | `NoEventSkipped`, `Forcers = {}` | the stream only looks, so the invariants of `RunLifecycle` hold; a later row lies behind every cursor |
| `OnlySharedNumbersLost` | | with `UnforcedRowsGrow`: a later row is above the cursor, or it shares its number and is of a forced end's type; and a cut leaves out below its end nothing but rows that share the last number |
| `RunSlotsProofs` | | |
| `TypeCorrect` | `TypeOK` | inductive by itself |
| `SlotsAreHeld` | `NoSlotLeaks` | a step takes no more runs from `Holders` than it takes from the counter or adds to `lost`; only the steps that keep Redis from its release add to it |
| `LimitIsKept` | `LimitKept` | as long as only first attempts happened, the runs that have their slot are at most as many as are counted, and these at most `Limit` |
| `SubAgentsProofs` | | |
| `SubAgentTypeOK` | `TypeOK` | inductive with `IInv`: an attempt that goes on has a lease left |
| `SubAgentHasOneRun` | `OneActiveRun` | a run is created for a locked row at rest, which has no current run, and then by `RowMatchesRun` no active one |
| `RowAndRunAgree` | `RowMatchesRun` | every end that unlinks a run ends it in the same transaction |
| `SomebodyWorks` | `BusyIsWorkedOn` | an enqueue is owed from the commit on and given up only into `lost` |
| `InputsWaitForARun` | `InputsHaveARun` | `stranded` is set to `pending` by each end that does not look |
| `WaiterMissesNoEnd` | `WaiterIsWoken` | a run that ended after the second look has its message to come, and one that ended before is seen by that look |
| `ThreadRunsProofs` | | |
| `ThreadTypes` | `TypeOK` | inductive by itself |
| `OnlyLateRunsShareAThread` | `OnlyLateRunsShare` | `Order`: a callback run shares its thread with no run, a run that is not late sorts before the heartbeat it went beside, so beside the newest run a claim has seen there are late runs only; and what it saw stays true while it holds the row |
| `CallbacksAreWatched` | `PendingIsWatched` | a callback is born with a hook, every end leaves one, and a list leaves none out |
| `CallbacksAreShown` | `ConsumedWasShown` | per action |
| `ChannelDeliveryProofs` | | |
| `DeliveryTypes` | `TypeOK` | inductive by itself |
| `SentHasArrived` | `SentIsDelivered` | no write is checked, so nobody owns the row; but what any sender has in hand is true (`Progress`: the segments before its next one arrived) and stays true |
| `DeadHasFailed` | `DeadWasTried` | `Tried`: the failures a row or a sender counts have happened |
| `AnswerCopiesHaveCauses` | `CopiesHaveCauses` | `Counted`: the copies of a message, the senders that have it before them and the one the row may still get are at most one more than the row's failures and the mishaps; `OnceInv`: without mishaps the answer is in one hand, and what it has before it was not sent, or was cut |
| `DeliveredWithoutNotices` | `run.notices = 0 => AnswerIsDelivered` | without a notice every used row is the answer's, and `SentHasArrived` does the rest |

Each is proved the same way: an invariant strengthened until it is inductive,
one step per action, `PTL` at the end. In `ConsumerProofs` the strengthenings are
the conjuncts a reader of `loop.go` has in mind: which positions have a lease, when
a handler may run, who may hold a lock. In `SubAgentsProofs` the properties carry
each other (`IInv`); in `ChannelDeliveryProofs` `NoticesComeFirst` is needed too,
since a row of the answer is written only by senders of the answer.

In `RunLifecycleProofs` the actions are first sorted into kinds (`StepKinds`):
whatever its actor, a step writes nothing, adds an agent event to the open
transaction, or commits that transaction with one row, its own, which is
`Permitted` by what the writer saw. `ShapeInv` is what that needs: types, numbers,
that a transaction has agent events only, and `BatchClean`, that there is no
cancellation in the log while one is open. The last is the inductive form of
`WorkStopsAtCancel`: without it an open transaction could be committed behind a
cancellation. The properties then follow in three cases each.

In `RunSlotsProofs` two sets of runs bound the counter from both sides: `Holders`
from above, which a step may leave only by paying, and the runs that still have
their slot from below, which is an invariant only until the first retry. The
reaper's `SyncFromDB` breaks both, which is why the properties stop there.

TLC finds no violation of `UnforcedRowsGrow` and `OnlySharedNumbersSkipped` under
`run_forced`'s constants either.

Only model-checked: the liveness properties `EveryJobSettles`, `LockReleased`,
`EndsOrStuck`, `StreamCatchesUp`, `CallbackRunsStop` and `RowsSettle`. Liveness
under fairness, and anything else that needs ENABLED, is out of the prover's reach.
Induction over data (what a recursive definition computes for every input) and
RECURSIVE operators are too, but these modules need neither.

## Hazards without a property, and the plan

`PROJECT.json` lists the hazards with their lines. Next, in this order:

1. `ConsumerScaling`: `evaluateScaling`, spawning, and the two-step exit of a
   worker above the target. Properties: the number of workers stays within its
   limits, no wake-up of the scaler is lost.
2. `ChannelJobQueue`: the in-memory queue, compared with `JobQueue`: which of
   `Consumer`'s properties it keeps.
3. `Scheduler`: claim, fire, postpone. Property: a due trigger fires or stays due.
   Known from reading: the claim moves `next_fire_at` on by the interval, a minute
   for a job without one, and only an update behind the run's commit sets it to
   the job's schedule; a process that dies between the two fires a daily job again
   a minute later.
4. Compaction jobs: the upsert and the handler that reloads its payload.

Theorems to come: an abstract specification of a run's outcome (one end, nothing
behind a cancel, each input once), implemented by `RunLifecycle`, whose step kinds
are the steps such a proof would map; and the theorems of the modules above once
they are written.

## Not modelled

Beside the components `PROJECT.json` lists as such: the spawn limits of
`subagentctl/governance.go`, which are counted without a lock, so that two parallel
spawns can both pass; the turns of the agent loop; of the deliveries, texts that
are streamed during a run and bypass the outbox, payloads that cannot be parsed
and channel types nobody drains (both are leased again for ever without
counting an attempt), the injection block notice, and the clean-up of old rows;
the window between `hasOutboundForRun` and the cancel of a heartbeat, in which
the heartbeat may speak. The desktop's variants over SQLite are different code
behind the same interfaces and not covered.

## Running

In this directory, `tlc -config <run>.cfg <module>` for a run of `PROJECT.json`
and `tlapm <module>.tla` for the seven modules of proofs.

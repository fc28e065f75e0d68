------------------------------ MODULE Consumer ------------------------------
(***************************************************************************)
(* The worker's consumer loop (src/src/services/worker/internal/consumer/  *)
(* loop.go) over the job queue: RunOnce leases a job, processLease takes   *)
(* the run's advisory lock, starts the handler and the heartbeat loop in   *)
(* goroutines of their own, waits for whichever reports first, settles the *)
(* lease and releases the lock.                                            *)
(*                                                                         *)
(* A worker is one goroutine of one process.  Its process may crash at any *)
(* point, statements may fail, and the PostgreSQL session that holds an    *)
(* advisory lock may end while the handler it protects goes on.            *)
(***************************************************************************)
EXTENDS JobQueue

CONSTANTS Workers,              \* the worker goroutines of all processes
          NoWorker,             \* holder of a free advisory lock
          DeadSession,          \* a session whose process is gone
          NoJob,                \* lease.job of a worker without a lease
          HeartbeatMaxErrors    \* heartbeatMaxConsecutiveErrors (3)

ASSUME ConsumerAssumption ==
    /\ NoWorker \notin Workers
    /\ DeadSession \notin Workers
    /\ NoWorker # DeadSession
    /\ NoJob \notin Jobs
    /\ HeartbeatMaxErrors \in Nat \ {0}

VARIABLES
    pc,          \* where each worker is in RunOnce / processLease
    lease,       \* the JobLease it works on
    handler,     \* its handler goroutine: "none", "running", or the result
                 \* waiting in jobDone ("ok", "error")
    reason,      \* what heartbeatLoop has put into heartbeatReason, or "none"
    errors,      \* consecutiveErrors of its heartbeatLoop
    lock,        \* the session that holds each run's advisory lock
    lostLocks,   \* history: runs whose lock ended under a live holder
    succeeded,   \* history: jobs one of whose handlers returned nil
    starts       \* history: how often each job's handler was started

workerVars == <<pc, lease, handler, reason, errors>>
historyVars == <<lostLocks, succeeded, starts>>
vars == <<queueVars, workerVars, lock, historyVars>>

PCs == {"idle", "leased", "supervising", "stopping",
        "acking", "nacking", "unlocking"}

NoLease == [job |-> NoJob, token |-> NoToken, attempts |-> 0]
Leases == [job : Jobs, token : 1 .. MaxAttempts, attempts : 1 .. MaxAttempts]

JobRun(j) == RunOf[j]
Handling(w) == handler[w] = "running"

Init ==
    /\ QueueInit
    /\ pc = [w \in Workers |-> "idle"]
    /\ lease = [w \in Workers |-> NoLease]
    /\ handler = [w \in Workers |-> "none"]
    /\ reason = [w \in Workers |-> "none"]
    /\ errors = [w \in Workers |-> 0]
    /\ lock = [r \in Runs |-> NoWorker]
    /\ lostLocks = {}
    /\ succeeded = {}
    /\ starts = [j \in Jobs |-> 0]

-----------------------------------------------------------------------------
(* Clients and the clock.                                                  *)

Enqueue(j) ==
    /\ FindActiveRunExecuteJob(j) \/ EnqueueRun(j)
    /\ UNCHANGED <<workerVars, lock, historyVars>>

Tick(j) ==
    /\ TimestampPasses(j)
    /\ UNCHANGED <<workerVars, lock, historyVars>>

-----------------------------------------------------------------------------
(* RunOnce and processLease.                                               *)

Lease(w, j) ==
    /\ pc[w] = "idle"
    /\ TryLeaseOne(j)
    /\ pc' = [pc EXCEPT ![w] = "leased"]
    /\ lease' = [lease EXCEPT ![w] = [job |-> j, token |-> jobs'[j].token,
                                      attempts |-> jobs'[j].attempts]]
    /\ UNCHANGED <<handler, reason, errors, lock, historyVars>>

\* The second half of Lease's loop, run when tryLeaseOne found nothing.
MarkDead(w, j) ==
    /\ pc[w] = "idle"
    /\ TryMarkDeadOne(j)
    /\ UNCHANGED <<workerVars, lock, historyVars>>

\* The handler and the heartbeat loop start; both run beside the worker.
StartHandler(w) ==
    /\ pc' = [pc EXCEPT ![w] = "supervising"]
    /\ handler' = [handler EXCEPT ![w] = "running"]
    /\ errors' = [errors EXCEPT ![w] = 0]
    /\ starts' = [starts EXCEPT ![lease[w].job] = @ + 1]
    /\ UNCHANGED <<queueVars, lease, reason, lostLocks, succeeded>>

\* Mutant: the answer of pg_try_advisory_lock is ignored.
TryAcquireAlways(w) ==
    LET r == JobRun(lease[w].job) IN
    /\ pc[w] = "leased"
    /\ r # NoRun
    /\ lock' = [lock EXCEPT ![r] = w]
    /\ StartHandler(w)

TryAcquire(w) ==
    LET r == JobRun(lease[w].job) IN
    /\ pc[w] = "leased"
    /\ r # NoRun
    /\ lock[r] = NoWorker
    /\ lock' = [lock EXCEPT ![r] = w]
    /\ StartHandler(w)

\* Jobs of other types run without a lock.
RunUnlocked(w) ==
    /\ pc[w] = "leased"
    /\ JobRun(lease[w].job) = NoRun
    /\ StartHandler(w)
    /\ UNCHANGED lock

\* The lock is busy, or taking it failed: the lease is given back.
DeferRetry(w) ==
    /\ pc[w] = "leased"
    /\ JobRun(lease[w].job) # NoRun
    /\ pc' = [pc EXCEPT ![w] = "nacking"]
    /\ UNCHANGED <<queueVars, lease, handler, reason, errors, lock, historyVars>>

\* The handler goroutine puts its result into jobDone, which has room for it,
\* whether or not its context was cancelled.
HandlerReturns(w, result) ==
    /\ Handling(w)
    /\ handler' = [handler EXCEPT ![w] = result]
    /\ succeeded' = IF result = "ok" THEN succeeded \cup {lease[w].job}
                                     ELSE succeeded
    /\ UNCHANGED <<queueVars, pc, lease, reason, errors, lock, lostLocks, starts>>

\* A beat of heartbeatLoop, which ends once it has given a reason.
Beating(w) == pc[w] = "supervising" /\ reason[w] = "none"

Beat(w) ==
    /\ Beating(w)
    /\ Heartbeat(lease[w].job, lease[w].token)
    /\ errors' = [errors EXCEPT ![w] = 0]
    /\ UNCHANGED <<pc, lease, handler, reason, lock, historyVars>>

BeatLost(w) ==
    /\ Beating(w)
    /\ LeaseLost(lease[w].job, lease[w].token)
    /\ reason' = [reason EXCEPT ![w] = "lease_lost"]
    /\ UNCHANGED <<pc, lease, handler, errors, lock, historyVars>>

\* Mutant: the limit on consecutive errors is never reached.
BeatFailsForever(w) ==
    /\ Beating(w)
    /\ errors' = [errors EXCEPT ![w] = @ + 1]
    /\ UNCHANGED <<queueVars, pc, lease, handler, reason, lock, historyVars>>

\* Any other error of the statement; the third in a row ends the job.
BeatFails(w) ==
    /\ Beating(w)
    /\ errors' = [errors EXCEPT ![w] = @ + 1]
    /\ reason' = IF errors[w] + 1 >= HeartbeatMaxErrors
                   THEN [reason EXCEPT ![w] = "too_many_errors"] ELSE reason
    /\ UNCHANGED <<queueVars, pc, lease, handler, lock, historyVars>>

\* Mutant: a failed job is acked.
JobDoneAcksAll(w) ==
    /\ pc[w] = "supervising"
    /\ handler[w] \in {"ok", "error"}
    /\ pc' = [pc EXCEPT ![w] = "acking"]
    /\ handler' = [handler EXCEPT ![w] = "none"]
    /\ UNCHANGED <<queueVars, lease, reason, errors, lock, historyVars>>

\* select: case err := <-jobDone.
JobDone(w) ==
    /\ pc[w] = "supervising"
    /\ handler[w] \in {"ok", "error"}
    /\ pc' = [pc EXCEPT ![w] = IF handler[w] = "ok" THEN "acking" ELSE "nacking"]
    /\ handler' = [handler EXCEPT ![w] = "none"]
    /\ UNCHANGED <<queueVars, lease, reason, errors, lock, historyVars>>

\* select: case reason := <-heartbeatReason; the job's context is cancelled.
HeartbeatGaveUp(w) ==
    /\ pc[w] = "supervising"
    /\ reason[w] # "none"
    /\ pc' = [pc EXCEPT ![w] = "stopping"]
    /\ UNCHANGED <<queueVars, lease, handler, reason, errors, lock, historyVars>>

\* <-jobDone after the cancel: the result is dropped.
HandlerStopped(w) ==
    /\ pc[w] = "stopping"
    /\ handler[w] \in {"ok", "error"}
    /\ pc' = [pc EXCEPT ![w] = IF reason[w] = "lease_lost" THEN "unlocking"
                                                           ELSE "nacking"]
    /\ handler' = [handler EXCEPT ![w] = "none"]
    /\ UNCHANGED <<queueVars, lease, reason, errors, lock, historyVars>>

\* safeAck and safeNack: a lost lease or a failing statement is only logged.
Settle(w) ==
    LET l == lease[w] IN
    /\ pc[w] \in {"acking", "nacking"}
    /\ \/ pc[w] = "acking" /\ Ack(l.job, l.token)
       \/ pc[w] = "nacking" /\ Nack(l.job, l.token, l.attempts)
       \/ LeaseLost(l.job, l.token)
    /\ pc' = [pc EXCEPT ![w] = "unlocking"]
    /\ UNCHANGED <<lease, handler, reason, errors, lock, historyVars>>

SettleFails(w) ==
    /\ pc[w] \in {"acking", "nacking"}
    /\ pc' = [pc EXCEPT ![w] = "unlocking"]
    /\ UNCHANGED <<queueVars, lease, handler, reason, errors, lock, historyVars>>

\* The worker forgets its lease and is ready for RunOnce again.
BackToIdle(w) ==
    /\ pc' = [pc EXCEPT ![w] = "idle"]
    /\ lease' = [lease EXCEPT ![w] = NoLease]
    /\ handler' = [handler EXCEPT ![w] = "none"]
    /\ reason' = [reason EXCEPT ![w] = "none"]
    /\ errors' = [errors EXCEPT ![w] = 0]

\* Mutant: unlock is forgotten on the way out.
ReturnWithoutUnlock(w) ==
    /\ pc[w] = "unlocking"
    /\ BackToIdle(w)
    /\ UNCHANGED <<queueVars, lock, historyVars>>

\* The deferred unlock, on the session that took the lock.
Unlock(w) ==
    /\ pc[w] = "unlocking"
    /\ lock' = [r \in Runs |-> IF lock[r] = w THEN NoWorker ELSE lock[r]]
    /\ BackToIdle(w)
    /\ UNCHANGED <<queueVars, historyVars>>

-----------------------------------------------------------------------------
(* Failures.                                                               *)

\* The process of w dies and is restarted; PostgreSQL has not noticed yet.
Crash(w) ==
    /\ pc[w] # "idle"
    /\ lock' = [r \in Runs |-> IF lock[r] = w THEN DeadSession ELSE lock[r]]
    /\ BackToIdle(w)
    /\ UNCHANGED <<queueVars, historyVars>>

\* PostgreSQL ends the session that holds a lock and releases it: the session
\* of a dead process, or the connection of a worker that is still running.
SessionEnds(r) ==
    /\ lock[r] # NoWorker
    /\ lock' = [lock EXCEPT ![r] = NoWorker]
    /\ lostLocks' = IF lock[r] \in Workers THEN lostLocks \cup {r} ELSE lostLocks
    /\ UNCHANGED <<queueVars, workerVars, succeeded, starts>>

-----------------------------------------------------------------------------

WorkerStep(w) ==
    \/ TryAcquire(w)
    \/ RunUnlocked(w)
    \/ DeferRetry(w)
    \/ JobDone(w)
    \/ HeartbeatGaveUp(w)
    \/ HandlerStopped(w)
    \/ Settle(w)
    \/ SettleFails(w)
    \/ Unlock(w)

HandlerStep(w) == \E result \in {"ok", "error"} : HandlerReturns(w, result)

HeartbeatStep(w) == Beat(w) \/ BeatLost(w) \/ BeatFails(w)

TakeStep(w) == \E j \in Jobs : Lease(w, j) \/ MarkDead(w, j)

Next ==
    \/ \E j \in Jobs : Enqueue(j) \/ Tick(j)
    \/ \E w \in Workers : \/ TakeStep(w) \/ WorkerStep(w) \/ HandlerStep(w)
                          \/ HeartbeatStep(w) \/ Crash(w)
    \/ \E r \in Runs : SessionEnds(r)

Spec == Init /\ [][Next]_vars

\* Goroutines are scheduled, handlers return (a run has a deadline), the clock
\* advances.  No fairness for heartbeats, clients or failures.
Fairness ==
    /\ \A j \in Jobs : WF_vars(Tick(j))
    /\ \A w \in Workers : /\ WF_vars(TakeStep(w))
                          /\ WF_vars(WorkerStep(w))
                          /\ WF_vars(HandlerStep(w))

FairSpec == Spec /\ Fairness
-----------------------------------------------------------------------------
(* Properties.                                                             *)

\* The state has the shape the declarations give it.
TypeOK ==
    /\ jobs \in [Jobs -> JobRows]
    /\ checked \subseteq Jobs
    /\ pc \in [Workers -> PCs]
    /\ lease \in [Workers -> Leases \cup {NoLease}]
    /\ handler \in [Workers -> {"none", "running", "ok", "error"}]
    /\ reason \in [Workers -> {"none", "lease_lost", "too_many_errors"}]
    /\ errors \in [Workers -> 0 .. HeartbeatMaxErrors]
    /\ lock \in [Runs -> Workers \cup {NoWorker, DeadSession}]
    /\ lostLocks \subseteq Runs
    /\ succeeded \subseteq Jobs
    /\ starts \in [Jobs -> Nat]

\* No two handlers execute the same run at the same time, however leases
\* expire, are taken over and are given back, unless PostgreSQL ended the
\* session that held the run's advisory lock under a live worker.
OneHandlerPerRun ==
    \A v, w \in Workers :
        /\ v # w
        /\ Handling(v) /\ Handling(w)
        /\ RunOf[lease[v].job] = RunOf[lease[w].job]
        /\ RunOf[lease[v].job] # NoRun
        => RunOf[lease[v].job] \in lostLocks

\* A run never has two jobs that are queued or leased (concurrent EnqueueRun
\* calls may both have found none).
OneActiveJobPerRun ==
    \A j, k \in Jobs :
        /\ j # k
        /\ IsActive(j) /\ IsActive(k)
        => RunOf[j] = NoRun \/ RunOf[j] # RunOf[k]

HoldsCurrent(w, j) ==
    /\ pc[w] # "idle"
    /\ lease[w].job = j
    /\ jobs[j].status = "leased"
    /\ lease[w].token = jobs[j].token

\* A lease that expired under one worker and was taken over by another is
\* never held by both.
OneHolder ==
    \A j \in Jobs, v, w \in Workers :
        HoldsCurrent(v, j) /\ HoldsCurrent(w, j) => v = w

\* A job is done only if one of its handlers returned nil.
DoneWasHandled == \A j \in Jobs : jobs[j].status = "done" => j \in succeeded

\* Every start of a handler is paid for by a lease, no job waits for a lease
\* it may not have, and only a job that used all its leases is dead.
RetryBudget ==
    \A j \in Jobs :
        /\ starts[j] <= jobs[j].attempts
        /\ jobs[j].status = "queued" => jobs[j].attempts < MaxAttempts
        /\ jobs[j].status = "dead" => jobs[j].attempts = MaxAttempts

\* If this step ends j's lease, then its holder settles it, after its handler
\* has stopped, or it has expired and j is taken over or buried.
LeaseEnd(j) ==
    /\ jobs[j].status = "leased"
    /\ jobs'[j].token # jobs[j].token
    => \/ \E w \in Workers : HoldsCurrent(w, j) /\ ~Handling(w)
       \/ jobs[j].elapsed /\ jobs'[j].status \in {"leased", "dead"}

\* A lease ends in these two ways only: a worker that lost its lease never
\* disturbs the next holder, and none settles a job its handler still works on.
LeaseEndsProperly == [][\A j \in Jobs : LeaseEnd(j)]_vars

\* Every job that is queued or leased is eventually done or dead: crashed
\* workers, lost leases and failing statements only use up attempts.
EveryJobSettles ==
    \A j \in Jobs : IsActive(j) ~> jobs[j].status \in {"done", "dead"}

\* No worker keeps a run's lock forever.
LockReleased ==
    \A r \in Runs, w \in Workers : lock[r] = w ~> lock[r] # w

Phase(j) == IF IsActive(j) THEN "pending" ELSE jobs[j].status

\* The consumer implements ExclusiveExecution: attempts are the tries, a job is
\* executed while its handler runs, and losing a lock exposes the run.
Exclusive == INSTANCE ExclusiveExecution WITH
    phase <- [j \in Jobs |-> Phase(j)],
    tries <- [j \in Jobs |-> jobs[j].attempts],
    executing <- [w \in Workers |-> IF Handling(w) THEN lease[w].job ELSE NoJob],
    good <- succeeded,
    exposed <- lostLocks

ImplementsExclusiveExecution == Exclusive!Spec
=============================================================================

--------------------------- MODULE ConsumerProofs ---------------------------
(***************************************************************************)
(* Proofs about Consumer, for any number of jobs, runs and workers and any *)
(* limits: its state stays well formed, handlers of one run exclude each   *)
(* other, a lease has one holder, a run has one active job, a job is done  *)
(* only after one of its handlers succeeded, a lease ends only by its      *)
(* holder's hand or after it expired, and retries keep to their budget.    *)
(* Together these make the consumer an implementation of                   *)
(* ExclusiveExecution, which is proved last.                               *)
(*                                                                         *)
(* Most of these are not inductive as they stand.  The definitions below   *)
(* say what they rest on; each is shown to be preserved in a lemma of its  *)
(* own, with one step per action.                                          *)
(***************************************************************************)
EXTENDS Consumer, FiniteSetTheorems, TLAPS

Busy(w) == pc[w] # "idle"

\* A worker has a lease exactly while it is busy, and a handler only while it
\* waits for one.
WorkerShape ==
    \A w \in Workers :
        /\ Busy(w) <=> lease[w] \in Leases
        /\ ~Busy(w) => lease[w] = NoLease
        /\ handler[w] # "none" => pc[w] \in {"supervising", "stopping"}

\* heartbeatLoop gives its reason at the limit, so it never counts past it.
ErrorsBounded ==
    \A w \in Workers : reason[w] = "none" => errors[w] < HeartbeatMaxErrors

\* A handler's run is locked by its worker, until the session is lost.
HandlerHoldsLock ==
    \A w \in Workers :
        Handling(w) /\ JobRun(lease[w].job) \in Runs \ lostLocks
        => lock[JobRun(lease[w].job)] = w

\* Tokens are numbered like the leases of a job, and no two workers ever have
\* the same one.
TokensDistinct ==
    /\ \A w \in Workers : Busy(w) => lease[w].token <= jobs[lease[w].job].attempts
    /\ \A v, w \in Workers :
         Busy(v) /\ Busy(w) /\ v # w /\ lease[v].job = lease[w].job
         => lease[v].token # lease[w].token

\* What a worker acks has succeeded.
AckedSucceeded ==
    \A w \in Workers :
        handler[w] = "ok" \/ pc[w] = "acking" => lease[w].job \in succeeded

ShapeInv == TypeOK /\ WorkerShape /\ ErrorsBounded

-----------------------------------------------------------------------------
(* The statements on the jobs table keep it well formed.                   *)

QueueTypeOK == jobs \in [Jobs -> JobRows] /\ checked \subseteq Jobs

USE DEF Statuses, NoToken, queueVars, workerVars, historyVars, vars

LEMMA SettledType ==
    ASSUME QueueTypeOK, NEW j \in Jobs, NEW s \in Statuses
    PROVE  Settled(j, s) \in [Jobs -> JobRows]
<1>1. jobs[j] \in JobRows
  BY DEF QueueTypeOK
<1>2. 0 \in 0 .. MaxAttempts
  BY JobQueueAssumption
<1>3. [jobs[j] EXCEPT !.status = s] \in JobRows
  BY <1>1 DEF JobRows
<1>4. [[jobs[j] EXCEPT !.status = s] EXCEPT !.token = 0] \in JobRows
  BY <1>2, <1>3 DEF JobRows
<1>5. [jobs[j] EXCEPT !.status = s, !.token = 0, !.elapsed = FALSE] \in JobRows
  BY <1>4 DEF JobRows
<1> QED BY <1>5 DEF QueueTypeOK, Settled

LEMMA EnqueueType ==
    ASSUME QueueTypeOK, NEW j \in Jobs, FindActiveRunExecuteJob(j) \/ EnqueueRun(j)
    PROVE  QueueTypeOK'
<1>1. CASE FindActiveRunExecuteJob(j)
  BY <1>1 DEF QueueTypeOK, FindActiveRunExecuteJob
<1>2. CASE EnqueueRun(j)
  BY <1>2 DEF QueueTypeOK, JobRows, EnqueueRun
<1> QED BY <1>1, <1>2

LEMMA TakeType ==
    ASSUME QueueTypeOK, NEW j \in Jobs, TryLeaseOne(j)
    PROVE  /\ QueueTypeOK'
           /\ jobs'[j].token \in 1 .. MaxAttempts
           /\ jobs'[j].attempts \in 1 .. MaxAttempts
<1>1. jobs[j].attempts \in 0 .. MaxAttempts /\ jobs[j].attempts < MaxAttempts
  BY DEF QueueTypeOK, JobRows, TryLeaseOne
<1>2. jobs[j].attempts + 1 \in 1 .. MaxAttempts
  BY <1>1, JobQueueAssumption
<1> QED BY <1>2, JobQueueAssumption DEF QueueTypeOK, JobRows, TryLeaseOne, NewToken

LEMMA StatementType ==
    ASSUME QueueTypeOK, NEW j \in Jobs, NEW tok, NEW tries,
           \/ TryMarkDeadOne(j)
           \/ Heartbeat(j, tok)
           \/ Ack(j, tok)
           \/ Nack(j, tok, tries)
           \/ LeaseLost(j, tok)
           \/ TimestampPasses(j)
    PROVE  QueueTypeOK'
<1>1. CASE TryMarkDeadOne(j)
  BY <1>1, SettledType DEF QueueTypeOK, TryMarkDeadOne
<1>2. CASE Heartbeat(j, tok)
  BY <1>2 DEF QueueTypeOK, JobRows, Heartbeat
<1>3. CASE Ack(j, tok)
  BY <1>3, SettledType DEF QueueTypeOK, Ack
<1>4. CASE Nack(j, tok, tries)
  BY <1>4, SettledType DEF QueueTypeOK, Nack
<1>5. CASE LeaseLost(j, tok)
  BY <1>5 DEF QueueTypeOK, LeaseLost
<1>6. CASE TimestampPasses(j)
  BY <1>6 DEF QueueTypeOK, JobRows, TimestampPasses
<1> QED BY <1>1, <1>2, <1>3, <1>4, <1>5, <1>6

-----------------------------------------------------------------------------
(* The shape of the state.                                                 *)

LEMMA ShapeInit == Init => ShapeInv
BY JobQueueAssumption, ConsumerAssumption
   DEF Init, QueueInit, ShapeInv, TypeOK, WorkerShape, ErrorsBounded, Busy,
       JobRows, PCs, NoLease, Leases

\* A handler is started only by a worker that holds a lease.
LEMMA StartHandlerShape ==
    ASSUME ShapeInv, NEW w \in Workers, pc[w] = "leased", StartHandler(w),
           lock' \in [Runs -> Workers \cup {NoWorker, DeadSession}]
    PROVE  ShapeInv'
<1>1. lease[w] \in Leases /\ lease[w].job \in Jobs
  BY DEF ShapeInv, WorkerShape, Busy, Leases
<1>2. TypeOK'
  BY <1>1, ConsumerAssumption DEF ShapeInv, TypeOK, StartHandler, PCs
<1>3. WorkerShape'
  BY <1>1 DEF ShapeInv, TypeOK, WorkerShape, Busy, StartHandler, PCs
<1>4. ErrorsBounded'
  BY ConsumerAssumption DEF ShapeInv, TypeOK, ErrorsBounded, StartHandler
<1> QED BY <1>2, <1>3, <1>4 DEF ShapeInv

LEMMA BackToIdleShape ==
    ASSUME ShapeInv, NEW w \in Workers, BackToIdle(w), UNCHANGED queueVars,
           UNCHANGED historyVars,
           lock' \in [Runs -> Workers \cup {NoWorker, DeadSession}]
    PROVE  ShapeInv'
<1>1. TypeOK'
  BY ConsumerAssumption DEF ShapeInv, TypeOK, BackToIdle, PCs
<1>2. WorkerShape'
  BY ConsumerAssumption
     DEF ShapeInv, TypeOK, WorkerShape, Busy, BackToIdle, PCs, NoLease, Leases
<1>3. ErrorsBounded'
  BY ConsumerAssumption DEF ShapeInv, TypeOK, ErrorsBounded, BackToIdle
<1> QED BY <1>1, <1>2, <1>3 DEF ShapeInv

LEMMA ShapeNext == ShapeInv /\ [Next]_vars => ShapeInv'
<1> SUFFICES ASSUME ShapeInv, [Next]_vars PROVE ShapeInv'
  OBVIOUS
<1> USE DEF ShapeInv
<1>q. QueueTypeOK
  BY DEF TypeOK, QueueTypeOK
<1>1. CASE UNCHANGED vars
  BY <1>1 DEF TypeOK, WorkerShape, ErrorsBounded, Busy
<1>2. ASSUME NEW j \in Jobs, Enqueue(j) \/ Tick(j) PROVE ShapeInv'
  <2>1. QueueTypeOK' /\ UNCHANGED <<workerVars, lock, historyVars>>
    BY <1>q, <1>2, EnqueueType, StatementType DEF Enqueue, Tick
  <2> QED BY <2>1 DEF TypeOK, QueueTypeOK, WorkerShape, ErrorsBounded, Busy
<1>3. ASSUME NEW w \in Workers, NEW j \in Jobs, Lease(w, j) PROVE ShapeInv'
  <2>1. /\ QueueTypeOK'
        /\ jobs'[j].token \in 1 .. MaxAttempts
        /\ jobs'[j].attempts \in 1 .. MaxAttempts
    BY <1>q, <1>3, TakeType DEF Lease
  <2>2. lease'[w] \in Leases
    BY <1>3, <2>1 DEF Lease, Leases, TypeOK
  <2>3. handler[w] = "none"
    BY <1>3 DEF Lease, WorkerShape, TypeOK
  <2>4. TypeOK'
    BY <1>3, <2>1, <2>2 DEF TypeOK, QueueTypeOK, Lease, PCs
  <2>5. WorkerShape'
    BY <1>3, <2>2, <2>3 DEF TypeOK, WorkerShape, Busy, Lease
  <2>6. ErrorsBounded'
    BY <1>3 DEF ErrorsBounded, Lease
  <2> QED BY <2>4, <2>5, <2>6
<1>4. ASSUME NEW w \in Workers, NEW j \in Jobs, MarkDead(w, j) PROVE ShapeInv'
  <2>1. QueueTypeOK' /\ UNCHANGED <<workerVars, lock, historyVars>>
    BY <1>q, <1>4, StatementType DEF MarkDead
  <2> QED BY <2>1 DEF TypeOK, QueueTypeOK, WorkerShape, ErrorsBounded, Busy
<1>5. ASSUME NEW w \in Workers, TryAcquire(w) PROVE ShapeInv'
  <2>1. lock' \in [Runs -> Workers \cup {NoWorker, DeadSession}]
    BY <1>5 DEF TryAcquire, TypeOK
  <2> QED BY <1>5, <2>1, StartHandlerShape DEF TryAcquire
<1>6. ASSUME NEW w \in Workers, RunUnlocked(w) PROVE ShapeInv'
  BY <1>6, StartHandlerShape DEF RunUnlocked, TypeOK
<1>7. ASSUME NEW w \in Workers, DeferRetry(w) PROVE ShapeInv'
  BY <1>7 DEF TypeOK, WorkerShape, ErrorsBounded, Busy, DeferRetry, PCs
<1>8. ASSUME NEW w \in Workers, NEW result \in {"ok", "error"},
             HandlerReturns(w, result)
      PROVE  ShapeInv'
  <2>1. lease[w].job \in Jobs /\ pc[w] \in {"supervising", "stopping"}
    BY <1>8 DEF HandlerReturns, Handling, WorkerShape, Busy, Leases
  <2> QED
    BY <1>8, <2>1 DEF TypeOK, WorkerShape, ErrorsBounded, Busy, HandlerReturns
<1>9. ASSUME NEW w \in Workers, Beat(w) PROVE ShapeInv'
  <2>1. lease[w].job \in Jobs
    BY <1>9 DEF Beat, Beating, WorkerShape, Busy, Leases
  <2>2. QueueTypeOK'
    BY <1>9, <1>q, <2>1, StatementType DEF Beat
  <2> QED
    BY <1>9, <2>2, ConsumerAssumption
       DEF TypeOK, QueueTypeOK, WorkerShape, ErrorsBounded, Busy, Beat
<1>10. ASSUME NEW w \in Workers, BeatLost(w) PROVE ShapeInv'
  BY <1>10 DEF TypeOK, WorkerShape, ErrorsBounded, Busy, BeatLost, LeaseLost
<1>11. ASSUME NEW w \in Workers, BeatFails(w) PROVE ShapeInv'
  <2>1. errors[w] + 1 \in 0 .. HeartbeatMaxErrors
    BY <1>11, ConsumerAssumption DEF BeatFails, Beating, ErrorsBounded, TypeOK
  <2>2. TypeOK'
    BY <1>11, <2>1 DEF TypeOK, BeatFails
  <2>3. WorkerShape'
    BY <1>11 DEF WorkerShape, Busy, BeatFails
  <2>4. ErrorsBounded'
    BY <1>11, <2>1, ConsumerAssumption DEF TypeOK, ErrorsBounded, BeatFails
  <2> QED BY <2>2, <2>3, <2>4
<1>12. ASSUME NEW w \in Workers, JobDone(w) PROVE ShapeInv'
  BY <1>12 DEF TypeOK, WorkerShape, ErrorsBounded, Busy, JobDone, PCs
<1>13. ASSUME NEW w \in Workers, HeartbeatGaveUp(w) PROVE ShapeInv'
  BY <1>13 DEF TypeOK, WorkerShape, ErrorsBounded, Busy, HeartbeatGaveUp, PCs
<1>14. ASSUME NEW w \in Workers, HandlerStopped(w) PROVE ShapeInv'
  BY <1>14 DEF TypeOK, WorkerShape, ErrorsBounded, Busy, HandlerStopped, PCs
<1>15. ASSUME NEW w \in Workers, Settle(w) PROVE ShapeInv'
  <2>1. lease[w].job \in Jobs /\ handler[w] = "none"
    BY <1>15 DEF Settle, WorkerShape, Busy, Leases
  <2>2. QueueTypeOK'
    BY <1>15, <1>q, <2>1, StatementType DEF Settle
  <2> QED
    BY <1>15, <2>1, <2>2
       DEF TypeOK, QueueTypeOK, WorkerShape, ErrorsBounded, Busy, Settle, PCs
<1>16. ASSUME NEW w \in Workers, SettleFails(w) PROVE ShapeInv'
  BY <1>16 DEF TypeOK, WorkerShape, ErrorsBounded, Busy, SettleFails, PCs
<1>17. ASSUME NEW w \in Workers, Unlock(w) \/ Crash(w) PROVE ShapeInv'
  <2>1. lock' \in [Runs -> Workers \cup {NoWorker, DeadSession}]
    BY <1>17 DEF Unlock, Crash, TypeOK
  <2> QED BY <1>17, <2>1, BackToIdleShape DEF Unlock, Crash
<1>18. ASSUME NEW r \in Runs, SessionEnds(r) PROVE ShapeInv'
  BY <1>18 DEF TypeOK, WorkerShape, ErrorsBounded, Busy, SessionEnds
<1> QED
  BY <1>1, <1>2, <1>3, <1>4, <1>5, <1>6, <1>7, <1>8, <1>9, <1>10, <1>11, <1>12,
     <1>13, <1>14, <1>15, <1>16, <1>17, <1>18
     DEF Next, TakeStep, WorkerStep, HandlerStep, HeartbeatStep

\* The state of the consumer and of the jobs table is always well formed.
THEOREM TypeCorrect == Spec => []TypeOK
<1>1. Spec => []ShapeInv
  BY ShapeInit, ShapeNext, PTL DEF Spec
<1> QED BY <1>1, PTL DEF ShapeInv

-----------------------------------------------------------------------------
(* Exclusive execution.                                                    *)

LEMMA LockNext ==
    ShapeInv /\ HandlerHoldsLock /\ [Next]_vars => HandlerHoldsLock'
<1> SUFFICES ASSUME ShapeInv, HandlerHoldsLock, [Next]_vars
             PROVE  HandlerHoldsLock'
  OBVIOUS
<1> USE DEF ShapeInv, HandlerHoldsLock, Handling, JobRun
<1>1. ASSUME UNCHANGED <<lease, handler, lock, lostLocks>>
      PROVE  HandlerHoldsLock'
  BY <1>1
\* A lock is granted to a worker only while no session holds it.
<1>2. ASSUME NEW w \in Workers, TryAcquire(w) PROVE HandlerHoldsLock'
  <2>1. lease[w] \in Leases /\ handler[w] = "none"
    BY <1>2 DEF TryAcquire, WorkerShape, Busy
  <2>2. JobRun(lease[w].job) \in Runs /\ lock[JobRun(lease[w].job)] = NoWorker
    BY <1>2, <2>1, JobQueueAssumption DEF TryAcquire, Leases
  <2> QED
    BY <1>2, <2>1, <2>2, ConsumerAssumption DEF TryAcquire, StartHandler, TypeOK
<1>3. ASSUME NEW w \in Workers, RunUnlocked(w) PROVE HandlerHoldsLock'
  BY <1>3, JobQueueAssumption DEF RunUnlocked, StartHandler, TypeOK
<1>4. ASSUME NEW w \in Workers, NEW j \in Jobs, Lease(w, j) PROVE HandlerHoldsLock'
  <2>1. handler[w] = "none"
    BY <1>4 DEF Lease, WorkerShape, TypeOK
  <2> QED BY <1>4, <2>1 DEF Lease, TypeOK
<1>5. ASSUME NEW w \in Workers, NEW result \in {"ok", "error"},
             HandlerReturns(w, result)
      PROVE  HandlerHoldsLock'
  BY <1>5 DEF HandlerReturns, TypeOK
<1>6. ASSUME NEW w \in Workers, JobDone(w) \/ HandlerStopped(w)
      PROVE  HandlerHoldsLock'
  BY <1>6 DEF JobDone, HandlerStopped, TypeOK
\* What a worker unlocks is its own, and its handler has stopped.
<1>7. ASSUME NEW w \in Workers, Unlock(w) \/ Crash(w) PROVE HandlerHoldsLock'
  <2>1. /\ handler' = [handler EXCEPT ![w] = "none"]
        /\ \A v \in Workers \ {w} : lease'[v] = lease[v]
        /\ \A r \in Runs : lock[r] # w => lock'[r] = lock[r]
        /\ UNCHANGED lostLocks
    BY <1>7 DEF Unlock, Crash, BackToIdle, TypeOK
  <2> QED BY <2>1 DEF TypeOK
\* A session that ends under a live worker makes its run a lost one.
<1>8. ASSUME NEW r \in Runs, SessionEnds(r) PROVE HandlerHoldsLock'
  BY <1>8 DEF SessionEnds, TypeOK
<1> QED
  BY <1>1, <1>2, <1>3, <1>4, <1>5, <1>6, <1>7, <1>8
     DEF Next, Enqueue, Tick, MarkDead, TakeStep, WorkerStep, HandlerStep,
         HeartbeatStep, DeferRetry, HeartbeatGaveUp, Settle, SettleFails,
         Beat, BeatLost, BeatFails, LeaseLost

LEMMA LockExcludes == ShapeInv /\ HandlerHoldsLock => OneHandlerPerRun
<1> SUFFICES ASSUME ShapeInv, HandlerHoldsLock, NEW v \in Workers, NEW w \in Workers,
                    v # w, Handling(v), Handling(w),
                    RunOf[lease[v].job] = RunOf[lease[w].job],
                    RunOf[lease[v].job] # NoRun,
                    RunOf[lease[v].job] \notin lostLocks
             PROVE  FALSE
  BY DEF OneHandlerPerRun
<1>1. lease[v].job \in Jobs /\ lease[w].job \in Jobs
  BY DEF ShapeInv, WorkerShape, Busy, Handling, Leases
<1>2. RunOf[lease[v].job] \in Runs
  BY <1>1, JobQueueAssumption
<1> QED BY <1>1, <1>2 DEF HandlerHoldsLock, JobRun

\* Two handlers never execute one run at the same time, unless PostgreSQL has
\* ended the session of the run's advisory lock under a live worker.
THEOREM HandlersExclude == Spec => []OneHandlerPerRun
<1>1. Init => ShapeInv /\ HandlerHoldsLock
  BY ShapeInit DEF Init, HandlerHoldsLock, Handling
<1>2. ShapeInv /\ HandlerHoldsLock /\ [Next]_vars => (ShapeInv /\ HandlerHoldsLock)'
  BY ShapeNext, LockNext
<1>3. Spec => [](ShapeInv /\ HandlerHoldsLock)
  BY <1>1, <1>2, PTL DEF Spec
<1> QED BY <1>3, LockExcludes, PTL

-----------------------------------------------------------------------------
(* One holder per lease.                                                   *)

LeaseInv == ShapeInv /\ TokensDistinct

\* What Settled changes: one job's status, token and timestamp.
LEMMA SettledAt ==
    ASSUME QueueTypeOK, NEW j \in Jobs, NEW s \in Statuses
    PROVE  /\ Settled(j, s)[j].status = s
           /\ \A k \in Jobs \ {j} : Settled(j, s)[k] = jobs[k]
           /\ \A k \in Jobs : Settled(j, s)[k].attempts = jobs[k].attempts
<1>1. \A k \in Jobs : jobs[k] \in JobRows
  BY DEF QueueTypeOK
<1>2. \A k \in Jobs \ {j} : Settled(j, s)[k] = jobs[k]
  BY DEF QueueTypeOK, Settled
<1> DEFINE row == [jobs[j] EXCEPT !.status = s, !.token = 0, !.elapsed = FALSE]
<1>3. Settled(j, s)[j] = row
  BY DEF QueueTypeOK, Settled
<1>4. row.status = s /\ row.attempts = jobs[j].attempts
  BY <1>1 DEF JobRows
<1> QED BY <1>2, <1>3, <1>4

\* A statement of the consumer leaves the attempts of every job as they are.
LEMMA AttemptsKept ==
    ASSUME QueueTypeOK, NEW j \in Jobs, NEW tok, NEW tries,
           \/ FindActiveRunExecuteJob(j)
           \/ EnqueueRun(j)
           \/ TryMarkDeadOne(j)
           \/ Heartbeat(j, tok)
           \/ Ack(j, tok)
           \/ Nack(j, tok, tries)
           \/ LeaseLost(j, tok)
           \/ TimestampPasses(j)
    PROVE  \A k \in Jobs : jobs'[k].attempts = jobs[k].attempts
<1>1. CASE jobs' = jobs
  BY <1>1
<1>2. CASE EnqueueRun(j) /\ jobs' # jobs
  <2>1. PICK due \in BOOLEAN :
          jobs' = [jobs EXCEPT ![j].status = "queued", ![j].elapsed = due]
    BY <1>2 DEF EnqueueRun
  <2> QED BY <2>1 DEF QueueTypeOK, JobRows
<1>3. CASE TryMarkDeadOne(j)
  BY <1>3, SettledAt DEF TryMarkDeadOne
<1>4. CASE Heartbeat(j, tok)
  BY <1>4 DEF Heartbeat, QueueTypeOK, JobRows
<1>5. CASE Ack(j, tok)
  BY <1>5, SettledAt DEF Ack
<1>6. CASE Nack(j, tok, tries)
  BY <1>6, SettledAt DEF Nack
<1>7. CASE TimestampPasses(j)
  BY <1>7 DEF TimestampPasses, QueueTypeOK, JobRows
<1> QED
  BY <1>1, <1>2, <1>3, <1>4, <1>5, <1>6, <1>7 DEF FindActiveRunExecuteJob, LeaseLost

LEMMA TokensNext == LeaseInv /\ [Next]_vars => TokensDistinct'
<1> SUFFICES ASSUME LeaseInv, [Next]_vars PROVE TokensDistinct'
  OBVIOUS
<1> USE DEF LeaseInv, ShapeInv, TokensDistinct, Busy
<1>q. QueueTypeOK
  BY DEF TypeOK, QueueTypeOK
<1>j. \A w \in Workers :
        pc[w] # "idle" => lease[w] \in Leases /\ lease[w].job \in Jobs
  BY DEF WorkerShape, Leases
<1>1. ASSUME \A k \in Jobs : jobs'[k].attempts = jobs[k].attempts,
             \A w \in Workers :
               pc'[w] # "idle" => pc[w] # "idle" /\ lease'[w] = lease[w]
      PROVE  TokensDistinct'
  BY <1>1, <1>j
\* The next lease of a job gets a number that no earlier one had.
<1>2. ASSUME NEW w \in Workers, NEW j \in Jobs, Lease(w, j) PROVE TokensDistinct'
  <2>1. /\ jobs[j].attempts \in Nat
        /\ jobs'[j].attempts = jobs[j].attempts + 1
        /\ \A k \in Jobs \ {j} : jobs'[k] = jobs[k]
    BY <1>2, <1>q DEF Lease, TryLeaseOne, QueueTypeOK, JobRows
  <2>2. /\ lease'[w].job = j
        /\ lease'[w].token = jobs[j].attempts + 1
        /\ \A v \in Workers \ {w} : lease'[v] = lease[v] /\ pc'[v] = pc[v]
    BY <1>2, <1>q DEF Lease, TryLeaseOne, NewToken, QueueTypeOK, JobRows, TypeOK
  <2>3. \A v \in Workers \ {w} :
          pc'[v] # "idle" /\ lease'[v].job = j
          => lease'[v].token \in Nat /\ lease'[v].token <= jobs[j].attempts
    BY <2>2, <1>j DEF Leases
  <2>4. \A v \in Workers :
          pc'[v] # "idle" => lease'[v].token <= jobs'[lease'[v].job].attempts
    <3> SUFFICES ASSUME NEW v \in Workers, pc'[v] # "idle"
                 PROVE  lease'[v].token <= jobs'[lease'[v].job].attempts
      OBVIOUS
    <3>1. CASE v = w
      BY <3>1, <2>1, <2>2
    <3>2. CASE v # w /\ lease[v].job = j
      BY <3>2, <2>1, <2>2, <2>3
    <3>3. CASE v # w /\ lease[v].job # j
      BY <3>3, <2>1, <2>2, <1>j
    <3> QED BY <3>1, <3>2, <3>3
  <2>5. \A u, v \in Workers :
          pc'[u] # "idle" /\ pc'[v] # "idle" /\ u # v /\ lease'[u].job = lease'[v].job
          => lease'[u].token # lease'[v].token
    BY <2>1, <2>2, <2>3
  <2> QED BY <2>4, <2>5
<1>3. ASSUME NEW j \in Jobs, Enqueue(j) \/ Tick(j) PROVE TokensDistinct'
  BY <1>3, <1>1, <1>q, AttemptsKept DEF Enqueue, Tick
<1>4. ASSUME NEW w \in Workers, NEW j \in Jobs, MarkDead(w, j) PROVE TokensDistinct'
  BY <1>4, <1>1, <1>q, AttemptsKept DEF MarkDead
<1>5. ASSUME NEW w \in Workers, Beat(w) PROVE TokensDistinct'
  BY <1>5, <1>1, <1>q, <1>j, AttemptsKept DEF Beat, Beating
<1>6. ASSUME NEW w \in Workers, Settle(w) PROVE TokensDistinct'
  BY <1>6, <1>1, <1>q, <1>j, AttemptsKept DEF Settle, TypeOK
<1>7. ASSUME NEW w \in Workers, BackToIdle(w), UNCHANGED queueVars PROVE TokensDistinct'
  BY <1>7, <1>1 DEF BackToIdle, TypeOK
<1>8. ASSUME UNCHANGED <<jobs, lease>>,
             \A w \in Workers : pc'[w] # "idle" => pc[w] # "idle"
      PROVE  TokensDistinct'
  BY <1>8, <1>1
<1>9. ASSUME NEW w \in Workers,
             \/ TryAcquire(w) \/ RunUnlocked(w) \/ DeferRetry(w) \/ JobDone(w)
             \/ HeartbeatGaveUp(w) \/ HandlerStopped(w) \/ SettleFails(w)
      PROVE  TokensDistinct'
  <2>1. UNCHANGED <<jobs, lease>> /\ pc[w] # "idle"
    BY <1>9 DEF TryAcquire, RunUnlocked, StartHandler, DeferRetry, JobDone,
                HeartbeatGaveUp, HandlerStopped, SettleFails
  <2>2. \A v \in Workers \ {w} : pc'[v] = pc[v]
    BY <1>9 DEF TryAcquire, RunUnlocked, StartHandler, DeferRetry, JobDone,
                HeartbeatGaveUp, HandlerStopped, SettleFails, TypeOK
  <2> QED BY <2>1, <2>2, <1>8
<1>10. ASSUME UNCHANGED <<jobs, lease, pc>> PROVE TokensDistinct'
  BY <1>10, <1>8
<1> QED
  BY <1>2, <1>3, <1>4, <1>5, <1>6, <1>7, <1>9, <1>10
     DEF Next, TakeStep, WorkerStep, HandlerStep, HeartbeatStep, HandlerReturns,
         BeatLost, BeatFails, LeaseLost, Unlock, Crash, SessionEnds

LEMMA TokensOneHolder == LeaseInv => OneHolder
BY DEF LeaseInv, TokensDistinct, OneHolder, HoldsCurrent, Busy

\* A lease never has two holders: a job that was taken over from a worker is
\* no longer that worker's to heartbeat, ack or nack.
THEOREM LeaseHasOneHolder == Spec => []OneHolder
<1>1. Init => LeaseInv
  BY ShapeInit DEF Init, LeaseInv, TokensDistinct, Busy
<1>2. LeaseInv /\ [Next]_vars => LeaseInv'
  BY ShapeNext, TokensNext DEF LeaseInv
<1>3. Spec => []LeaseInv
  BY <1>1, <1>2, PTL DEF Spec
<1> QED BY <1>3, TokensOneHolder, PTL

-----------------------------------------------------------------------------
(* What the statements do to the status of a job.                          *)

LEMMA StatementStatus ==
    ASSUME QueueTypeOK, NEW j \in Jobs, NEW tok, NEW tries,
           \/ TryLeaseOne(j)
           \/ TryMarkDeadOne(j)
           \/ Heartbeat(j, tok)
           \/ Ack(j, tok)
           \/ Nack(j, tok, tries)
           \/ LeaseLost(j, tok)
           \/ TimestampPasses(j)
    PROVE  \A k \in Jobs : IsActive(k)' => IsActive(k)
<1> USE DEF IsActive
<1>1. CASE TryLeaseOne(j)
  BY <1>1 DEF TryLeaseOne, Eligible, QueueTypeOK
<1>2. CASE TryMarkDeadOne(j)
  BY <1>2, SettledAt DEF TryMarkDeadOne
<1>3. CASE Heartbeat(j, tok)
  BY <1>3 DEF Heartbeat, QueueTypeOK, JobRows
<1>4. CASE Ack(j, tok)
  BY <1>4, SettledAt DEF Ack
<1>5. CASE Nack(j, tok, tries)
  BY <1>5, SettledAt DEF Nack, Owns
<1>6. CASE LeaseLost(j, tok)
  BY <1>6 DEF LeaseLost
<1>7. CASE TimestampPasses(j)
  BY <1>7 DEF TimestampPasses, QueueTypeOK, JobRows
<1> QED BY <1>1, <1>2, <1>3, <1>4, <1>5, <1>6, <1>7

\* Only Ack makes a job done.
LEMMA DoneKept ==
    ASSUME QueueTypeOK, NEW j \in Jobs, NEW tok, NEW tries,
           \/ FindActiveRunExecuteJob(j)
           \/ EnqueueRun(j)
           \/ TryLeaseOne(j)
           \/ TryMarkDeadOne(j)
           \/ Heartbeat(j, tok)
           \/ Nack(j, tok, tries)
           \/ LeaseLost(j, tok)
           \/ TimestampPasses(j)
    PROVE  \A k \in Jobs : jobs'[k].status = "done" => jobs[k].status = "done"
<1>1. CASE jobs' = jobs
  BY <1>1
<1>2. CASE EnqueueRun(j) /\ jobs' # jobs
  BY <1>2 DEF EnqueueRun, QueueTypeOK, JobRows
<1>3. CASE TryLeaseOne(j)
  BY <1>3 DEF TryLeaseOne, QueueTypeOK
<1>4. CASE TryMarkDeadOne(j)
  BY <1>4, SettledAt DEF TryMarkDeadOne
<1>5. CASE Heartbeat(j, tok)
  BY <1>5 DEF Heartbeat, QueueTypeOK, JobRows
<1>6. CASE Nack(j, tok, tries)
  BY <1>6, SettledAt DEF Nack
<1>7. CASE TimestampPasses(j)
  BY <1>7 DEF TimestampPasses, QueueTypeOK, JobRows
<1> QED
  BY <1>1, <1>2, <1>3, <1>4, <1>5, <1>6, <1>7 DEF FindActiveRunExecuteJob, LeaseLost

LEMMA EnqueueStatus ==
    ASSUME QueueTypeOK, NEW j \in Jobs, FindActiveRunExecuteJob(j) \/ EnqueueRun(j)
    PROVE  /\ \A k \in Jobs \ {j} : jobs'[k] = jobs[k]
           /\ jobs' # jobs => /\ jobs[j].status = "absent"
                              /\ jobs'[j].status = "queued"
                              /\ ActiveForRunOf(j) = {}
<1>1. CASE jobs' = jobs
  BY <1>1
<1>2. CASE EnqueueRun(j) /\ jobs' # jobs
  BY <1>2 DEF EnqueueRun, QueueTypeOK, JobRows
<1> QED BY <1>1, <1>2 DEF FindActiveRunExecuteJob

-----------------------------------------------------------------------------
(* One active job per run.                                                 *)

LEMMA OneActiveNext ==
    ShapeInv /\ OneActiveJobPerRun /\ [Next]_vars => OneActiveJobPerRun'
<1> SUFFICES ASSUME ShapeInv, OneActiveJobPerRun, [Next]_vars
             PROVE  OneActiveJobPerRun'
  OBVIOUS
<1>q. QueueTypeOK
  BY DEF ShapeInv, TypeOK, QueueTypeOK
<1>1. ASSUME \A k \in Jobs : IsActive(k)' => IsActive(k)
      PROVE  OneActiveJobPerRun'
  BY <1>1 DEF OneActiveJobPerRun
<1>2. ASSUME NEW j \in Jobs, Enqueue(j) PROVE OneActiveJobPerRun'
  BY <1>2, <1>q, EnqueueStatus
     DEF Enqueue, OneActiveJobPerRun, ActiveForRunOf, IsActive
<1>3. ASSUME NEW j \in Jobs, Tick(j) PROVE OneActiveJobPerRun'
  BY <1>1, <1>3, <1>q, StatementStatus DEF Tick
<1>4. ASSUME NEW w \in Workers, NEW j \in Jobs, Lease(w, j) \/ MarkDead(w, j)
      PROVE  OneActiveJobPerRun'
  BY <1>1, <1>4, <1>q, StatementStatus DEF Lease, MarkDead
<1>5. ASSUME NEW w \in Workers, Beat(w) \/ Settle(w) PROVE OneActiveJobPerRun'
  <2>1. lease[w].job \in Jobs
    BY <1>5 DEF Beat, Beating, Settle, ShapeInv, WorkerShape, Busy, Leases
  <2> QED BY <1>1, <1>5, <1>q, <2>1, StatementStatus DEF Beat, Settle
<1>6. CASE UNCHANGED jobs
  BY <1>1, <1>6 DEF IsActive
<1> QED
  BY <1>2, <1>3, <1>4, <1>5, <1>6
     DEF Next, TakeStep, WorkerStep, HandlerStep, HeartbeatStep, TryAcquire,
         RunUnlocked, StartHandler, DeferRetry, JobDone, HeartbeatGaveUp,
         HandlerStopped, HandlerReturns, SettleFails, BeatLost, BeatFails,
         LeaseLost, Unlock, Crash, SessionEnds

\* However many EnqueueRun calls found no active job of a run, it never has
\* two that are queued or leased.
THEOREM RunHasOneActiveJob == Spec => []OneActiveJobPerRun
<1>1. Init => ShapeInv /\ OneActiveJobPerRun
  BY ShapeInit DEF Init, QueueInit, OneActiveJobPerRun, IsActive
<1>2. ShapeInv /\ OneActiveJobPerRun /\ [Next]_vars
      => (ShapeInv /\ OneActiveJobPerRun)'
  BY ShapeNext, OneActiveNext
<1> QED BY <1>1, <1>2, PTL DEF Spec

-----------------------------------------------------------------------------
(* A job is done only after a handler succeeded.                           *)

AckInv == ShapeInv /\ AckedSucceeded /\ DoneWasHandled

LEMMA AckNext == AckInv /\ [Next]_vars => AckedSucceeded' /\ DoneWasHandled'
<1> SUFFICES ASSUME AckInv, [Next]_vars PROVE AckedSucceeded' /\ DoneWasHandled'
  OBVIOUS
<1> USE DEF AckInv, ShapeInv, AckedSucceeded, DoneWasHandled
<1>q. QueueTypeOK
  BY DEF TypeOK, QueueTypeOK
<1>j. \A w \in Workers : Busy(w) => lease[w].job \in Jobs
  BY DEF WorkerShape, Leases
\* Most actions bring no job to "done" and no worker nearer to acking one.
<1>1. ASSUME \A k \in Jobs : jobs'[k].status = "done" => jobs[k].status = "done",
             \A w \in Workers :
               handler'[w] = "ok" \/ pc'[w] = "acking"
               => (handler[w] = "ok" \/ pc[w] = "acking") /\ lease'[w] = lease[w],
             UNCHANGED succeeded
      PROVE  AckedSucceeded' /\ DoneWasHandled'
  BY <1>1
<1>2. ASSUME NEW j \in Jobs, Enqueue(j) \/ Tick(j)
      PROVE  AckedSucceeded' /\ DoneWasHandled'
  BY <1>1, <1>2, <1>q, DoneKept DEF Enqueue, Tick
<1>3. ASSUME NEW w \in Workers, NEW j \in Jobs, Lease(w, j) \/ MarkDead(w, j)
      PROVE  AckedSucceeded' /\ DoneWasHandled'
  <2>1. \A k \in Jobs : jobs'[k].status = "done" => jobs[k].status = "done"
    BY <1>3, <1>q, DoneKept DEF Lease, MarkDead
  <2> QED BY <1>1, <1>3, <2>1 DEF Lease, MarkDead, TypeOK, WorkerShape
<1>4. ASSUME NEW w \in Workers, Beat(w) PROVE AckedSucceeded' /\ DoneWasHandled'
  <2>1. \A k \in Jobs : jobs'[k].status = jobs[k].status
    BY <1>4, <1>q DEF Beat, Heartbeat, QueueTypeOK, JobRows
  <2> QED BY <1>1, <1>4, <2>1 DEF Beat
<1>5. ASSUME NEW w \in Workers, NEW result \in {"ok", "error"},
             HandlerReturns(w, result)
      PROVE  AckedSucceeded' /\ DoneWasHandled'
  BY <1>5 DEF HandlerReturns, TypeOK
\* An acked job has succeeded, and no other job becomes done.
<1>6. ASSUME NEW w \in Workers, Settle(w) PROVE AckedSucceeded' /\ DoneWasHandled'
  <2>1. lease[w].job \in Jobs
    BY <1>6, <1>j DEF Settle, Busy
  <2>2. /\ UNCHANGED <<lease, handler, succeeded>>
        /\ \A v \in Workers : pc'[v] = "acking" => pc[v] = "acking"
    BY <1>6 DEF Settle, TypeOK
  <2>3. \A k \in Jobs :
          jobs'[k].status = "done" => jobs[k].status = "done" \/ k \in succeeded
    <3>1. CASE pc[w] = "acking" /\ Ack(lease[w].job, lease[w].token)
      BY <3>1, <1>q, <2>1, SettledAt DEF Ack
    <3>2. CASE \/ Nack(lease[w].job, lease[w].token, lease[w].attempts)
               \/ LeaseLost(lease[w].job, lease[w].token)
      BY <3>2, <1>q, <2>1, DoneKept
    <3> QED BY <1>6, <3>1, <3>2 DEF Settle
  <2> QED BY <2>2, <2>3
<1>7. ASSUME NEW w \in Workers, JobDone(w) PROVE AckedSucceeded' /\ DoneWasHandled'
  BY <1>1, <1>7 DEF JobDone, TypeOK
<1>8. ASSUME NEW w \in Workers,
             \/ TryAcquire(w) \/ RunUnlocked(w) \/ DeferRetry(w)
             \/ HeartbeatGaveUp(w) \/ HandlerStopped(w) \/ SettleFails(w)
      PROVE  AckedSucceeded' /\ DoneWasHandled'
  BY <1>1, <1>8 DEF TryAcquire, RunUnlocked, StartHandler, DeferRetry,
                    HeartbeatGaveUp, HandlerStopped, SettleFails, TypeOK
<1>9. ASSUME NEW w \in Workers, BackToIdle(w), UNCHANGED <<jobs, succeeded>>
      PROVE  AckedSucceeded' /\ DoneWasHandled'
  BY <1>1, <1>9 DEF BackToIdle, TypeOK
<1>10. CASE UNCHANGED <<jobs, pc, handler, lease, succeeded>>
  BY <1>1, <1>10
<1> QED
  BY <1>2, <1>3, <1>4, <1>5, <1>6, <1>7, <1>8, <1>9, <1>10
     DEF Next, TakeStep, WorkerStep, HandlerStep, HeartbeatStep, BeatLost,
         BeatFails, LeaseLost, Unlock, Crash, SessionEnds

\* A job is done only if one of its handlers returned nil.
THEOREM DoneJobsSucceeded == Spec => []DoneWasHandled
<1>1. Init => AckInv
  BY ShapeInit DEF Init, QueueInit, AckInv, AckedSucceeded, DoneWasHandled
<1>2. AckInv /\ [Next]_vars => AckInv'
  BY ShapeNext, AckNext DEF AckInv
<1>3. Spec => []AckInv
  BY <1>1, <1>2, PTL DEF Spec
<1>4. AckInv => DoneWasHandled
  BY DEF AckInv
<1> QED BY <1>3, <1>4, PTL

-----------------------------------------------------------------------------
(* How a lease ends.                                                       *)

LEMMA LeaseEndStep == ShapeInv /\ Next => \A j \in Jobs : LeaseEnd(j)
<1> SUFFICES ASSUME ShapeInv, Next, NEW j \in Jobs,
                    jobs[j].status = "leased", jobs'[j].token # jobs[j].token
             PROVE  \/ \E w \in Workers : HoldsCurrent(w, j) /\ ~Handling(w)
                    \/ jobs[j].elapsed /\ jobs'[j].status \in {"leased", "dead"}
  BY DEF LeaseEnd
<1>q. QueueTypeOK
  BY DEF ShapeInv, TypeOK, QueueTypeOK
<1>1. ASSUME NEW k \in Jobs, Enqueue(k) PROVE FALSE
  BY <1>1, <1>q, EnqueueStatus DEF Enqueue
<1>2. ASSUME NEW k \in Jobs, Tick(k) PROVE FALSE
  BY <1>2, <1>q DEF Tick, TimestampPasses, QueueTypeOK, JobRows
<1>3. ASSUME NEW w \in Workers, NEW k \in Jobs, Lease(w, k)
      PROVE  jobs[j].elapsed /\ jobs'[j].status = "leased"
  BY <1>3, <1>q DEF Lease, TryLeaseOne, Eligible, QueueTypeOK
<1>4. ASSUME NEW w \in Workers, NEW k \in Jobs, MarkDead(w, k)
      PROVE  jobs[j].elapsed /\ jobs'[j].status = "dead"
  BY <1>4, <1>q, SettledAt DEF MarkDead, TryMarkDeadOne, Eligible
<1>5. ASSUME NEW w \in Workers, Beat(w) PROVE FALSE
  BY <1>5, <1>q DEF Beat, Heartbeat, QueueTypeOK, JobRows
\* The settled job is the worker's own, and its handler has stopped.
<1>6. ASSUME NEW w \in Workers, Settle(w) PROVE HoldsCurrent(w, j) /\ ~Handling(w)
  <2>1. /\ lease[w].job \in Jobs
        /\ ~Handling(w)
    BY <1>6 DEF Settle, ShapeInv, WorkerShape, Busy, Handling, Leases
  <2>2. j = lease[w].job /\ Owns(lease[w].job, lease[w].token)
    BY <1>6, <1>q, <2>1, SettledAt DEF Settle, Ack, Nack, LeaseLost
  <2> QED BY <1>6, <2>1, <2>2 DEF Settle, HoldsCurrent, Owns
<1>7. jobs' # jobs
  OBVIOUS
<1> QED
  BY <1>1, <1>2, <1>3, <1>4, <1>5, <1>6, <1>7
     DEF Next, TakeStep, WorkerStep, HandlerStep, HeartbeatStep, TryAcquire,
         RunUnlocked, StartHandler, DeferRetry, JobDone, HeartbeatGaveUp,
         HandlerStopped, HandlerReturns, SettleFails, BeatLost, BeatFails,
         LeaseLost, Unlock, Crash, SessionEnds

\* A lease is settled by its holder, once its handler has stopped, or it has
\* expired and the job is taken over or buried; nothing else ends it.
THEOREM LeasesEndProperly == Spec => LeaseEndsProperly
<1>1. Spec => []ShapeInv
  BY ShapeInit, ShapeNext, PTL DEF Spec
<1>2. ShapeInv /\ [Next]_vars => [\A j \in Jobs : LeaseEnd(j)]_vars
  BY LeaseEndStep
<1> QED BY <1>1, <1>2, PTL DEF Spec, LeaseEndsProperly
-----------------------------------------------------------------------------
(* Attempts pay for handlers.                                              *)

\* The token of a lease is its number, in the table and in the hands of the
\* worker, so the retry budget that Nack consults is the current one.
TokensNumbered ==
    /\ \A j \in Jobs : jobs[j].status = "leased" => jobs[j].token = jobs[j].attempts
    /\ \A w \in Workers : Busy(w) => lease[w].attempts = lease[w].token

\* Jobs that wait have a lease left, those that are dead have none.
LeasesLeft ==
    \A j \in Jobs :
        /\ jobs[j].status \in {"absent", "queued"} => jobs[j].attempts < MaxAttempts
        /\ jobs[j].status = "dead" => jobs[j].attempts = MaxAttempts

\* The workers that have a lease of j and have not started its handler.
Waiting(j) == {w \in Workers : pc[w] = "leased" /\ lease[w].job = j}

\* A lease starts one handler: the leases that have not yet done so are
\* counted together with those that have.
StartsPaid ==
    \A j \in Jobs :
        /\ IsFiniteSet(Waiting(j))
        /\ starts[j] + Cardinality(Waiting(j)) <= jobs[j].attempts

NumberInv == ShapeInv /\ TokensNumbered /\ LeasesLeft

\* Only a job that is nacked is settled into a status that bounds its attempts.
LEMMA NackNumbers ==
    ASSUME NumberInv, NEW w \in Workers, Busy(w),
           Nack(lease[w].job, lease[w].token, lease[w].attempts), UNCHANGED lease,
           \A v \in Workers : Busy(v)' => Busy(v)
    PROVE  TokensNumbered' /\ LeasesLeft'
<1> DEFINE j == lease[w].job
           s == IF lease[w].attempts >= MaxAttempts THEN "dead" ELSE "queued"
<1>q. QueueTypeOK
  BY DEF NumberInv, ShapeInv, TypeOK, QueueTypeOK
<1>1. j \in Jobs /\ lease[w].attempts \in Nat
  BY DEF NumberInv, ShapeInv, WorkerShape, Leases
<1>2. lease[w].attempts = jobs[j].attempts
  BY <1>1 DEF NumberInv, TokensNumbered, Nack, Owns
<1>3. jobs' = Settled(j, s)
  BY DEF Nack
<1>4. /\ jobs'[j].status = s
      /\ \A k \in Jobs \ {j} : jobs'[k] = jobs[k]
      /\ \A k \in Jobs : jobs'[k].attempts = jobs[k].attempts
  BY <1>q, <1>1, <1>3, SettledAt
<1>5. jobs[j].attempts \in Nat /\ jobs[j].attempts <= MaxAttempts
  BY <1>q, <1>1, JobQueueAssumption DEF QueueTypeOK, JobRows
<1>6. /\ s \in {"absent", "queued"} => jobs[j].attempts < MaxAttempts
      /\ s = "dead" => jobs[j].attempts = MaxAttempts
      /\ s # "leased"
  BY <1>1, <1>2, <1>5, JobQueueAssumption
<1>7. TokensNumbered'
  BY <1>1, <1>4, <1>6 DEF NumberInv, TokensNumbered
<1>8. LeasesLeft'
  BY <1>1, <1>4, <1>6 DEF NumberInv, LeasesLeft
<1> QED BY <1>7, <1>8

LEMMA NumbersNext == NumberInv /\ [Next]_vars => TokensNumbered' /\ LeasesLeft'
<1> SUFFICES ASSUME NumberInv, [Next]_vars PROVE TokensNumbered' /\ LeasesLeft'
  OBVIOUS
<1> USE DEF NumberInv, ShapeInv, TokensNumbered, LeasesLeft
<1>q. QueueTypeOK
  BY DEF TypeOK, QueueTypeOK
<1>j. \A w \in Workers : Busy(w) => lease[w].job \in Jobs
  BY DEF WorkerShape, Leases
\* A row that keeps its status, its attempts and its token is as good as before.
<1>1. ASSUME \A k \in Jobs : /\ jobs'[k].status = jobs[k].status
                             /\ jobs'[k].attempts = jobs[k].attempts
                             /\ jobs'[k].token = jobs[k].token,
             \A w \in Workers : Busy(w)' => Busy(w) /\ lease'[w] = lease[w]
      PROVE  TokensNumbered' /\ LeasesLeft'
  BY <1>1
<1>2. ASSUME NEW j \in Jobs, Enqueue(j) PROVE TokensNumbered' /\ LeasesLeft'
  <2>1. UNCHANGED <<pc, lease>>
    BY <1>2 DEF Enqueue
  <2>2. CASE UNCHANGED jobs
    BY <2>1, <2>2 DEF Busy
  <2>3. CASE jobs' # jobs
    <3>1. /\ \A k \in Jobs \ {j} : jobs'[k] = jobs[k]
          /\ jobs[j].status = "absent"
          /\ jobs'[j].status = "queued"
      BY <1>2, <1>q, <2>3, EnqueueStatus DEF Enqueue
    <3>2. jobs'[j].attempts = jobs[j].attempts
      BY <1>2, <1>q, AttemptsKept DEF Enqueue
    <3> QED BY <2>1, <3>1, <3>2 DEF Busy
  <2> QED BY <2>2, <2>3
<1>3. ASSUME NEW j \in Jobs, Tick(j) PROVE TokensNumbered' /\ LeasesLeft'
  <2>1. \A k \in Jobs : /\ jobs'[k].status = jobs[k].status
                        /\ jobs'[k].attempts = jobs[k].attempts
                        /\ jobs'[k].token = jobs[k].token
    BY <1>3, <1>q DEF Tick, TimestampPasses, QueueTypeOK, JobRows
  <2> QED BY <1>3, <2>1, <1>1 DEF Tick, Busy
\* A lease takes the next number, in both places.
<1>4. ASSUME NEW w \in Workers, NEW j \in Jobs, Lease(w, j)
      PROVE  TokensNumbered' /\ LeasesLeft'
  <2>1. /\ jobs'[j].status = "leased"
        /\ jobs'[j].token = jobs'[j].attempts
        /\ \A k \in Jobs \ {j} : jobs'[k] = jobs[k]
    BY <1>4, <1>q DEF Lease, TryLeaseOne, NewToken, QueueTypeOK
  <2>2. /\ lease'[w].attempts = lease'[w].token
        /\ \A v \in Workers \ {w} : lease'[v] = lease[v] /\ pc'[v] = pc[v]
    BY <1>4, <2>1 DEF Lease, TypeOK
  <2> QED BY <2>1, <2>2 DEF Busy
<1>5. ASSUME NEW w \in Workers, NEW j \in Jobs, MarkDead(w, j)
      PROVE  TokensNumbered' /\ LeasesLeft'
  <2>1. /\ jobs'[j].status = "dead"
        /\ \A k \in Jobs \ {j} : jobs'[k] = jobs[k]
        /\ \A k \in Jobs : jobs'[k].attempts = jobs[k].attempts
    BY <1>5, <1>q, SettledAt DEF MarkDead, TryMarkDeadOne
  <2>2. jobs[j].attempts = MaxAttempts
    BY <1>5, <1>q, JobQueueAssumption DEF MarkDead, TryMarkDeadOne, QueueTypeOK, JobRows
  <2> QED BY <1>5, <2>1, <2>2 DEF MarkDead, Busy
<1>6. ASSUME NEW w \in Workers, Beat(w) PROVE TokensNumbered' /\ LeasesLeft'
  <2>1. lease[w].job \in Jobs
    BY <1>6, <1>j DEF Beat, Beating, Busy
  <2>2. \A k \in Jobs : /\ jobs'[k].status = jobs[k].status
                        /\ jobs'[k].attempts = jobs[k].attempts
                        /\ jobs'[k].token = jobs[k].token
    BY <1>6, <1>q, <2>1 DEF Beat, Heartbeat, QueueTypeOK, JobRows
  <2> QED BY <1>6, <2>2, <1>1 DEF Beat, Busy
<1>7. ASSUME NEW w \in Workers, Settle(w) PROVE TokensNumbered' /\ LeasesLeft'
  <2>1. /\ lease[w].job \in Jobs
        /\ Busy(w)
        /\ UNCHANGED lease
        /\ \A v \in Workers : Busy(v)' => Busy(v)
    BY <1>7, <1>j DEF Settle, Busy, TypeOK
  <2>2. CASE Ack(lease[w].job, lease[w].token)
    <3>1. /\ jobs'[lease[w].job].status = "done"
          /\ \A k \in Jobs \ {lease[w].job} : jobs'[k] = jobs[k]
      BY <1>q, <2>1, <2>2, SettledAt DEF Ack
    <3> QED BY <2>1, <3>1
  <2>3. CASE Nack(lease[w].job, lease[w].token, lease[w].attempts)
    BY <2>1, <2>3, NackNumbers
  <2>4. CASE UNCHANGED jobs
    BY <2>1, <2>4
  <2> QED BY <1>7, <2>2, <2>3, <2>4 DEF Settle, LeaseLost
<1>8. ASSUME UNCHANGED <<jobs, lease>>, \A w \in Workers : Busy(w)' => Busy(w)
      PROVE  TokensNumbered' /\ LeasesLeft'
  BY <1>8
<1>9. ASSUME NEW w \in Workers,
             \/ TryAcquire(w) \/ RunUnlocked(w) \/ DeferRetry(w) \/ JobDone(w)
             \/ HeartbeatGaveUp(w) \/ HandlerStopped(w) \/ SettleFails(w)
      PROVE  TokensNumbered' /\ LeasesLeft'
  BY <1>9, <1>8 DEF TryAcquire, RunUnlocked, StartHandler, DeferRetry, JobDone,
                    HeartbeatGaveUp, HandlerStopped, SettleFails, TypeOK, Busy
<1>10. ASSUME NEW w \in Workers, BackToIdle(w), UNCHANGED queueVars
       PROVE  TokensNumbered' /\ LeasesLeft'
  BY <1>10, <1>1 DEF BackToIdle, TypeOK, Busy
<1>11. CASE UNCHANGED <<jobs, lease, pc>>
  BY <1>11, <1>8 DEF Busy
<1> QED
  BY <1>2, <1>3, <1>4, <1>5, <1>6, <1>7, <1>9, <1>10, <1>11
     DEF Next, TakeStep, WorkerStep, HandlerStep, HeartbeatStep, HandlerReturns,
         BeatLost, BeatFails, LeaseLost, Unlock, Crash, SessionEnds

LEMMA StartsNext == ShapeInv /\ StartsPaid /\ [Next]_vars => StartsPaid'
<1> SUFFICES ASSUME ShapeInv, StartsPaid, [Next]_vars PROVE StartsPaid'
  OBVIOUS
<1> USE DEF ShapeInv, StartsPaid
<1>q. QueueTypeOK
  BY DEF TypeOK, QueueTypeOK
<1>j. \A w \in Workers : Busy(w) => lease[w].job \in Jobs
  BY DEF WorkerShape, Leases
<1>n. \A j \in Jobs : starts[j] \in Nat /\ jobs[j].attempts \in Nat
  BY <1>q DEF TypeOK, QueueTypeOK, JobRows
<1>c. \A j \in Jobs : Cardinality(Waiting(j)) \in Nat
  BY FS_CardinalityType
\* Most actions only take workers out of their waiting for a handler.
<1>1. ASSUME UNCHANGED starts,
             \A k \in Jobs : jobs'[k].attempts = jobs[k].attempts,
             \A k \in Jobs : Waiting(k)' \subseteq Waiting(k)
      PROVE  StartsPaid'
  <2> SUFFICES ASSUME NEW k \in Jobs
               PROVE  /\ IsFiniteSet(Waiting(k)')
                      /\ starts[k] + Cardinality(Waiting(k)') <= jobs[k].attempts
    BY <1>1
  <2>1. /\ IsFiniteSet(Waiting(k)')
        /\ Cardinality(Waiting(k)') <= Cardinality(Waiting(k))
    BY <1>1, FS_Subset
  <2>2. Cardinality(Waiting(k)') \in Nat
    BY <2>1, FS_CardinalityType
  <2> QED BY <2>1, <2>2, <1>n, <1>c
\* A lease is one more that waits, and one more attempt.
<1>2. ASSUME NEW w \in Workers, NEW j \in Jobs, Lease(w, j) PROVE StartsPaid'
  <2>1. /\ jobs'[j].attempts = jobs[j].attempts + 1
        /\ \A k \in Jobs \ {j} : jobs'[k].attempts = jobs[k].attempts
        /\ UNCHANGED starts
    BY <1>2, <1>q DEF Lease, TryLeaseOne, QueueTypeOK, JobRows
  <2>2. /\ w \notin Waiting(j)
        /\ Waiting(j)' = Waiting(j) \cup {w}
        /\ \A k \in Jobs \ {j} : Waiting(k)' \subseteq Waiting(k)
    BY <1>2 DEF Lease, Waiting, TypeOK
  <2>3. /\ IsFiniteSet(Waiting(j)')
        /\ Cardinality(Waiting(j)') = Cardinality(Waiting(j)) + 1
    BY <2>2, FS_AddElement
  <2>4. \A k \in Jobs \ {j} : /\ IsFiniteSet(Waiting(k)')
                              /\ Cardinality(Waiting(k)') <= Cardinality(Waiting(k))
                              /\ Cardinality(Waiting(k)') \in Nat
    BY <2>2, FS_Subset, FS_CardinalityType
  <2>5. ASSUME NEW k \in Jobs
        PROVE  /\ IsFiniteSet(Waiting(k)')
               /\ starts'[k] + Cardinality(Waiting(k)') <= jobs'[k].attempts
    <3>1. CASE k = j
      BY <2>1, <2>3, <3>1, <1>n, <1>c
    <3>2. CASE k # j
      BY <2>1, <2>4, <3>2, <1>n, <1>c
    <3> QED BY <3>1, <3>2
  <2> QED BY <2>5
\* A handler that starts is one that no longer waits.
<1>3. ASSUME NEW w \in Workers, pc[w] = "leased", StartHandler(w) PROVE StartsPaid'
  <2>0. PICK j \in Jobs : j = lease[w].job
    BY <1>3, <1>j DEF Busy
  <2>1. /\ starts'[j] = starts[j] + 1
        /\ \A k \in Jobs \ {j} : starts'[k] = starts[k]
        /\ UNCHANGED jobs
    BY <1>3, <2>0 DEF StartHandler, TypeOK
  <2>2. /\ w \in Waiting(j)
        /\ Waiting(j)' = Waiting(j) \ {w}
        /\ \A k \in Jobs \ {j} : Waiting(k)' = Waiting(k)
    BY <1>3, <2>0 DEF StartHandler, Waiting, TypeOK
  <2>3. /\ IsFiniteSet(Waiting(j)')
        /\ Cardinality(Waiting(j)') = Cardinality(Waiting(j)) - 1
    BY <2>1, <2>2, FS_RemoveElement
  <2>4. ASSUME NEW k \in Jobs
        PROVE  /\ IsFiniteSet(Waiting(k)')
               /\ starts'[k] + Cardinality(Waiting(k)') <= jobs'[k].attempts
    <3>1. CASE k = j
      BY <2>1, <2>3, <3>1, <1>n, <1>c
    <3>2. CASE k # j
      BY <2>1, <2>2, <3>2
    <3> QED BY <3>1, <3>2
  <2> QED BY <2>4
<1>4. ASSUME UNCHANGED <<starts, lease>>,
             \A k \in Jobs : jobs'[k].attempts = jobs[k].attempts,
             \A v \in Workers : pc'[v] = "leased" => pc[v] = "leased"
      PROVE  StartsPaid'
  BY <1>1, <1>4 DEF Waiting
<1>5. ASSUME NEW j \in Jobs, Enqueue(j) \/ Tick(j) PROVE StartsPaid'
  BY <1>4, <1>5, <1>q, AttemptsKept DEF Enqueue, Tick
<1>6. ASSUME NEW w \in Workers, NEW j \in Jobs, MarkDead(w, j) PROVE StartsPaid'
  BY <1>4, <1>6, <1>q, AttemptsKept DEF MarkDead
<1>7. ASSUME NEW w \in Workers, Beat(w) PROVE StartsPaid'
  BY <1>4, <1>7, <1>q, <1>j, AttemptsKept DEF Beat, Beating, Busy
<1>8. ASSUME NEW w \in Workers, Settle(w) PROVE StartsPaid'
  <2>1. lease[w].job \in Jobs
    BY <1>8, <1>j DEF Settle, Busy
  <2>2. \A k \in Jobs : jobs'[k].attempts = jobs[k].attempts
    BY <1>8, <1>q, <2>1, AttemptsKept DEF Settle
  <2> QED BY <1>4, <1>8, <2>2 DEF Settle, TypeOK
<1>9. ASSUME NEW w \in Workers, BackToIdle(w), UNCHANGED <<jobs, starts>>
      PROVE  StartsPaid'
  BY <1>1, <1>9 DEF BackToIdle, Waiting, TypeOK
<1>10. ASSUME NEW w \in Workers,
              \/ DeferRetry(w) \/ JobDone(w) \/ HeartbeatGaveUp(w)
              \/ HandlerStopped(w) \/ SettleFails(w)
       PROVE  StartsPaid'
  BY <1>4, <1>10 DEF DeferRetry, JobDone, HeartbeatGaveUp, HandlerStopped,
                     SettleFails, TypeOK
<1>11. CASE UNCHANGED <<jobs, lease, pc, starts>>
  BY <1>4, <1>11
<1> QED
  BY <1>2, <1>3, <1>5, <1>6, <1>7, <1>8, <1>9, <1>10, <1>11
     DEF Next, TakeStep, WorkerStep, HandlerStep, HeartbeatStep, HandlerReturns,
         TryAcquire, RunUnlocked, BeatLost, BeatFails, LeaseLost, Unlock, Crash,
         SessionEnds

BudgetInv == NumberInv /\ StartsPaid

LEMMA BudgetInit == Init => BudgetInv
<1> SUFFICES ASSUME Init PROVE BudgetInv
  OBVIOUS
<1>1. NumberInv
  BY ShapeInit, JobQueueAssumption
     DEF Init, QueueInit, NumberInv, TokensNumbered, LeasesLeft, Busy
<1>2. \A j \in Jobs : Waiting(j) = {} /\ starts[j] = 0 /\ jobs[j].attempts = 0
  BY DEF Init, QueueInit, Waiting
<1>3. StartsPaid
  BY <1>2, FS_EmptySet DEF StartsPaid
<1> QED BY <1>1, <1>3 DEF BudgetInv

LEMMA BudgetNext == BudgetInv /\ [Next]_vars => BudgetInv'
BY ShapeNext, NumbersNext, StartsNext DEF BudgetInv, NumberInv

LEMMA BudgetKept == BudgetInv => RetryBudget
<1> SUFFICES ASSUME BudgetInv, NEW j \in Jobs
             PROVE  /\ starts[j] <= jobs[j].attempts
                    /\ jobs[j].status = "queued" => jobs[j].attempts < MaxAttempts
                    /\ jobs[j].status = "dead" => jobs[j].attempts = MaxAttempts
  BY DEF RetryBudget
<1>1. /\ Cardinality(Waiting(j)) \in Nat
      /\ starts[j] + Cardinality(Waiting(j)) <= jobs[j].attempts
  BY FS_CardinalityType DEF BudgetInv, StartsPaid
<1>2. starts[j] \in Nat /\ jobs[j].attempts \in Nat
  BY DEF BudgetInv, NumberInv, ShapeInv, TypeOK, JobRows
<1> QED BY <1>1, <1>2 DEF BudgetInv, NumberInv, LeasesLeft

\* Handlers are started no more often than the job was leased, a job in the
\* queue has a lease left, and a dead one has used all of them: whatever
\* workers crash, leases expire and statements fail, none is retried for ever
\* and none is given up early.
THEOREM RetriesBudgeted == Spec => []RetryBudget
<1>1. Spec => []BudgetInv
  BY BudgetInit, BudgetNext, PTL DEF Spec
<1> QED BY <1>1, BudgetKept, PTL

-----------------------------------------------------------------------------
(* The consumer implements ExclusiveExecution.                             *)

PhaseMap == [j \in Jobs |-> Phase(j)]
TriesMap == [j \in Jobs |-> jobs[j].attempts]
Executes(w) == IF Handling(w) THEN lease[w].job ELSE NoJob
ExecutingMap == [w \in Workers |-> Executes(w)]

\* What a step needs to map to a step of the abstract specification.
RefinementInv ==
    /\ BudgetInv
    /\ HandlerHoldsLock
    /\ TokensDistinct
    /\ AckedSucceeded
    /\ DoneWasHandled

LEMMA RefinementInvariant == Spec => []RefinementInv
<1>1. Init => RefinementInv
  BY BudgetInit
     DEF Init, QueueInit, RefinementInv, HandlerHoldsLock, Handling,
         TokensDistinct, Busy, AckedSucceeded, DoneWasHandled
<1>2. RefinementInv /\ [Next]_vars => RefinementInv'
  BY BudgetNext, LockNext, TokensNext, AckNext
     DEF RefinementInv, BudgetInv, NumberInv, LeaseInv, AckInv
<1> QED BY <1>1, <1>2, PTL DEF Spec

\* A job keeps its phase while it keeps its status, or is queued after a lease.
LEMMA PhaseKept ==
    ASSUME NEW j \in Jobs,
           \/ jobs'[j].status = jobs[j].status
           \/ IsActive(j) /\ IsActive(j)'
    PROVE  Phase(j)' = Phase(j)
BY DEF Phase, IsActive

AbstractStutter == UNCHANGED <<PhaseMap, TriesMap, ExecutingMap, succeeded, lostLocks>>

LEMMA StutterStep == AbstractStutter => UNCHANGED Exclusive!vars
BY DEF AbstractStutter, Exclusive!vars, PhaseMap, TriesMap, ExecutingMap, Executes

LEMMA EnqueueRefines ==
    ASSUME RefinementInv, NEW j \in Jobs, Enqueue(j)
    PROVE  Exclusive!Submit(j) \/ AbstractStutter
<1>q. QueueTypeOK
  BY DEF RefinementInv, BudgetInv, NumberInv, ShapeInv, TypeOK, QueueTypeOK
<1>1. UNCHANGED <<ExecutingMap, succeeded, lostLocks>>
  BY DEF Enqueue, ExecutingMap, Executes, Handling
<1>2. UNCHANGED TriesMap
  BY <1>q, AttemptsKept DEF Enqueue, TriesMap
<1>3. CASE UNCHANGED jobs
  BY <1>1, <1>2, <1>3 DEF AbstractStutter, PhaseMap, Phase, IsActive
<1>4. CASE jobs' # jobs
  <2>1. /\ \A k \in Jobs \ {j} : jobs'[k] = jobs[k]
        /\ jobs[j].status = "absent"
        /\ jobs'[j].status = "queued"
        /\ ActiveForRunOf(j) = {}
    BY <1>q, <1>4, EnqueueStatus DEF Enqueue
  <2>2. Phase(j) = "absent" /\ Phase(j)' = "pending"
    BY <2>1 DEF Phase, IsActive
  <2>3. \A k \in Jobs \ {j} : Phase(k)' = Phase(k)
    BY <2>1, PhaseKept
  <2>4. PhaseMap' = [PhaseMap EXCEPT ![j] = "pending"]
    BY <2>2, <2>3 DEF PhaseMap
  <2>5. \A k \in Jobs : Phase(k) = "pending" => RunOf[j] = NoRun \/ RunOf[k] # RunOf[j]
    BY <2>1, <1>q DEF Phase, IsActive, ActiveForRunOf, QueueTypeOK, JobRows
  <2> QED
    BY <1>1, <1>2, <2>2, <2>4, <2>5
       DEF Exclusive!Submit, PhaseMap, TriesMap, ExecutingMap, Executes
<1> QED BY <1>3, <1>4

LEMMA TakeRefines ==
    ASSUME RefinementInv, NEW w \in Workers, NEW j \in Jobs, Lease(w, j) \/ MarkDead(w, j)
    PROVE  Exclusive!HandOut(j) \/ Exclusive!GiveUp(j)
<1>q. QueueTypeOK
  BY DEF RefinementInv, BudgetInv, NumberInv, ShapeInv, TypeOK, QueueTypeOK
<1>1. CASE Lease(w, j)
  <2>1. /\ IsActive(j) /\ jobs[j].attempts < MaxAttempts
        /\ jobs'[j].status = "leased"
        /\ jobs'[j].attempts = jobs[j].attempts + 1
        /\ \A k \in Jobs \ {j} : jobs'[k] = jobs[k]
    BY <1>1, <1>q DEF Lease, TryLeaseOne, Eligible, QueueTypeOK
  <2>2. Phase(j) = "pending" /\ UNCHANGED PhaseMap
    BY <2>1, PhaseKept DEF Phase, PhaseMap, IsActive
  <2>3. TriesMap' = [TriesMap EXCEPT ![j] = @ + 1]
    BY <2>1 DEF TriesMap
  <2>4. handler[w] = "none"
    BY <1>1 DEF Lease, RefinementInv, BudgetInv, NumberInv, ShapeInv, TypeOK, WorkerShape
  <2>5. UNCHANGED <<ExecutingMap, succeeded, lostLocks>>
    BY <1>1, <2>4
       DEF Lease, ExecutingMap, Executes, Handling, RefinementInv, BudgetInv, NumberInv,
           ShapeInv, TypeOK
  <2> QED
    BY <2>1, <2>2, <2>3, <2>5
       DEF Exclusive!HandOut, PhaseMap, TriesMap, ExecutingMap, Executes
<1>2. CASE MarkDead(w, j)
  <2>0. jobs[j].attempts = MaxAttempts
    BY <1>2, <1>q, JobQueueAssumption DEF MarkDead, TryMarkDeadOne, QueueTypeOK, JobRows
  <2>1. /\ IsActive(j)
        /\ jobs'[j].status = "dead"
        /\ \A k \in Jobs \ {j} : jobs'[k] = jobs[k]
        /\ \A k \in Jobs : jobs'[k].attempts = jobs[k].attempts
    BY <1>2, <1>q, SettledAt DEF MarkDead, TryMarkDeadOne, Eligible
  <2>2. /\ Phase(j) = "pending"
        /\ PhaseMap' = [PhaseMap EXCEPT ![j] = "dead"]
    BY <2>1, PhaseKept DEF Phase, PhaseMap, IsActive
  <2>3. UNCHANGED <<TriesMap, ExecutingMap, succeeded, lostLocks>>
    BY <1>2, <2>1 DEF MarkDead, TriesMap, ExecutingMap, Executes, Handling
  <2> QED
    BY <2>0, <2>2, <2>3
       DEF Exclusive!GiveUp, PhaseMap, TriesMap, ExecutingMap, Executes
<1> QED BY <1>1, <1>2

\* The lock that a worker was granted keeps the run's other handlers out.
LEMMA StartRefines ==
    ASSUME RefinementInv, NEW w \in Workers, TryAcquire(w) \/ RunUnlocked(w)
    PROVE  \E j \in Jobs : Exclusive!Begin(w, j)
<1> USE DEF RefinementInv, BudgetInv, NumberInv, ShapeInv
<1>1. pc[w] = "leased" /\ StartHandler(w)
  BY DEF TryAcquire, RunUnlocked
<1>2. PICK j \in Jobs : j = lease[w].job
  BY <1>1 DEF WorkerShape, Busy, Leases
<1>3. handler[w] = "none" /\ lease[w] \in Leases
  BY <1>1 DEF WorkerShape, Busy, TypeOK
<1>4. jobs[j].attempts > 0
  BY <1>1, <1>2, <1>3, JobQueueAssumption
     DEF TokensDistinct, Busy, Leases, TypeOK, JobRows
<1>5. Executes(w) = NoJob
  BY <1>3 DEF Executes, Handling
<1>6. ExecutingMap' = [ExecutingMap EXCEPT ![w] = j]
  BY <1>1, <1>2 DEF StartHandler, ExecutingMap, Executes, Handling, TypeOK
<1>7. UNCHANGED <<PhaseMap, TriesMap, succeeded, lostLocks>>
  BY <1>1 DEF StartHandler, PhaseMap, Phase, IsActive, TriesMap
<1>8. ASSUME RunOf[j] # NoRun, RunOf[j] \notin lostLocks,
             NEW v \in Workers, v # w, Executes(v) # NoJob, RunOf[Executes(v)] = RunOf[j]
      PROVE  FALSE
  <2>1. RunOf[j] \in Runs /\ lock[RunOf[j]] = NoWorker
    BY <1>2, <1>8, JobQueueAssumption DEF TryAcquire, RunUnlocked, JobRun
  <2>2. Handling(v) /\ RunOf[lease[v].job] = RunOf[j]
    BY <1>8 DEF Executes
  <2> QED BY <1>8, <2>1, <2>2, ConsumerAssumption DEF HandlerHoldsLock, JobRun
<1>9. RunOf[j] = NoRun \/ RunOf[j] \in lostLocks \/ Exclusive!Rivals(w, j) = {}
  BY <1>8 DEF Exclusive!Rivals, Executes
<1>10. Exclusive!Begin(w, j)
  BY <1>4, <1>5, <1>6, <1>7, <1>9
     DEF Exclusive!Begin, PhaseMap, TriesMap, ExecutingMap, Executes
<1> QED BY <1>10

LEMMA ReturnRefines ==
    ASSUME RefinementInv, NEW w \in Workers, NEW result \in {"ok", "error"},
           HandlerReturns(w, result)
    PROVE  Exclusive!End(w)
<1> USE DEF RefinementInv, BudgetInv, NumberInv, ShapeInv
<1>1. lease[w].job \in Jobs
  BY DEF HandlerReturns, Handling, WorkerShape, Busy, Leases
<1>2. Executes(w) = lease[w].job /\ Executes(w) # NoJob
  BY <1>1, ConsumerAssumption DEF HandlerReturns, Executes
<1>3. ExecutingMap' = [ExecutingMap EXCEPT ![w] = NoJob]
  BY DEF HandlerReturns, ExecutingMap, Executes, Handling, TypeOK
<1>4. succeeded' \in {succeeded, succeeded \cup {Executes(w)}}
  BY <1>2 DEF HandlerReturns
<1>5. UNCHANGED <<PhaseMap, TriesMap, lostLocks>>
  BY DEF HandlerReturns, PhaseMap, Phase, IsActive, TriesMap
<1> QED
  BY <1>2, <1>3, <1>4, <1>5
     DEF Exclusive!End, PhaseMap, TriesMap, ExecutingMap, Executes

\* An ack finishes the job, the nack of the last attempt gives it up.
LEMMA SettleRefines ==
    ASSUME RefinementInv, NEW w \in Workers, Settle(w)
    PROVE  (\E j \in Jobs : Exclusive!Finish(j) \/ Exclusive!GiveUp(j)) \/ AbstractStutter
<1> USE DEF RefinementInv, BudgetInv, NumberInv, ShapeInv
<1>q. QueueTypeOK
  BY DEF TypeOK, QueueTypeOK
<1>1. PICK j \in Jobs : j = lease[w].job
  BY DEF Settle, WorkerShape, Busy, Leases
<1>2. UNCHANGED <<ExecutingMap, succeeded, lostLocks>>
  BY DEF Settle, ExecutingMap, Executes, Handling
<1>3. UNCHANGED TriesMap
  BY <1>q, <1>1, AttemptsKept DEF Settle, TriesMap
<1>4. CASE pc[w] = "acking" /\ Ack(j, lease[w].token)
  <2>1. /\ IsActive(j)
        /\ jobs'[j].status = "done"
        /\ \A k \in Jobs \ {j} : jobs'[k] = jobs[k]
    BY <1>q, <1>4, SettledAt DEF Ack, Owns, IsActive
  <2>2. /\ Phase(j) = "pending"
        /\ PhaseMap' = [PhaseMap EXCEPT ![j] = "done"]
    BY <2>1, PhaseKept DEF Phase, PhaseMap, IsActive
  <2>3. j \in succeeded
    BY <1>1, <1>4 DEF AckedSucceeded
  <2> QED
    BY <1>2, <1>3, <2>2, <2>3
       DEF Exclusive!Finish, PhaseMap, TriesMap, ExecutingMap, Executes
<1>5. CASE Nack(j, lease[w].token, lease[w].attempts)
  <2> DEFINE s == IF lease[w].attempts >= MaxAttempts THEN "dead" ELSE "queued"
  <2>1. /\ IsActive(j)
        /\ jobs'[j].status = s
        /\ \A k \in Jobs \ {j} : jobs'[k] = jobs[k]
    BY <1>q, <1>5, SettledAt DEF Nack, Owns, IsActive
  <2>2. lease[w].attempts = jobs[j].attempts
    BY <1>1, <1>5 DEF TokensNumbered, Nack, Owns, Settle, Busy
  <2>3. CASE s = "queued"
    <3>1. UNCHANGED PhaseMap
      BY <2>1, <2>3, PhaseKept DEF PhaseMap, IsActive
    <3> QED BY <1>2, <1>3, <3>1 DEF AbstractStutter
  <2>4. CASE s = "dead"
    <3>1. jobs[j].attempts = MaxAttempts
      BY <1>q, <2>2, <2>4, JobQueueAssumption DEF QueueTypeOK, JobRows
    <3>2. /\ Phase(j) = "pending"
          /\ PhaseMap' = [PhaseMap EXCEPT ![j] = "dead"]
      BY <2>1, <2>4, PhaseKept DEF Phase, PhaseMap, IsActive
    <3> QED
      BY <1>2, <1>3, <3>1, <3>2
         DEF Exclusive!GiveUp, PhaseMap, TriesMap, ExecutingMap, Executes
  <2> QED BY <2>3, <2>4
<1>6. CASE UNCHANGED jobs
  BY <1>2, <1>3, <1>6 DEF AbstractStutter, PhaseMap, Phase, IsActive
<1> QED BY <1>1, <1>4, <1>5, <1>6 DEF Settle, LeaseLost

\* A worker that goes back to RunOnce leaves no handler behind: it had stopped,
\* or it dies with its process.
LEMMA BackToIdleRefines ==
    ASSUME RefinementInv, NEW w \in Workers, BackToIdle(w), UNCHANGED queueVars,
           UNCHANGED historyVars
    PROVE  Exclusive!End(w) \/ AbstractStutter
<1> USE DEF RefinementInv, BudgetInv, NumberInv, ShapeInv
<1>1. UNCHANGED <<PhaseMap, TriesMap, succeeded, lostLocks>>
  BY DEF PhaseMap, Phase, IsActive, TriesMap
<1>2. ExecutingMap' = [ExecutingMap EXCEPT ![w] = NoJob]
  BY DEF BackToIdle, ExecutingMap, Executes, Handling, TypeOK
<1>3. CASE Executes(w) = NoJob
  BY <1>1, <1>2, <1>3 DEF AbstractStutter, ExecutingMap
<1>4. CASE Executes(w) # NoJob
  BY <1>1, <1>2, <1>4
     DEF Exclusive!End, PhaseMap, TriesMap, ExecutingMap, Executes
<1> QED BY <1>3, <1>4

LEMMA SessionEndsRefines ==
    ASSUME RefinementInv, NEW r \in Runs, SessionEnds(r)
    PROVE  Exclusive!Expose(r) \/ AbstractStutter
<1>1. UNCHANGED <<PhaseMap, TriesMap, ExecutingMap, succeeded>>
  BY DEF SessionEnds, PhaseMap, Phase, IsActive, TriesMap, ExecutingMap, Executes, Handling
<1>2. CASE lostLocks' = lostLocks \cup {r}
  BY <1>1, <1>2 DEF Exclusive!Expose, PhaseMap, TriesMap, ExecutingMap, Executes
<1>3. CASE UNCHANGED lostLocks
  BY <1>1, <1>3 DEF AbstractStutter
<1> QED BY <1>2, <1>3 DEF SessionEnds

LEMMA RefinementStep ==
    RefinementInv /\ [Next]_vars => Exclusive!Next \/ AbstractStutter
<1> SUFFICES ASSUME RefinementInv, [Next]_vars PROVE Exclusive!Next \/ AbstractStutter
  OBVIOUS
<1> USE DEF Exclusive!Next
<1>q. QueueTypeOK
  BY DEF RefinementInv, BudgetInv, NumberInv, ShapeInv, TypeOK, QueueTypeOK
<1>1. ASSUME NEW j \in Jobs, Enqueue(j) PROVE Exclusive!Next \/ AbstractStutter
  BY <1>1, EnqueueRefines
<1>2. ASSUME NEW w \in Workers, NEW j \in Jobs, Lease(w, j) \/ MarkDead(w, j)
      PROVE  Exclusive!Next
  BY <1>2, TakeRefines
<1>3. ASSUME NEW w \in Workers, TryAcquire(w) \/ RunUnlocked(w) PROVE Exclusive!Next
  BY <1>3, StartRefines
<1>4. ASSUME NEW w \in Workers, HandlerStep(w) PROVE Exclusive!Next
  BY <1>4, ReturnRefines DEF HandlerStep
<1>5. ASSUME NEW w \in Workers, Settle(w) PROVE Exclusive!Next \/ AbstractStutter
  BY <1>5, SettleRefines
<1>6. ASSUME NEW w \in Workers, Unlock(w) \/ Crash(w)
      PROVE  Exclusive!Next \/ AbstractStutter
  BY <1>6, BackToIdleRefines DEF Unlock, Crash
<1>7. ASSUME NEW r \in Runs, SessionEnds(r) PROVE Exclusive!Next \/ AbstractStutter
  BY <1>7, SessionEndsRefines
\* What remains moves a timestamp, or a worker that executes what it executed.
<1>8. ASSUME UNCHANGED <<lease, handler, succeeded, lostLocks>>,
             \A k \in Jobs : /\ jobs'[k].status = jobs[k].status
                             /\ jobs'[k].attempts = jobs[k].attempts
      PROVE  AbstractStutter
  <2>1. UNCHANGED PhaseMap
    BY <1>8, PhaseKept DEF PhaseMap
  <2> QED
    BY <1>8, <2>1 DEF AbstractStutter, TriesMap, ExecutingMap, Executes, Handling
<1>9. ASSUME NEW j \in Jobs, Tick(j) PROVE AbstractStutter
  BY <1>8, <1>9, <1>q DEF Tick, TimestampPasses, QueueTypeOK, JobRows
<1>10. ASSUME NEW w \in Workers, Beat(w) PROVE AbstractStutter
  <2>1. lease[w].job \in Jobs
    BY <1>10
       DEF Beat, Beating, RefinementInv, BudgetInv, NumberInv, ShapeInv, WorkerShape, Busy,
           Leases
  <2> QED BY <1>8, <1>10, <1>q, <2>1 DEF Beat, Heartbeat, QueueTypeOK, JobRows
<1>11. ASSUME NEW w \in Workers, JobDone(w) \/ HandlerStopped(w) PROVE AbstractStutter
  <2>1. UNCHANGED <<jobs, succeeded, lostLocks>>
    BY <1>11 DEF JobDone, HandlerStopped
  <2>2. UNCHANGED ExecutingMap
    BY <1>11
       DEF JobDone, HandlerStopped, ExecutingMap, Executes, Handling, RefinementInv,
           BudgetInv, NumberInv, ShapeInv, TypeOK
  <2> QED
    BY <2>1, <2>2 DEF AbstractStutter, PhaseMap, Phase, IsActive, TriesMap
<1>12. CASE UNCHANGED <<jobs, lease, handler, succeeded, lostLocks>>
  BY <1>8, <1>12
<1> QED
  BY <1>1, <1>2, <1>3, <1>4, <1>5, <1>6, <1>7, <1>9, <1>10, <1>11, <1>12
     DEF Next, TakeStep, WorkerStep, HeartbeatStep, DeferRetry, HeartbeatGaveUp,
         SettleFails, BeatLost, BeatFails, LeaseLost

\* The queue and its consumers keep the promise that ExclusiveExecution states
\* without leases, tokens, locks and heartbeats.
THEOREM ConsumerImplements == Spec => ImplementsExclusiveExecution
<1>1. Init => Exclusive!Init
  BY DEF Init, QueueInit, Exclusive!Init, Phase, IsActive, Handling
<1>2. RefinementInv /\ [Next]_vars => [Exclusive!Next]_(Exclusive!vars)
  BY RefinementStep, StutterStep
<1> QED
  BY <1>1, <1>2, RefinementInvariant, PTL
     DEF Spec, ImplementsExclusiveExecution, Exclusive!Spec
=============================================================================

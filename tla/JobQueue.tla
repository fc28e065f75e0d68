------------------------------ MODULE JobQueue ------------------------------
(***************************************************************************)
(* The jobs table of the worker's PostgreSQL queue                         *)
(* (src/src/services/worker/internal/queue/pg_queue.go): a job is          *)
(* enqueued, leased under a fresh token, heartbeaten, and acked, nacked    *)
(* or dead-lettered by whoever presents the current token.                 *)
(*                                                                         *)
(* This module has the table and the statements run against it; Consumer   *)
(* has the workers that issue them.  Every operator below is one atomic    *)
(* SQL statement (or one transaction).                                     *)
(*                                                                         *)
(* Time is abstracted: a job waits on one timestamp, available_at while it *)
(* is queued and leased_until while it is leased, and `elapsed' says       *)
(* whether that timestamp has passed.  Passing may happen at any moment,   *)
(* so every relative speed of clocks, retries and heartbeats is covered.   *)
(***************************************************************************)
EXTENDS Integers, FiniteSets

CONSTANTS Jobs,         \* the job ids that may be enqueued
          Runs,         \* the runs they may execute
          NoRun,        \* RunOf of a job that is not of type run.execute
          RunOf,        \* the run_id in a job's payload
          MaxAttempts   \* max_attempts of the queue (25 in production)

ASSUME JobQueueAssumption ==
    /\ NoRun \notin Runs
    /\ RunOf \in [Jobs -> Runs \cup {NoRun}]
    /\ MaxAttempts \in Nat \ {0}

VARIABLES jobs,      \* the table: a record for every id in Jobs
          checked    \* EnqueueRun calls past findActiveRunExecuteJob

queueVars == <<jobs, checked>>

NoToken == 0
Statuses == {"absent", "queued", "leased", "done", "dead"}

JobRows == [status : Statuses, attempts : 0 .. MaxAttempts,
            token : 0 .. MaxAttempts, elapsed : BOOLEAN]

IsActive(j) == jobs[j].status \in {"queued", "leased"}

\* The other jobs that ux_jobs_run_execute_active_run would conflict with.
ActiveForRunOf(j) ==
    {k \in Jobs : RunOf[j] # NoRun /\ RunOf[k] = RunOf[j] /\ IsActive(k)}

QueueInit ==
    /\ jobs = [j \in Jobs |-> [status |-> "absent", attempts |-> 0,
                               token |-> NoToken, elapsed |-> FALSE]]
    /\ checked = {}

-----------------------------------------------------------------------------
(* EnqueueRun: a lookup, then an INSERT guarded by a partial unique index. *)

FindActiveRunExecuteJob(j) ==
    /\ jobs[j].status = "absent"
    /\ RunOf[j] # NoRun
    /\ j \notin checked
    /\ ActiveForRunOf(j) = {}
    /\ checked' = checked \cup {j}
    /\ UNCHANGED jobs

\* Mutant: the unique index is missing, only the lookup protects the run.
EnqueueRunNoIndex(j) ==
    /\ jobs[j].status = "absent"
    /\ RunOf[j] # NoRun => j \in checked
    /\ \E due \in BOOLEAN :
         jobs' = [jobs EXCEPT ![j].status = "queued", ![j].elapsed = due]
    /\ checked' = checked \ {j}

\* available_at is now() or a later time the caller chose.
EnqueueRun(j) ==
    /\ jobs[j].status = "absent"
    /\ RunOf[j] # NoRun => j \in checked
    /\ \/ /\ ActiveForRunOf(j) = {}
          /\ \E due \in BOOLEAN :
               jobs' = [jobs EXCEPT ![j].status = "queued", ![j].elapsed = due]
       \/ /\ ActiveForRunOf(j) # {}           \* ErrRunExecuteAlreadyQueued
          /\ UNCHANGED jobs
    /\ checked' = checked \ {j}

-----------------------------------------------------------------------------
(* Lease: take over one eligible job, or bury one that is out of attempts. *)

\* Mutant: an expired lease is never taken over.
EligibleQueuedOnly(j) == jobs[j].status = "queued" /\ jobs[j].elapsed

Eligible(j) == IsActive(j) /\ jobs[j].elapsed

\* Mutant: every lease of a job gets the same token.
NewTokenFixed(j) == 1

\* uuid.New() is a value no earlier lease of the job had; the lease's number
\* within the job stands for it.
NewToken(j) == jobs[j].attempts + 1

TryLeaseOne(j) ==
    /\ Eligible(j)
    /\ jobs[j].attempts < MaxAttempts
    /\ jobs' = [jobs EXCEPT ![j] = [status |-> "leased",
                                    attempts |-> jobs[j].attempts + 1,
                                    token |-> NewToken(j),
                                    elapsed |-> FALSE]]
    /\ UNCHANGED checked

Settled(j, newStatus) ==
    [jobs EXCEPT ![j] = [@ EXCEPT !.status = newStatus, !.token = NoToken,
                                  !.elapsed = FALSE]]

TryMarkDeadOne(j) ==
    /\ Eligible(j)
    /\ jobs[j].attempts >= MaxAttempts
    /\ jobs' = Settled(j, "dead")
    /\ UNCHANGED checked

-----------------------------------------------------------------------------
(* The holder's statements: WHERE status = 'leased' AND lease_token = tok. *)

\* Mutant: the token is not compared.
OwnsAnyLease(j, tok) == jobs[j].status = "leased"

Owns(j, tok) == jobs[j].status = "leased" /\ jobs[j].token = tok

Heartbeat(j, tok) ==
    /\ Owns(j, tok)
    /\ jobs' = [jobs EXCEPT ![j].elapsed = FALSE]
    /\ UNCHANGED checked

Ack(j, tok) ==
    /\ Owns(j, tok)
    /\ jobs' = Settled(j, "done")
    /\ UNCHANGED checked

\* Mutant: the retry budget is not consulted.
NackForever(j, tok, tries) ==
    /\ Owns(j, tok)
    /\ jobs' = Settled(j, "queued")
    /\ UNCHANGED checked

\* The retry delay is at least a second, so available_at is in the future.
Nack(j, tok, tries) ==
    /\ Owns(j, tok)
    /\ jobs' = Settled(j, IF tries >= MaxAttempts THEN "dead" ELSE "queued")
    /\ UNCHANGED checked

\* LeaseLostError: the UPDATE matched no row.
LeaseLost(j, tok) == ~Owns(j, tok) /\ UNCHANGED queueVars

-----------------------------------------------------------------------------

\* available_at, or leased_until, passes.
TimestampPasses(j) ==
    /\ IsActive(j)
    /\ ~jobs[j].elapsed
    /\ jobs' = [jobs EXCEPT ![j].elapsed = TRUE]
    /\ UNCHANGED checked
=============================================================================

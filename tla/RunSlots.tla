------------------------------ MODULE RunSlots ------------------------------
(***************************************************************************)
(* The slots of one account: the Redis counter that limits its concurrent  *)
(* runs (src/src/services/shared/runlimit/runlimit.go) and everybody who   *)
(* moves it.  createThreadRun and the trigger scheduler take a slot before *)
(* they commit a run, the scheduler gives it back at once, every attempt   *)
(* of a worker gives one back when it is over, and the reaper sets the     *)
(* counter from the table.  Inbound channels, edited messages and          *)
(* callbacks create runs without a slot.                                   *)
(*                                                                         *)
(* Redis is up, and a limiter is configured with a limit above zero; with  *)
(* zero nothing is counted.  One limit stands for the entitlement of the   *)
(* account and the process-wide one.                                       *)
(***************************************************************************)
EXTENDS Integers, FiniteSets

CONSTANTS Runs,         \* the root runs of the account
          Creators,     \* who creates runs: "api", "scheduler", "other"
          Limit,        \* limit.concurrent_runs
          MaxAttempts,  \* leases of a run's job
          Reaping       \* whether the reaper is in the picture

ASSUME RunSlotsAssumption ==
    /\ IsFiniteSet(Runs)
    /\ Creators \subseteq {"api", "scheduler", "other"}
    /\ Limit \in Nat \ {0}
    /\ MaxAttempts \in Nat \ {0}
    /\ Reaping \in BOOLEAN

VARIABLES counter,    \* arkloop:account:active_runs:<account>
          creator,    \* whose request the run is, "none" before that
          status,     \* runs.status, "none" before the row is committed
          phase,      \* the run's request, its job, or its attempt
          attempts,   \* leases used
          returning,  \* scheduler calls that have committed, not released
          sync,       \* the reaper: idle, about to count, or with its count
          lost,       \* history: slots whose release never reached Redis
          reaped      \* history: the reaper has listed a run

historyVars == <<lost, reaped>>
vars == <<counter, creator, status, phase, attempts, returning, sync, historyVars>>

Idle == [at |-> "idle", count |-> 0]

Running == {r \in Runs : status[r] = "running"}
Active == {r \in Runs : status[r] \in {"running", "cancelling"}}
At(p) == {r \in Runs : phase[r] = p}

Init ==
    /\ counter = 0
    /\ creator = [r \in Runs |-> "none"]
    /\ status = [r \in Runs |-> "none"]
    /\ phase = [r \in Runs |-> "none"]
    /\ attempts = [r \in Runs |-> 0]
    /\ returning = {}
    /\ sync = Idle
    /\ lost = 0
    /\ reaped = FALSE

\* tryAcquireScript: one script, one step.
Acquire == counter < Limit /\ counter' = counter + 1

\* Mutant: the script decrements whatever it reads.
ReleaseBelowZero == counter' = counter - 1

\* releaseScript: never below zero.
Release == counter' = IF counter > 0 THEN counter - 1 ELSE 0

Moves(r, from, to) == phase[r] = from /\ phase' = [phase EXCEPT ![r] = to]

\* A request that came to nothing.
Forgotten(r) ==
    /\ Moves(r, "admitted", "none")
    /\ creator' = [creator EXCEPT ![r] = "none"]

-----------------------------------------------------------------------------
(* Creation.                                                               *)

\* Mutant: the count is read, and incremented whatever it is.
AdmitUnchecked(r, c) ==
    /\ c # "other"
    /\ Moves(r, "none", "admitted")
    /\ creator' = [creator EXCEPT ![r] = c]
    /\ counter' = counter + 1
    /\ UNCHANGED <<status, attempts, returning, sync, historyVars>>

\* TryAcquire in createThreadRun or in fireOne and fireJob.
Admit(r, c) ==
    /\ c # "other"
    /\ Moves(r, "none", "admitted")
    /\ creator' = [creator EXCEPT ![r] = c]
    /\ Acquire
    /\ UNCHANGED <<status, attempts, returning, sync, historyVars>>

\* The API's deferred release runs in the context of the request: when the
\* client has gone the script fails, and only the process's own fallback
\* counter is decremented.
ClientIsGone(r) == creator[r] = "api" /\ lost' = lost + 1 /\ UNCHANGED counter

\* Mutant: the deferred release is missing.
CreateFailsWithoutRelease(r) ==
    /\ Forgotten(r)
    /\ UNCHANGED <<counter, status, attempts, returning, sync, historyVars>>

\* Any error before the commit: rolled back, and the deferred release runs.
CreateFails(r) ==
    /\ Forgotten(r)
    /\ \/ Release /\ UNCHANGED lost
       \/ ClientIsGone(r)
    /\ UNCHANGED <<status, attempts, returning, sync, reaped>>

\* The API leaves the slot to the worker.
CreateCommits(r) ==
    /\ Moves(r, "admitted", "queued")
    /\ status' = [status EXCEPT ![r] = "running"]
    /\ returning' = IF creator[r] = "scheduler" THEN returning \cup {r} ELSE returning
    /\ UNCHANGED <<counter, creator, attempts, sync, historyVars>>

\* The commit is done but its answer is an error: the deferred release runs, and
\* the run is about without a slot, like those of CreateOther.
CommitIsUnanswered(r) ==
    /\ Moves(r, "admitted", "queued")
    /\ status' = [status EXCEPT ![r] = "running"]
    /\ creator' = [creator EXCEPT ![r] = "other"]
    /\ Release
    /\ UNCHANGED <<attempts, returning, sync, historyVars>>

\* The scheduler's deferred Release, on success too, in a context of its own.
SchedulerReturns(r) ==
    /\ r \in returning
    /\ returning' = returning \ {r}
    /\ Release
    /\ UNCHANGED <<creator, status, phase, attempts, sync, historyVars>>

\* A run without a slot: CreateRunWithStartedEvent and a job in one transaction.
CreateOther(r) ==
    /\ "other" \in Creators
    /\ Moves(r, "none", "queued")
    /\ creator' = [creator EXCEPT ![r] = "other"]
    /\ status' = [status EXCEPT ![r] = "running"]
    /\ UNCHANGED <<counter, attempts, returning, sync, historyVars>>

\* The API's process dies with a slot, before the commit or behind it.
ApiCrashes(r) ==
    /\ \/ Forgotten(r) /\ UNCHANGED returning
       \/ r \in returning /\ returning' = returning \ {r} /\ UNCHANGED <<creator, phase>>
    /\ lost' = lost + 1
    /\ UNCHANGED <<counter, status, attempts, sync, reaped>>

-----------------------------------------------------------------------------
(* The worker.                                                             *)

RequestCancel(r) ==
    /\ status[r] = "running"
    /\ status' = [status EXCEPT ![r] = "cancelling"]
    /\ UNCHANGED <<counter, creator, phase, attempts, returning, sync, historyVars>>

\* Handle goes on to EngineV1.Execute unless the run has ended.
Execute(r) ==
    /\ attempts[r] < MaxAttempts
    /\ Moves(r, "queued", IF r \in Active THEN "executing" ELSE "over")
    /\ attempts' = [attempts EXCEPT ![r] = @ + 1]
    /\ UNCHANGED <<counter, creator, status, returning, sync, historyVars>>

\* The attempt commits a terminal event; its slot is released afterwards.
EndsRun(r) ==
    /\ Moves(r, "executing", "ending")
    /\ status' = [status EXCEPT ![r] = "ended"]
    /\ UNCHANGED <<counter, creator, attempts, returning, sync, historyVars>>

\* rc.ReleaseSlot, once per attempt.
ReleaseSlot(r) ==
    /\ Moves(r, "ending", "over")
    /\ Release
    /\ UNCHANGED <<creator, status, attempts, returning, sync, historyVars>>

LeasesLeft(r) == attempts[r] < MaxAttempts

\* A slot the run was admitted with goes with its last attempt.
LosesSlot(r) == lost' = IF creator[r] = "api" THEN lost + 1 ELSE lost

\* The attempt ends in an error.  The deferred ReleaseSlot runs, unless Execute
\* failed before it was there or the process died; then the next lease is to
\* release, if there is one.
AttemptFails(r) ==
    /\ Moves(r, "executing", IF LeasesLeft(r) THEN "queued" ELSE "over")
    /\ \/ Release /\ UNCHANGED lost
       \/ LeasesLeft(r) /\ UNCHANGED <<counter, lost>>
       \/ ~LeasesLeft(r) /\ LosesSlot(r) /\ UNCHANGED counter
    /\ UNCHANGED <<creator, status, attempts, returning, sync, reaped>>

\* The process dies between the terminal event and the release; the next lease
\* finds the run ended.
WorkerCrashes(r) ==
    /\ Moves(r, "ending", "over")
    /\ LosesSlot(r)
    /\ UNCHANGED <<counter, creator, status, attempts, returning, sync, reaped>>

-----------------------------------------------------------------------------
(* The reaper.                                                             *)

\* One listed run of the account: forced to fail, or left as it is (its worker
\* was faster, or the database failed).  Either way the account will be synced.
Reap(r) ==
    /\ Reaping
    /\ sync.at # "setting"
    /\ status[r] # "none"
    /\ \/ r \in Active /\ status' = [status EXCEPT ![r] = "ended"]
       \/ UNCHANGED status
    /\ reaped' = TRUE
    /\ sync' = [at |-> "counting", count |-> 0]
    /\ UNCHANGED <<counter, creator, phase, attempts, returning, lost>>

\* SyncFromDB counts the rows ...
SyncCounts ==
    /\ sync.at = "counting"
    /\ sync' = [at |-> "setting", count |-> Cardinality(Running)]
    /\ UNCHANGED <<counter, creator, status, phase, attempts, returning, historyVars>>

\* ... or fails; the account waits for the next stale run.
SyncFails ==
    /\ sync # Idle
    /\ sync' = Idle
    /\ UNCHANGED <<counter, creator, status, phase, attempts, returning, historyVars>>

\* ... and sets the counter.
SyncSets ==
    /\ sync.at = "setting"
    /\ counter' = sync.count
    /\ sync' = Idle
    /\ UNCHANGED <<creator, status, phase, attempts, returning, historyVars>>

-----------------------------------------------------------------------------

Next ==
    \/ \E r \in Runs :
         \/ \E c \in Creators : Admit(r, c)
         \/ CreateFails(r) \/ CreateCommits(r) \/ CommitIsUnanswered(r)
         \/ SchedulerReturns(r)
         \/ CreateOther(r) \/ ApiCrashes(r)
         \/ RequestCancel(r) \/ Execute(r) \/ EndsRun(r) \/ ReleaseSlot(r)
         \/ AttemptFails(r) \/ WorkerCrashes(r)
         \/ Reap(r)
    \/ SyncCounts \/ SyncFails
    \/ SyncSets

Spec == Init /\ [][Next]_vars

\* Bound: slots that are lost, and whether the reaper has been at work.
TwoMishaps == lost + (IF reaped THEN 1 ELSE 0) <= 2
-----------------------------------------------------------------------------
(* Properties.                                                             *)

\* The state has the shape the declarations give it.
TypeOK ==
    /\ counter \in Nat
    /\ creator \in [Runs -> {"none", "api", "scheduler", "other"}]
    /\ status \in [Runs -> {"none", "running", "cancelling", "ended"}]
    /\ phase \in [Runs -> {"none", "admitted", "queued", "executing", "ending",
                           "over"}]
    /\ attempts \in [Runs -> 0 .. MaxAttempts]
    /\ returning \subseteq Runs
    /\ sync \in [at : {"idle", "counting", "setting"}, count : Nat]
    /\ lost \in Nat
    /\ reaped \in BOOLEAN

\* Who has still to release a slot: a request, the attempts of a run that the
\* API has admitted, or a call of the scheduler.
Holders ==
    {r \in Runs : creator[r] = "api" /\ phase[r] # "over"} \cup At("admitted") \cup returning

\* A slot that is counted will be released by somebody, or is one of those whose
\* release never reached Redis: the client had gone, the process died, or the
\* last attempt failed before its release was deferred.  No error, retry, cancel
\* or unanswered commit besides costs the account a slot, unless the reaper is
\* at work.
NoSlotLeaks == ~reaped => counter <= Cardinality(Holders) + lost

OnlyFirstAttempts ==
    \A r \in Runs : creator[r] \in {"none", "api"} /\ attempts[r] <= 1

\* While all runs come from createThreadRun and none is retried, no more of
\* them than the limit execute at a time.
LimitKept == ~reaped /\ OnlyFirstAttempts => Cardinality(At("executing")) <= Limit
=============================================================================

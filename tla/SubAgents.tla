------------------------------ MODULE SubAgents ------------------------------
(***************************************************************************)
(* One sub-agent of a thread (src/src/services/worker/internal/subagentctl *)
(* and data/sub_agents_repo.go): its row, its child runs, the inputs that  *)
(* wait for the current run to end, the parent's tool calls, which run in  *)
(* parallel and plan on an unlocked read of the row, and a call of         *)
(* wait_agent on the run's Redis channel.                                  *)
(*                                                                         *)
(* A tool call is two steps: the read it plans on, and its transaction.    *)
(* The statuses "created" and "resumable" are never left in or entered by  *)
(* any transaction, "waiting_input" is never assigned.  The job is reduced *)
(* to the attempts JobQueue and Consumer allow it.  An attempt that would  *)
(* end a linked run with run.interrupted cannot: TransitionToTerminal      *)
(* refuses the status, the transaction fails, and the job is nacked; it is *)
(* one way to take AttemptFails.  So is the deadlock PostgreSQL breaks     *)
(* between a terminal event (run, then sub-agent) and an interrupting      *)
(* input (sub-agent, then run).                                            *)
(***************************************************************************)
EXTENDS Integers

CONSTANTS Calls,        \* concurrent tool calls of the parent
          MaxCreates,   \* bound: runs created by spawn, send_input and resume
          MaxInputs,    \* bound: inputs queued behind a run
          MaxAttempts,  \* leases of a job
          MaxMishaps    \* bound: crashes, enqueues that fail after their commit,
                        \* and reaped runs

ASSUME SubAgentsAssumption ==
    /\ MaxCreates \in Nat \ {0}
    /\ MaxInputs \in Nat
    /\ MaxAttempts \in Nat \ {0}
    /\ MaxMishaps \in Nat

VARIABLES status,      \* sub_agents.status
          current,     \* sub_agents.current_run_id
          row,         \* runs.status of the child runs, without the kind of end
          cancel,      \* runs with a run.cancel_requested that can still be read
          pending,     \* rows of sub_agent_pending_inputs
          enq,         \* what became of the enqueue behind the run's commit
          maker,       \* who still enqueues it: the attempt of a run, or a call
          job,         \* the run.execute job and where its attempt is
          attempts,    \* leases used
          publishing,  \* ended runs whose "done" message is still to be sent
          seen,        \* the tool calls: the current run each has read
          waiter,      \* the call of wait_agent
          created, sent, mishaps,  \* counters of the bounds
          lost,        \* history: runs that lost job, enqueuer or publisher
          stranded     \* history: how many pending inputs were left behind

rowVars == <<status, current>>
runVars == <<row, cancel, enq, maker, job, attempts>>
bounds == <<created, sent, mishaps>>
history == <<lost, stranded>>
vars == <<rowVars, runVars, pending, publishing, seen, waiter, bounds, history>>

Runs == 1 .. (MaxCreates + MaxInputs)
NoRun == 0

Ended == {"completed", "failed", "cancelled"}
Busy == status \in {"queued", "running"}
Resolved == ~Busy

\* planner.go: a run is created for a sub-agent at rest.
AtRest == status \in Ended

NotRead == -1
NotWaiting == [at |-> "idle", run |-> NoRun]

\* uuid.New(): the next unused run.
Fresh(q) == row[q] = "none" /\ \A p \in Runs : p < q => row[p] # "none"

\* The sub-agent's first run is over: spawned by CreateSpawnRun, it went the way
\* of every later one.
Init ==
    /\ status = "completed"
    /\ current = NoRun
    /\ row = [r \in Runs |-> "none"]
    /\ cancel = {}
    /\ pending = 0
    /\ enq = [r \in Runs |-> "none"]
    /\ maker = [r \in Runs |-> NoRun]
    /\ job = [r \in Runs |-> "none"]
    /\ attempts = [r \in Runs |-> 0]
    /\ publishing = {}
    /\ seen = [c \in Calls |-> NotRead]
    /\ waiter = NotWaiting
    /\ created = 0 /\ sent = 0 /\ mishaps = 0
    /\ lost = {}
    /\ stranded = 0

-----------------------------------------------------------------------------
(* Rows.                                                                   *)

\* Mutant: the status the plan was made on is trusted.
MayQueueAsPlanned == TRUE

\* validateSubAgentStatusTransition to "queued", on the locked row.
MayQueue == AtRest

\* createQueuedRun: TransitionToQueued beside the run's row.
CreateQueuedRun(q, m) ==
    /\ enq' = [enq EXCEPT ![q] = "owed"]
    /\ maker' = [maker EXCEPT ![q] = m]
    /\ status' = "queued"
    /\ current' = q

\* TransitionToTerminal: nothing happens to a run that is not the current one.
TransitionToTerminal(r, kind) ==
    IF current = r
    THEN status' = kind /\ current' = NoRun
    ELSE UNCHANGED rowVars

\* Inputs are left behind by a transaction that ends or unlinks a run.
LeftBehind == stranded' = pending

-----------------------------------------------------------------------------
(* The parent's tool calls.                                                *)

\* mustLoadOwnedSubAgent and the planner: a call goes on with a busy
\* sub-agent's current run, or with a sub-agent at rest.
Plan(c) ==
    /\ seen[c] = NotRead
    /\ Busy \/ AtRest
    /\ seen' = [seen EXCEPT ![c] = current]
    /\ UNCHANGED <<rowVars, runVars, pending, publishing, waiter, bounds, history>>

PlannedAtRest(c) == seen[c] = NoRun
PlannedBehind(c, r) == r \in Runs /\ seen[c] = r

Returns(c) == seen' = [seen EXCEPT ![c] = NotRead]

\* run.cancel_requested, which nobody reads when the job is over.
RequestCancel(r) == cancel' = IF job[r] = "over" THEN cancel ELSE cancel \cup {r}

\* The transaction of SendInput or Resume that creates a run.
CreateRun(c, q) ==
    /\ PlannedAtRest(c)
    /\ Fresh(q)
    /\ MayQueue
    /\ created < MaxCreates
    /\ created' = created + 1
    /\ row' = [row EXCEPT ![q] = "running"]
    /\ CreateQueuedRun(q, NoRun)
    /\ Returns(c)
    /\ UNCHANGED <<cancel, job, attempts, pending, publishing, waiter, sent, mishaps, history>>

\* SendInput behind a run: the input is inserted whatever the row says by now;
\* an interrupting one appends run.cancel_requested to the run that was read.
QueueInput(c, r, interrupt) ==
    /\ PlannedBehind(c, r)
    /\ sent < MaxInputs
    /\ sent' = sent + 1
    /\ pending' = pending + 1
    /\ IF interrupt THEN RequestCancel(r) ELSE UNCHANGED cancel
    /\ stranded' = IF Busy THEN stranded ELSE stranded + 1
    /\ Returns(c)
    /\ UNCHANGED <<rowVars, row, enq, maker, job, attempts, publishing, waiter, created, mishaps, lost>>

\* Interrupt.
Interrupt(c, r) ==
    /\ PlannedBehind(c, r)
    /\ RequestCancel(r)
    /\ Returns(c)
    /\ UNCHANGED <<rowVars, row, enq, maker, job, attempts, pending, publishing, waiter,
                   bounds, history>>

\* Close: TransitionToClosed takes "queued" too, when another call was faster.
Close(c) ==
    /\ PlannedAtRest(c)
    /\ status # "running"
    /\ status' = "closed"
    /\ current' = NoRun
    /\ LeftBehind
    /\ Returns(c)
    /\ UNCHANGED <<runVars, pending, publishing, waiter, bounds, lost>>

\* The locked row refuses the transition, or the call ends in an error.
CallFails(c) ==
    /\ seen[c] # NotRead
    /\ Returns(c)
    /\ UNCHANGED <<rowVars, runVars, pending, publishing, waiter, bounds, history>>

-----------------------------------------------------------------------------
(* The enqueue after the commit.                                           *)

Mishap == mishaps < MaxMishaps /\ mishaps' = mishaps + 1

Enqueued(r) ==
    /\ enq' = [enq EXCEPT ![r] = "done"]
    /\ maker' = [maker EXCEPT ![r] = NoRun]

\* EnqueueRun: done, failed, or failed for the caller only.
EnqueueRun(r) ==
    /\ enq[r] = "owed"
    /\ \/ /\ Enqueued(r) /\ job' = [job EXCEPT ![r] = "queued"]
          /\ UNCHANGED mishaps
       \/ /\ enq' = [enq EXCEPT ![r] = "failed"]
          /\ \/ job' = [job EXCEPT ![r] = "over"] /\ UNCHANGED mishaps
             \/ job' = [job EXCEPT ![r] = "queued"] /\ Mishap
          /\ UNCHANGED maker
    /\ UNCHANGED <<rowVars, row, cancel, attempts, pending, publishing, seen, waiter,
                   created, sent, history>>

\* MarkRunFailed: the run ends without a look at its status, and the pending
\* inputs are left where they are.
MarkRunFailed(r) ==
    /\ enq[r] = "failed"
    /\ Enqueued(r)
    /\ row' = [row EXCEPT ![r] = "ended"]
    /\ TransitionToTerminal(r, "failed")
    /\ publishing' = publishing \cup {r}
    /\ LeftBehind
    /\ UNCHANGED <<cancel, job, attempts, pending, seen, waiter, bounds, lost>>

\* Runs that m has committed and not yet enqueued or failed.
OwedBy(m) == {r \in Runs : maker[r] = m /\ enq[r] \in {"owed", "failed"}}

\* The process dies behind a commit: of the parent (no run), or of the attempt
\* of a run that has ended.
CrashBehindCommit(m) ==
    /\ Mishap
    /\ OwedBy(m) # {} \/ m \in publishing
    /\ maker' = [r \in Runs |-> IF r \in OwedBy(m) THEN NoRun ELSE maker[r]]
    /\ enq' = [r \in Runs |-> IF r \in OwedBy(m) THEN "done" ELSE enq[r]]
    /\ publishing' = publishing \ {m}
    /\ lost' = lost \cup OwedBy(m) \cup (publishing \cap {m})
    /\ UNCHANGED <<rowVars, row, cancel, job, attempts, pending, seen, waiter,
                   created, sent, stranded>>

\* A message waits in the subscription's channel.
Notified(at) ==
    CASE at = "subscribed" -> "notified"
      [] at = "listening" -> "woken"
      [] OTHER -> at

\* The "done" message reaches whoever has subscribed, and nobody else.
Publish(r) ==
    /\ r \in publishing
    /\ OwedBy(r) = {}
    /\ publishing' = publishing \ {r}
    /\ waiter' = IF waiter.run = r THEN [waiter EXCEPT !.at = Notified(@)] ELSE waiter
    /\ UNCHANGED <<rowVars, runVars, pending, seen, bounds, history>>

-----------------------------------------------------------------------------
(* The attempts.                                                           *)

At(r, place) == job[r] = place

\* A job that is over forgets its attempts and its cancel request.
Goes(r, place) ==
    /\ job' = [job EXCEPT ![r] = place]
    /\ IF place = "over"
       THEN attempts' = [attempts EXCEPT ![r] = 0] /\ cancel' = cancel \ {r}
       ELSE UNCHANGED <<attempts, cancel>>

\* The lease, and Handle, which skips a run that has ended.
Lease(r) ==
    /\ At(r, "queued")
    /\ IF row[r] = "running"
       THEN /\ job' = [job EXCEPT ![r] = "starting"]
            /\ attempts' = [attempts EXCEPT ![r] = @ + 1]
            /\ UNCHANGED cancel
       ELSE Goes(r, "over")
    /\ UNCHANGED <<rowVars, row, enq, maker, pending, publishing, seen, waiter,
                   bounds, history>>

\* MarkRunning.
MarkRunning(r) ==
    /\ At(r, "starting")
    /\ Goes(r, "pipeline")
    /\ status' = IF current = r THEN "running" ELSE status
    /\ UNCHANGED <<current, row, enq, maker, pending, publishing, seen, waiter, bounds,
                   history>>

\* The cancel guard passes, or skips a run that has ended meanwhile.
GuardPasses(r) ==
    /\ At(r, "pipeline")
    /\ row[r] # "running" \/ r \notin cancel
    /\ Goes(r, IF row[r] = "running" THEN "loop" ELSE "over")
    /\ UNCHANGED <<rowVars, row, enq, maker, pending, publishing, seen, waiter, bounds,
                   history>>

\* Mutant: the terminal event without the sub-agent's row.
EndsEarlyUnlinked(r) ==
    /\ At(r, "pipeline")
    /\ Goes(r, "over")
    /\ row' = [row EXCEPT ![r] = "ended"]
    /\ publishing' = publishing \cup {r}
    /\ LeftBehind
    /\ UNCHANGED <<rowVars, enq, maker, pending, seen, waiter, bounds, lost>>

\* appendAndCommitSingle, for the cancel guard and the pipeline's failures: it
\* does not look at the pending inputs.
EndsEarly(r) ==
    /\ At(r, "pipeline")
    /\ Goes(r, "over")
    /\ row' = [row EXCEPT ![r] = "ended"]
    /\ TransitionToTerminal(r, IF r \in cancel THEN "cancelled" ELSE "failed")
    /\ publishing' = publishing \cup {r}
    /\ LeftBehind
    /\ UNCHANGED <<enq, maker, pending, seen, waiter, bounds, lost>>

\* How the loop may end a run: the event writer sees a cancel request first.
Outcomes(r) == IF r \in cancel THEN {"cancelled"} ELSE {"completed", "failed"}

\* Mutant: only a completed run looks for pending inputs.
TakesInputsIfCompleted(r, kind) == current = r /\ pending > 0 /\ kind = "completed"

\* ProjectRunTerminal goes on to CreateRunFromPendingInputs.
TakesInputs(r, kind) == current = r /\ pending > 0

\* Mutant: the run made from the inputs is not handed to the enqueue.
CreateUnannouncedRun(r, q) ==
    /\ status' = "queued"
    /\ current' = q
    /\ UNCHANGED <<enq, maker>>

\* CreateRunFromPendingInputs, in the transaction that ends run r; the writer
\* enqueues the run after the commit.
CreateRunFromPendingInputs(r, q) == CreateQueuedRun(q, r)

\* The event writer's terminal transaction: the run, the sub-agent, and the next
\* run made from all inputs that wait.
Ends(r, kind) ==
    /\ At(r, "loop")
    /\ kind \in Outcomes(r)
    /\ Goes(r, "over")
    /\ \/ /\ TakesInputs(r, kind)
          /\ \E q \in Runs :
               /\ Fresh(q)
               /\ row' = [row EXCEPT ![r] = "ended", ![q] = "running"]
               /\ CreateRunFromPendingInputs(r, q)
          /\ pending' = 0
          /\ stranded' = 0
       \/ /\ ~TakesInputs(r, kind)
          /\ row' = [row EXCEPT ![r] = "ended"]
          /\ TransitionToTerminal(r, kind)
          /\ UNCHANGED <<enq, maker, pending, stranded>>
    /\ publishing' = publishing \cup {r}
    /\ UNCHANGED <<seen, waiter, bounds, lost>>

\* Mutant: no attempt is the last.
RetriesLeftAlways(r) == TRUE

RetriesLeft(r) == attempts[r] < MaxAttempts

\* An error, a crash or a lost lease anywhere in the attempt: the job is
\* available again, or dead.
AttemptFails(r) ==
    /\ job[r] \in {"starting", "pipeline", "loop"}
    /\ Goes(r, IF RetriesLeft(r) THEN "queued" ELSE "over")
    /\ lost' = IF RetriesLeft(r) THEN lost ELSE lost \cup {r}
    /\ UNCHANGED <<rowVars, row, enq, maker, pending, publishing, seen, waiter, bounds,
                   stranded>>

\* ForceFailRun: the run ends, its sub-agent's row stays.
Reap(r) ==
    /\ Mishap
    /\ row[r] = "running"
    /\ row' = [row EXCEPT ![r] = "ended"]
    /\ lost' = lost \cup {r}
    /\ LeftBehind
    /\ UNCHANGED <<rowVars, cancel, enq, maker, job, attempts, pending, publishing, seen,
                   waiter, created, sent>>

-----------------------------------------------------------------------------
(* wait_agent on Redis.                                                    *)

\* GetStatus: a sub-agent at work, and the run whose channel will be listened to.
WaitLooks ==
    /\ waiter = NotWaiting
    /\ Busy
    /\ waiter' = [at |-> "looked", run |-> current]
    /\ UNCHANGED <<rowVars, runVars, pending, publishing, seen, bounds, history>>

\* Mutant: the subscriber listens at once.
SubscribesOnly ==
    /\ waiter.at = "looked"
    /\ waiter' = [waiter EXCEPT !.at = "listening"]
    /\ UNCHANGED <<rowVars, runVars, pending, publishing, seen, bounds, history>>

\* Subscribe.  The client does not wait for the acknowledgement; here the server has
\* the subscription before anything is published after it.
Subscribes ==
    /\ waiter.at = "looked"
    /\ waiter' = [waiter EXCEPT !.at = "subscribed"]
    /\ UNCHANGED <<rowVars, runVars, pending, publishing, seen, bounds, history>>

\* GetStatus again: at once, and after every message; the wait is over, or goes
\* on for the next message.
WaitChecks ==
    /\ waiter.at \in {"subscribed", "notified", "woken"}
    /\ waiter' = IF Resolved THEN NotWaiting
                 ELSE [waiter EXCEPT !.at = IF @ = "notified" THEN "woken" ELSE "listening"]
    /\ UNCHANGED <<rowVars, runVars, pending, publishing, seen, bounds, history>>

\* The caller's context ends.
WaitTimesOut ==
    /\ waiter.at = "listening"
    /\ waiter' = NotWaiting
    /\ UNCHANGED <<rowVars, runVars, pending, publishing, seen, bounds, history>>

-----------------------------------------------------------------------------

CallStep(c) ==
    \/ Plan(c) \/ Close(c) \/ CallFails(c)
    \/ \E r \in Runs :
         \/ CreateRun(c, r)
         \/ \E interrupt \in BOOLEAN : QueueInput(c, r, interrupt)
         \/ Interrupt(c, r)

AttemptStep(r) ==
    \/ MarkRunning(r) \/ GuardPasses(r) \/ EndsEarly(r)
    \/ \E kind \in Ended : Ends(r, kind)
    \/ AttemptFails(r)

Next ==
    \/ \E c \in Calls : CallStep(c)
    \/ \E r \in Runs :
         EnqueueRun(r) \/ MarkRunFailed(r) \/ Publish(r) \/ Lease(r) \/ AttemptStep(r) \/ Reap(r)
    \/ \E m \in Runs \cup {NoRun} : CrashBehindCommit(m)
    \/ WaitLooks \/ Subscribes \/ WaitChecks \/ WaitTimesOut

Spec == Init /\ [][Next]_vars
-----------------------------------------------------------------------------
(* Properties.                                                             *)

\* The state has the shape the declarations give it; no job exceeds its attempts.
TypeOK ==
    /\ status \in {"queued", "running", "closed"} \cup Ended
    /\ current \in Runs \cup {NoRun}
    /\ row \in [Runs -> {"none", "running", "ended"}]
    /\ cancel \subseteq Runs
    /\ pending \in 0 .. MaxInputs
    /\ enq \in [Runs -> {"none", "owed", "failed", "done"}]
    /\ maker \in [Runs -> Runs \cup {NoRun}]
    /\ job \in [Runs -> {"none", "queued", "starting", "pipeline", "loop", "over"}]
    /\ attempts \in [Runs -> 0 .. MaxAttempts]
    /\ publishing \subseteq Runs
    /\ seen \in [Calls -> Runs \cup {NoRun, NotRead}]
    /\ waiter \in [at : {"idle", "looked", "subscribed", "notified", "listening", "woken"},
                   run : Runs \cup {NoRun}]
    /\ created \in 0 .. MaxCreates /\ sent \in 0 .. MaxInputs /\ mishaps \in 0 .. MaxMishaps
    /\ lost \subseteq Runs
    /\ stranded \in 0 .. pending

Active == {r \in Runs : row[r] = "running"}

\* However the parent's parallel calls interleave with each other and with the
\* end of a run, a sub-agent never has two runs at a time: they would write to
\* one thread.
OneActiveRun == \A p, q \in Active : p = q

\* The row and the run tell the same story: a busy sub-agent's current run has
\* not ended, unless the reaper ended it (which leaves the row busy for good),
\* and a run that has not ended is the current one, unless the sub-agent was
\* closed over it.
RowMatchesRun ==
    /\ Busy <=> current # NoRun
    /\ Busy => current \in Active \cup lost
    /\ Active \subseteq {current} \/ status = "closed"

\* An input that waits has a run to wait for, which will take it when it ends.
\* What strands it: a send_input that planned on a run that has ended since, and
\* an end that does not look (the cancel guard, the pipeline's failures, a
\* failed enqueue, the reaper, a close).
InputsHaveARun == pending > stranded => current \in Active \cup lost

\* wait_agent misses no end: while it listens and its sub-agent is at rest, the
\* message of the run it listens to has arrived or will, unless a process died
\* with it, or the sub-agent has gone on to another run, from pending inputs or
\* by a parallel call, to whose channel nobody listens.
WaiterIsWoken ==
    waiter.at = "listening" /\ Resolved =>
        \/ waiter.run \in publishing \cup Active \cup lost
        \/ \E q \in Runs : q > waiter.run /\ row[q] # "none"

\* A busy sub-agent is worked on: its current run has somebody who will enqueue
\* it or fail it, or a job with attempts left, unless the job died, a process
\* died before the enqueue, or the reaper ended the run.  Nothing else in the
\* code would ever move the row again.
BusyIsWorkedOn ==
    Busy =>
        \/ enq[current] \in {"owed", "failed"}
        \/ job[current] \in {"queued", "starting", "pipeline", "loop"}
        \/ current \in lost
=============================================================================

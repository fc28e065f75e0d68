----------------------------- MODULE ThreadRuns -----------------------------
(***************************************************************************)
(* The runs of one thread: who may start one, and how the results of its   *)
(* sub-agents reach it.  A run is claimed by the API and by the trigger    *)
(* scheduler under the thread's row lock (api/internal/data/runs_repo.go), *)
(* or created for a callback behind the end of another run                 *)
(* (worker/internal/subagentctl/projector.go).                             *)
(*                                                                         *)
(* A slot of Runs is used again when nothing speaks of its run any more.   *)
(* User runs and scheduled jobs are claimed alike and share a kind.  The   *)
(* job of a run is reduced to where it is; JobQueue and Consumer model it. *)
(* Whether a heartbeat still answers the thread's last message, and        *)
(* whether it has said something yet, are left open: a claim that meets    *)
(* one may go beside it, cancel it, or be refused.                         *)
(***************************************************************************)
EXTENDS Integers

CONSTANTS Runs,        \* slots for runs
          Callbacks,   \* ends of sub-agents' runs, in the order of created_at
          NoRun, NoCallback,
          Workers,     \* slots for what is done behind the commit of an end
          MaxMishaps   \* bound: crashes, and enqueues that fail

ASSUME ThreadRunsAssumption ==
    /\ Callbacks \subseteq Nat
    /\ NoCallback \notin Callbacks
    /\ NoRun \notin Runs
    /\ MaxMishaps \in Nat

VARIABLES kind,      \* run_kind of the run.started event
          status,    \* runs.status, with "ended" for every end but completion
          older,     \* created_at: the active runs the run sorts behind
          target,    \* callback_id of a callback run
          job,       \* where the run.execute job is
          shown,     \* callbacks listed for the last attempt
          cb,        \* the rows of thread_subagent_callbacks
          claim,     \* the transaction of a claim, which holds the thread's row
          hook,      \* what a worker still does behind the commit of an end
          mishaps,   \* counter of the bound
          late,      \* history: runs whose created_at was not the newest when
                     \* they were inserted
          wakeup     \* history: whether the last end was followed by a look for callbacks

runVars == <<kind, status, older, target, job, shown, late>>
vars == <<runVars, cb, claim, hook, mishaps, wakeup>>

NoClaim == [kind |-> "none", active |-> NoRun]
Idle == [at |-> "idle", cb |-> NoCallback, run |-> NoRun]
Hooks == [at : {"idle", "list", "relist", "create", "create next", "enqueue", "enqueue next"},
          cb : Callbacks \cup {NoCallback},
          run : Runs \cup {NoRun}]
At(w, place) == hook[w].at = place

\* A worker goes on behind its commit.
Behind(h) == \E w \in Workers : hook[w] = Idle /\ hook' = [hook EXCEPT ![w] = h]

Active(r) == status[r] \in {"running", "cancelling"}

\* No run of the thread is running or cancelling.
ThreadIsIdle == \A r \in Runs : ~Active(r)

\* Mutant: callbacks of any age are listed.
PendingAtAnyAge == {c \in Callbacks : cb[c] \in {"pending", "old"}}

\* ListPendingByThread: not consumed, and younger than ten minutes.
Pending == {c \in Callbacks : cb[c] = "pending"}

\* The oldest of a list, in the order of created_at.
Oldest(c, list) == c \in list /\ \A d \in list : c <= d

Init ==
    /\ kind = [r \in Runs |-> "none"]
    /\ status = [r \in Runs |-> "none"]
    /\ older = [r \in Runs |-> {}]
    /\ target = [r \in Runs |-> NoCallback]
    /\ job = [r \in Runs |-> "none"]
    /\ shown = [r \in Runs |-> {}]
    /\ cb = [c \in Callbacks |-> "none"]
    /\ claim = NoClaim
    /\ hook = [w \in Workers |-> Idle]
    /\ mishaps = 0
    /\ late = {}
    /\ wakeup = "kept"

Mishap == mishaps < MaxMishaps /\ mishaps' = mishaps + 1

-----------------------------------------------------------------------------
(* Creating a run.                                                         *)

\* A slot nobody speaks of.
Free(r) ==
    /\ ~Active(r)
    /\ job[r] = "none"
    /\ claim.active # r
    /\ \A w \in Workers : hook[w].run # r

\* Where a run may sort among those that others are: created_at is now(), the time
\* its transaction began, and that may be long before it got the thread's row, so
\* runs it has waited for may sort behind it.
Places(others) ==
    {before \in SUBSET others : \A q \in before : older[q] \cap others \subseteq before}

\* The run's row and its run.started event; changed are the statuses of the others.
InsertRun(r, new, c, place, changed) ==
    /\ Free(r)
    /\ kind' = [kind EXCEPT ![r] = new]
    /\ status' = [changed EXCEPT ![r] = "running"]
    /\ LET others == {p \in Runs : changed[p] \in {"running", "cancelling"}}
       IN \E before \in Places(others) :
            /\ older' = [q \in Runs |-> IF q = r THEN before
                                        ELSE IF q \in others \ before THEN older[q] \cup {r}
                                        ELSE older[q] \ {r}]
            /\ late' = IF before = others THEN late \ {r} ELSE late \cup {r}
    /\ target' = [target EXCEPT ![r] = c]
    /\ job' = [job EXCEPT ![r] = place]
    /\ shown' = [shown EXCEPT ![r] = {}]

-----------------------------------------------------------------------------
(* CreateRootRunWithClaimAndResumeFrom.                                    *)

\* GetActiveRootRunForThread: of the active runs, the newest by created_at.
Newest(r) == Active(r) /\ \A q \in Runs : Active(q) => q = r \/ q \in older[r]

\* LockThreadRow, and the look at the active run.
ClaimLooks(new) ==
    /\ claim = NoClaim
    /\ \/ \E r \in Runs : Newest(r) /\ claim' = [kind |-> new, active |-> r]
       \/ ThreadIsIdle /\ claim' = [kind |-> new, active |-> NoRun]
    /\ UNCHANGED <<runVars, cb, hook, mishaps, wakeup>>

\* The run and its job, in the claim's transaction.
Creates(r, changed) ==
    /\ InsertRun(r, claim.kind, NoCallback, "queued", changed)
    /\ claim' = NoClaim
    /\ UNCHANGED <<hook, mishaps>>

ClaimIdle(r) ==
    /\ claim # NoClaim
    /\ claim.active = NoRun
    /\ Creates(r, status)
    /\ UNCHANGED <<cb, wakeup>>

\* supersedeSubagentCallbackRun: if the callback run has ended since the look, the
\* first statement changes nothing and the second still does.
ClaimSupersedes(r, q) ==
    /\ claim.active = q
    /\ kind[q] = "callback"
    /\ Creates(r, IF Active(q) THEN [status EXCEPT ![q] = "ended"] ELSE status)
    /\ wakeup' = IF Active(q) THEN "missed" ELSE wakeup
    /\ cb' = [c \in Callbacks |-> IF cb[c] = "none" THEN "none" ELSE "consumed"]

\* Mutant: the claim goes ahead beside any run whose messages are older.
MayShareThreadByTail(q) == claim.kind # "heartbeat"

\* The only run a claim leaves beside its own is a heartbeat's.
MayShareThread(q) == kind[q] = "heartbeat" /\ claim.kind # "heartbeat"

\* resolveHeartbeatConflict: the heartbeat answers another message.
ClaimBesideHeartbeat(r, q) ==
    /\ claim.active = q
    /\ MayShareThread(q)
    /\ Creates(r, status)
    /\ UNCHANGED <<cb, wakeup>>

\* The same message, nothing said yet: RequestCancel, a no-op on an ended run.
ClaimCancelsHeartbeat(r, q) ==
    /\ claim.active = q
    /\ MayShareThread(q)
    /\ Creates(r, IF Active(q) THEN [status EXCEPT ![q] = "cancelling"] ELSE status)
    /\ UNCHANGED <<cb, wakeup>>

\* ErrThreadBusy, or an error: the transaction is rolled back, and a trigger is
\* postponed.
ClaimFails ==
    /\ claim # NoClaim
    /\ claim' = NoClaim
    /\ UNCHANGED <<runVars, cb, hook, mishaps, wakeup>>

ClaimEnds ==
    \/ ClaimFails
    \/ \E r \in Runs : ClaimIdle(r)
    \/ \E r, q \in Runs :
         ClaimSupersedes(r, q) \/ ClaimBesideHeartbeat(r, q) \/ ClaimCancelsHeartbeat(r, q)

-----------------------------------------------------------------------------
(* What happens to the runs meanwhile.                                     *)

\* The API's cancel handler.
RequestCancel(r) ==
    /\ status[r] = "running"
    /\ status' = [status EXCEPT ![r] = "cancelling"]
    /\ UNCHANGED <<kind, older, late, target, job, shown, cb, claim, hook,
                   mishaps, wakeup>>

\* ProjectRunTerminal in a sub-agent's thread inserts the callback; its worker
\* then tries to start a run for it (EnqueueCallbackRunIfIdle).
ChildEnds(c) ==
    /\ cb[c] = "none"
    /\ \A d \in Callbacks : d < c => cb[d] # "none"
    /\ cb' = [cb EXCEPT ![c] = "pending"]
    /\ Behind([at |-> "create", cb |-> c, run |-> NoRun])
    /\ UNCHANGED <<runVars, claim, mishaps, wakeup>>

\* Ten minutes have passed.
Ages(c) ==
    /\ Oldest(c, Pending)
    /\ cb' = [cb EXCEPT ![c] = "old"]
    /\ UNCHANGED <<runVars, claim, hook, mishaps, wakeup>>

-----------------------------------------------------------------------------
(* The attempts.                                                           *)

Goes(r, place) == job' = [job EXCEPT ![r] = place]

\* Mutant: the callback id of a run without one is listed too.
VisibleWithTarget(r) == IF kind[r] = "callback" THEN Pending \cap {target[r]}
                        ELSE Pending \cup {target[r]}

\* NewSubAgentCallbackMiddleware: a callback run sees its own callback only.
Visible(r) == IF kind[r] = "callback" THEN Pending \cap {target[r]} ELSE Pending

Starts(r) ==
    /\ job[r] = "queued"
    /\ status[r] = "running"
    /\ Goes(r, "working")
    /\ shown' = [shown EXCEPT ![r] = Visible(r)]
    /\ UNCHANGED <<kind, status, older, late, target, cb, claim, hook,
                   mishaps, wakeup>>

\* An end no look follows: written by appendAndCommitSingle, which a cancelled run
\* and the refusals ahead of the agent loop go through.
EndsEarly(r) ==
    /\ job[r] = "queued"
    /\ Active(r)
    /\ status' = [status EXCEPT ![r] = "ended"]
    /\ Goes(r, "none")
    /\ wakeup' = "missed"
    /\ UNCHANGED <<kind, older, late, target, shown, cb, claim, hook, mishaps>>

\* Mutant: only the callbacks of the run's own sub-agents are looked after.
AfterEndNothing == Idle

\* The hook behind the end of a run: EnqueueOldestPendingCallbackIfIdle.
AfterEnd == [at |-> "list", cb |-> NoCallback, run |-> NoRun]

\* The terminal event commits, and the hooks behind the commit are next.
Commits(r, end) ==
    /\ job[r] = "working"
    /\ status' = [status EXCEPT ![r] = end]
    /\ Goes(r, "none")
    /\ Behind(AfterEnd)
    /\ wakeup' = "kept"
    /\ UNCHANGED <<kind, older, late, target, claim, mishaps>>

\* Mutant: the end of a run consumes whatever is pending by then.
ConsumesPending(r) == Pending

\* MarkConsumed: what the run was shown, and a callback run's own callback.
Consumes(r) == {c \in Callbacks : cb[c] # "consumed" /\ (c \in shown[r] \/ c = target[r])}

\* run.completed.
Completes(r) ==
    /\ status[r] = "running"
    /\ Commits(r, "completed")
    /\ cb' = [c \in Callbacks |-> IF c \in Consumes(r) THEN "consumed" ELSE cb[c]]
    /\ UNCHANGED shown

\* run.failed and run.interrupted, and run.cancelled where one was requested.
Fails(r) ==
    /\ Active(r)
    /\ Commits(r, "ended")
    /\ shown' = [shown EXCEPT ![r] = {}]
    /\ UNCHANGED cb

\* A run superseded meanwhile is left alone.
Stops(r) ==
    /\ job[r] \in {"queued", "working"}
    /\ ~Active(r)
    /\ Goes(r, "none")
    /\ UNCHANGED <<kind, status, older, late, target, shown, cb, claim, hook,
                   mishaps, wakeup>>

\* The worker dies: the job is leased again, or it was the last attempt.
AttemptIsLost(r) ==
    /\ Mishap
    /\ job[r] = "working"
    /\ Goes(r, "queued") \/ Goes(r, "none")
    /\ UNCHANGED <<kind, status, older, late, target, shown, cb, claim, hook,
                   wakeup>>

\* ForceFailRun, on a run no job and no hook will ever end.
Reap(r) ==
    /\ Active(r)
    /\ job[r] = "none"
    /\ \A w \in Workers : hook[w].run # r
    /\ status' = [status EXCEPT ![r] = "ended"]
    /\ wakeup' = "missed"
    /\ UNCHANGED <<kind, older, late, target, job, shown, cb, claim, hook, mishaps>>

-----------------------------------------------------------------------------
(* Behind the commit.                                                      *)

\* EnqueueOldestPendingCallbackIfIdle, and behind a failed enqueue
\* enqueueNextPendingCallbackIfIdle, which leaves that callback out.
HookLists(w) ==
    /\ At(w, "list") \/ At(w, "relist")
    /\ LET list == Pending \ {hook[w].cb}
           next == IF At(w, "list") THEN "create" ELSE "create next"
       IN \/ /\ list = {}
             /\ hook' = [hook EXCEPT ![w] = Idle]
          \/ \E c \in list :
               /\ Oldest(c, list)
               /\ hook' = [hook EXCEPT ![w] = [at |-> next, cb |-> c, run |-> NoRun]]
    /\ UNCHANGED <<runVars, cb, claim, mishaps, wakeup>>

\* enqueueCallbackRunIfIdle, which takes the thread's row and does not look at the
\* callback again.
HookFindsBusy(w) ==
    /\ At(w, "create") \/ At(w, "create next")
    /\ claim = NoClaim
    /\ ~ThreadIsIdle
    /\ hook' = [hook EXCEPT ![w] = Idle]
    /\ UNCHANGED <<runVars, cb, claim, mishaps, wakeup>>

HookCreates(w, r) ==
    /\ At(w, "create") \/ At(w, "create next")
    /\ claim = NoClaim
    /\ ThreadIsIdle
    /\ InsertRun(r, "callback", hook[w].cb, "none", status)
    /\ hook' = [hook EXCEPT ![w] =
                   [at |-> IF At(w, "create") THEN "enqueue" ELSE "enqueue next",
                    cb |-> hook[w].cb, run |-> r]]
    /\ UNCHANGED <<cb, claim, mishaps, wakeup>>

HookEnqueues(w) ==
    /\ At(w, "enqueue") \/ At(w, "enqueue next")
    /\ Goes(hook[w].run, "queued")
    /\ hook' = [hook EXCEPT ![w] = Idle]
    /\ UNCHANGED <<kind, status, older, late, target, shown, cb, claim, mishaps,
                   wakeup>>

\* markCallbackRunEnqueueFailed, which leaves a run that is being cancelled to the
\* reaper; then one more callback is tried.
HookFailsToEnqueue(w) ==
    /\ Mishap
    /\ At(w, "enqueue") \/ At(w, "enqueue next")
    /\ LET r == hook[w].run
       IN IF status[r] = "running"
          THEN status' = [status EXCEPT ![r] = "ended"] /\ wakeup' = "missed"
          ELSE UNCHANGED <<status, wakeup>>
    /\ hook' = [hook EXCEPT ![w] =
                   IF At(w, "enqueue") THEN [at |-> "relist", cb |-> hook[w].cb, run |-> NoRun]
                   ELSE Idle]
    /\ UNCHANGED <<kind, older, late, target, job, shown, cb, claim>>

\* The worker dies behind the commit.
HookIsLost(w) ==
    /\ Mishap
    /\ hook[w] # Idle
    /\ hook' = [hook EXCEPT ![w] = Idle]
    /\ wakeup' = "missed"
    /\ UNCHANGED <<runVars, cb, claim>>

HookStep(w) ==
    HookLists(w) \/ HookFindsBusy(w) \/ (\E r \in Runs : HookCreates(w, r)) \/ HookEnqueues(w)

-----------------------------------------------------------------------------
RunStep(r) == Starts(r) \/ EndsEarly(r) \/ Completes(r) \/ Fails(r) \/ Stops(r) \/ Reap(r)

Next ==
    \/ \E new \in {"normal", "heartbeat"} : ClaimLooks(new)
    \/ ClaimEnds
    \/ \E r \in Runs : RunStep(r) \/ RequestCancel(r) \/ AttemptIsLost(r)
    \/ \E c \in Callbacks : ChildEnds(c) \/ Ages(c)
    \/ \E w \in Workers : HookStep(w) \/ HookFailsToEnqueue(w) \/ HookIsLost(w)

Spec == Init /\ [][Next]_vars

Fairness ==
    /\ WF_vars(ClaimEnds)
    /\ \A r \in Runs : WF_vars(RunStep(r))
    /\ \A c \in Callbacks : WF_vars(Ages(c))
    /\ \A w \in Workers : SF_vars(HookStep(w))

FairSpec == Spec /\ Fairness

-----------------------------------------------------------------------------
\* Every variable holds values of its kind.
TypeOK ==
    /\ kind \in [Runs -> {"none", "normal", "heartbeat", "callback"}]
    /\ status \in [Runs -> {"none", "running", "cancelling", "completed", "ended"}]
    /\ older \in [Runs -> SUBSET Runs]
    /\ target \in [Runs -> Callbacks \cup {NoCallback}]
    /\ job \in [Runs -> {"none", "queued", "working"}]
    /\ shown \in [Runs -> SUBSET Callbacks]
    /\ cb \in [Callbacks -> {"none", "pending", "old", "consumed"}]
    /\ claim \in [kind : {"none", "normal", "heartbeat"}, active : Runs \cup {NoRun}]
    /\ hook \in [Workers -> Hooks]
    /\ mishaps \in 0 .. MaxMishaps
    /\ late \subseteq Runs
    /\ wakeup \in {"kept", "missed"}

\* Whatever order claims, ends and callbacks come in, and however long an ended run's
\* worker takes to notice: a callback run has its thread for itself, there is one
\* heartbeat at most, and of two other runs one sorted as older than an active run
\* when it was inserted.  Only its claim, begun before a heartbeat and served behind
\* it, hides a run from the next claim, which looks at the newest alone.
OnlyLateRunsShare ==
    \A r, q \in Runs :
        Active(r) /\ Active(q) /\ r # q
            => /\ kind[r] # "callback"
               /\ \/ kind[r] = "heartbeat" /\ kind[q] # "heartbeat"
                  \/ kind[q] = "heartbeat" /\ kind[r] # "heartbeat"
                  \/ kind[r] # "heartbeat" /\ {r, q} \cap late # {}

\* A result that waits in an idle thread is about to get a run, unless the last run
\* ended ahead of the agent loop, was reaped, superseded or never enqueued, or the
\* worker died behind it: no wake-up is lost between the list, which nothing locks,
\* a sub-agent's end and the end of the run that kept the thread busy.
PendingIsWatched ==
    ThreadIsIdle /\ Pending # {}
        => wakeup = "missed" \/ \E w \in Workers : hook[w].at \in {"list", "create", "create next"}

\* A callback leaves the pending list only with a run that completed after it had the
\* callback in its prompt (or was made for it), or with a callback run that a claim
\* supersedes, which drops every callback of the thread unseen.
ConsumedWasShown ==
    [][\A c \in Callbacks : cb[c] # "consumed" /\ cb'[c] = "consumed" =>
         \E r \in Runs :
            \/ job[r] = "working" /\ status'[r] = "completed" /\ c \in shown[r] \cup {target[r]}
            \/ claim.active = r /\ kind[r] = "callback"]_vars

\* Callback runs that fail are made again behind their own ends, but not for ever:
\* the age limit of the list stops them whatever else happens in the thread.
CallbackRunsStop == <>[](\A r \in Runs : kind[r] = "callback" => ~Active(r))
=============================================================================

---------------------------- MODULE RunLifecycle ----------------------------
(***************************************************************************)
(* One run: its row in `runs', its events in `run_events', the worker      *)
(* attempts that execute it, and the API calls and the reaper that act on  *)
(* it meanwhile.                                                           *)
(*                                                                         *)
(* Almost every writer locks the row first and reads and appends           *)
(* afterwards, in one transaction: those are single actions here, enabled  *)
(* while nobody else holds the row.  Three things take longer and are      *)
(* several actions: the attempt's reads before its writes, the eventWriter *)
(* that keeps its transaction open over a batch of streamed events, and    *)
(* the statement of ForceFailRun and supersedeSubagentCallbackRun, which   *)
(* computes the next seq on its snapshot and only then gets the row.       *)
(*                                                                         *)
(* Runs share no state at this level.  Which attempt executes the run when *)
(* is Consumer's subject: here attempts follow each other.                 *)
(***************************************************************************)
EXTENDS Integers, Sequences

CONSTANTS Keys,         \* the input_key values clients use
          MaxAttempts,  \* leases of the run's job
          MaxEmits,     \* bound: agent events, scanned inputs, scan reports
          Interactive,  \* the executor is agent.interactive
          Forcers       \* who may end the run by force: the "reaper", and a
                        \* "superseder" if the run is a subagent_callback

NoKey == ""     \* of events that are no inputs

ASSUME RunLifecycleAssumption ==
    /\ MaxAttempts \in Nat \ {0}
    /\ MaxEmits \in Nat
    /\ Interactive \in BOOLEAN
    /\ Forcers \subseteq {"reaper", "superseder"}
    /\ NoKey \notin Keys

VARIABLES
    status,     \* runs.status
    stale,      \* status_updated_at is older than the reaper's limit
    log,        \* the committed rows of run_events, in commit order
    batch,      \* the rows of eventWriter's open transaction
    pc,         \* where the run's job, or its attempt, is
    attempts,   \* leases used
    emitted,    \* what MaxEmits bounds
    scanning,   \* a scan of the run's prompt may still report and block
    forcer      \* a forced termination in flight

attemptVars == <<batch, pc, attempts, emitted, scanning>>
vars == <<status, stale, log, attemptVars, forcer>>

TerminalStatuses == [run_completed   |-> "completed",
                     run_failed      |-> "failed",
                     run_interrupted |-> "interrupted",
                     run_cancelled   |-> "cancelled"]
TerminalTypes == DOMAIN TerminalStatuses
CancelTypes == {"run_cancel_requested", "run_cancelled"}
EventTypes == TerminalTypes \cup
    {"run_started", "run_cancel_requested", "run_input_provided",
     "job_received", "agent_event", "security_event"}

Active == status \in {"running", "cancelling"}
Ended == ~Active

Rows == [seq : Nat \ {0}, type : EventTypes, note : Keys \cup {NoKey}]

Event(seq, type, note) == [seq |-> seq, type |-> type, note |-> note]

LogTypes == {log[i].type : i \in DOMAIN log}

\* Mutant: one of the four types is missing in the lists.
HasTerminalButInterrupted == LogTypes \cap (TerminalTypes \ {"run_interrupted"}) # {}

HasTerminal == LogTypes \cap TerminalTypes # {}
CancelRequested == "run_cancel_requested" \in LogTypes

\* GetLatestEventType: ORDER BY seq DESC LIMIT 1.  Rows with one seq come in
\* any order, so the answer is one of a set, which is empty if there is none.
LatestOf(types) ==
    LET rows == {i \in DOMAIN log : log[i].type \in types} IN
    {log[i].type : i \in {k \in rows : \A m \in rows : log[m].seq <= log[k].seq}}

LatestCancel == LatestOf(CancelTypes)

\* Mutant: writers do not lock the row.
RowNeverLocked == TRUE

\* The row lock is held by the transaction of an unfinished batch only; every
\* other transaction is one action.
RowFree == batch = <<>>

MaxSeq(rows) == CHOOSE s \in {rows[i].seq : i \in DOMAIN rows} :
                    \A i \in DOMAIN rows : rows[i].seq <= s

\* Mutant: SELECT COUNT(*) + 1.
CountingSeq(rows) == Len(rows) + 1

\* allocateSeq: SELECT COALESCE(MAX(seq), 0) + 1, over the rows a transaction
\* sees.
NextSeq(rows) == MaxSeq(rows) + 1

Appended(type, note) == Append(log, Event(NextSeq(log), type, note))

Init ==
    /\ status = "running"
    /\ stale = FALSE
    /\ log = <<Event(1, "run_started", NoKey)>>
    /\ batch = <<>>
    /\ pc = "queued"
    /\ attempts = 0
    /\ emitted = 0
    /\ scanning = FALSE
    /\ forcer = [at |-> "none", next |-> 0]

-----------------------------------------------------------------------------
(* The API.                                                                *)

\* Mutant: only an earlier request is looked for, not the end of the run.
RequestCancelUnlessRequested ==
    /\ RowFree
    /\ ~CancelRequested
    /\ status' = "cancelling"
    /\ stale' = FALSE
    /\ log' = Appended("run_cancel_requested", NoKey)
    /\ UNCHANGED <<attemptVars, forcer>>

\* A no-op on a run that has ended or is being cancelled already.
RequestCancel ==
    /\ RowFree
    /\ ~HasTerminal
    /\ ~CancelRequested
    /\ status' = "cancelling"
    /\ stale' = FALSE
    /\ log' = Appended("run_cancel_requested", NoKey)
    /\ UNCHANGED <<attemptVars, forcer>>

\* Mutant: the key is not looked up.
ProvideInputAgain(key) ==
    /\ RowFree
    /\ ~HasTerminal
    /\ ~CancelRequested
    /\ log' = Appended("run_input_provided", key)
    /\ UNCHANGED <<status, stale, attemptVars, forcer>>

\* Refused when the run has ended or is being cancelled; a no-op when the
\* input with this key is there.
ProvideInputWithKey(key) ==
    /\ RowFree
    /\ ~HasTerminal
    /\ ~CancelRequested
    /\ \A i \in DOMAIN log : log[i].note # key
    /\ log' = Appended("run_input_provided", key)
    /\ UNCHANGED <<status, stale, attemptVars, forcer>>

-----------------------------------------------------------------------------
(* Forced termination: one statement WITH an UPDATE of the row and a SELECT *)
(* of MAX(seq) that both read the snapshot taken when the statement starts. *)

NoForce == [at |-> "none", next |-> 0]

\* status_updated_at falls behind the limit.
FallsSilent ==
    /\ Active
    /\ ~stale
    /\ stale' = TRUE
    /\ UNCHANGED <<status, log, attemptVars, forcer>>

\* Mutant: runs that are being cancelled are not listed.
ListStaleRunningOnly ==
    /\ forcer.at = "none"
    /\ "reaper" \in Forcers
    /\ status = "running" /\ stale
    /\ forcer' = [at |-> "listed", next |-> 0]
    /\ UNCHANGED <<status, stale, log, attemptVars>>

ListStaleRunning ==
    /\ forcer.at = "none"
    /\ "reaper" \in Forcers
    /\ Active /\ stale
    /\ forcer' = [at |-> "listed", next |-> 0]
    /\ UNCHANGED <<status, stale, log, attemptVars>>

\* ForceFailRun takes its snapshot; the staleness is not looked at again.
ForceFailRunStarts ==
    /\ forcer.at = "listed"
    /\ forcer' = [at |-> "reaping", next |-> NextSeq(log)]
    /\ UNCHANGED <<status, stale, log, attemptVars>>

\* A user's run takes the thread from a callback run.
SupersedeStarts ==
    /\ "superseder" \in Forcers
    /\ forcer.at = "none"
    /\ Active
    /\ forcer' = [at |-> "superseding", next |-> NextSeq(log)]
    /\ UNCHANGED <<status, stale, log, attemptVars>>

\* The UPDATE has the row and looks at its latest status; the seq it inserts
\* is the one of the snapshot.
ForceEnds ==
    /\ RowFree
    /\ forcer.at \in {"reaping", "superseding"}
    /\ IF Active
         THEN /\ IF forcer.at = "reaping"
                   THEN /\ status' = "failed"
                        /\ log' = Append(log, Event(forcer.next, "run_failed", NoKey))
                   ELSE /\ status' = "cancelled"
                        /\ log' = Append(log, Event(forcer.next, "run_cancelled", NoKey))
              /\ stale' = FALSE
         ELSE UNCHANGED <<status, log, stale>>
    /\ forcer' = NoForce
    /\ UNCHANGED <<attemptVars>>

-----------------------------------------------------------------------------
(* An attempt: NativeRunEngineV1Handler.Handle, the cancel guard, the rest *)
(* of the pipeline, and the agent loop with its eventWriter.               *)

LeaseJob ==
    /\ pc = "queued"
    /\ attempts < MaxAttempts
    /\ pc' = "handle"
    /\ attempts' = attempts + 1
    /\ UNCHANGED <<status, stale, log, batch, emitted, scanning, forcer>>

\* Steps of the attempt that only read and move on.
Goes(from, to) ==
    /\ pc = from
    /\ pc' = to
    /\ UNCHANGED <<status, stale, log, batch, attempts, emitted, scanning, forcer>>

\* Handle looks for a terminal event, without the row lock.
Handle == Goes("handle", IF HasTerminal THEN "finished" ELSE "receive")

\* ... and commits worker.job.received.
JobReceived ==
    /\ pc = "receive"
    /\ RowFree
    /\ log' = Appended("job_received", NoKey)
    /\ pc' = "guard"
    /\ UNCHANGED <<status, stale, batch, attempts, emitted, scanning, forcer>>

\* The cancel guard's first read, in a transaction of its own.
GuardCancel ==
    \/ "run_cancelled" \in LatestCancel /\ Goes("guard", "finished")
    \/ "run_cancel_requested" \in LatestCancel /\ Goes("guard", "abort")
    \/ LatestCancel = {} /\ Goes("guard", "guardTerminal")

\* ... and its second.  Behind the guard, the injection scan starts.
GuardTerminal ==
    \/ HasTerminal /\ Goes("guardTerminal", "finished")
    \/ /\ pc = "guardTerminal"
       /\ ~HasTerminal
       /\ pc' = "pipeline"
       /\ scanning' = TRUE
       /\ UNCHANGED <<status, stale, log, batch, attempts, emitted, forcer>>

\* Mutant: the event is written, the row is not.
AppendAndCommitEventOnly(type) ==
    /\ RowFree
    /\ log' = Appended(type, NoKey)
    /\ pc' = "finished"
    /\ UNCHANGED <<status, stale, batch, attempts, emitted, scanning, forcer>>

\* appendAndCommitSingle with a terminal event: nothing is read again.
AppendAndCommitSingle(type) ==
    /\ RowFree
    /\ log' = Appended(type, NoKey)
    /\ status' = TerminalStatuses[type]
    /\ stale' = FALSE
    /\ pc' = "finished"
    /\ UNCHANGED <<batch, attempts, emitted, scanning, forcer>>

GuardAborts == pc = "abort" /\ AppendAndCommitSingle("run_cancelled")

\* A middleware ends the run: no input, no entitlement, no persona, no route,
\* or blockRun after an injection.
PipelineEndsRun ==
    /\ pc = "pipeline"
    /\ \E type \in {"run_failed", "run_interrupted"} : AppendAndCommitSingle(type)

PipelinePasses == Goes("pipeline", "agent")

\* eventWriter's transaction after one more AppendRunEvent.
WithEvent(type) == Append(batch, Event(NextSeq(log \o batch), type, NoKey))

\* Append for an event of the loop, streamed (the transaction stays open, the
\* row stays locked) or not (it is committed, with TouchRunActivity).
EmitEvent ==
    /\ pc = "agent"
    /\ emitted < MaxEmits
    /\ emitted' = emitted + 1
    /\ \/ /\ batch' = WithEvent("agent_event")
          /\ UNCHANGED <<log, stale>>
       \/ /\ log' = log \o WithEvent("agent_event")
          /\ batch' = <<>>
          /\ stale' = FALSE
    /\ UNCHANGED <<status, pc, attempts, scanning, forcer>>

\* Append of a terminal event, up to the commit of Flush: the row stays locked.
EmitTerminal(type) ==
    /\ pc = "agent"
    /\ log' = log \o WithEvent(type)
    /\ batch' = <<>>
    /\ status' = TerminalStatuses[type]
    /\ stale' = FALSE
    /\ pc' = "finished"
    /\ UNCHANGED <<attempts, emitted, scanning, forcer>>

\* Mutant: Append does not look for a cancellation.
AgentStepUnchecked ==
    \/ EmitEvent
    \/ \E type \in {"run_completed", "run_failed", "run_interrupted"} : EmitTerminal(type)

\* Append reads the latest cancel event under the row lock: none, and the event
\* is written; a request, and run.cancelled is written in its place; and a
\* cancelled run is left alone.
AgentStep ==
    \/ /\ LatestCancel = {}
       /\ \/ EmitEvent
          \/ \E type \in {"run_completed", "run_failed", "run_interrupted"} :
               EmitTerminal(type)
    \/ /\ "run_cancel_requested" \in LatestCancel
       /\ EmitTerminal("run_cancelled")
    \/ /\ "run_cancelled" \in LatestCancel
       /\ Goes("agent", "finished")

-----------------------------------------------------------------------------
(* The injection scan.  It appends in transactions of its own, of the       *)
(* middleware, of a goroutine that may outlive the attempt, or in the midst *)
(* of the agent loop, and it ignores a report that cannot be written.       *)

\* emitRunEvent: no look at the state of the run.
ScanReports ==
    /\ scanning
    /\ RowFree
    /\ emitted < MaxEmits
    /\ emitted' = emitted + 1
    /\ log' = Appended("security_event", NoKey)
    /\ UNCHANGED <<status, stale, batch, pc, attempts, scanning, forcer>>

\* cancelRunForSpeculativeInjectionBlock: the row is ended, the terminal event
\* is left to the attempt that is being cancelled.
BlockRow ==
    /\ RowFree
    /\ IF HasTerminal
         THEN UNCHANGED <<status, stale, log>>
         ELSE /\ log' = IF CancelRequested
                          THEN log ELSE Appended("run_cancel_requested", NoKey)
              /\ status' = "cancelled"
              /\ stale' = FALSE

\* ... by the goroutine.
InjectionBlocks ==
    /\ scanning
    /\ BlockRow
    /\ scanning' = FALSE
    /\ UNCHANGED <<batch, pc, attempts, emitted, forcer>>

\* The loop has polled an input and scans it before it goes on.  Only
\* agent.interactive streams a segment event just before, so only there the
\* transaction may be open.
ScanInput ==
    /\ pc = "agent"
    /\ "run_input_provided" \in LogTypes
    /\ batch = <<>> \/ Interactive
    /\ emitted < MaxEmits
    /\ emitted' = emitted + 1
    /\ pc' = "scan"
    /\ UNCHANGED <<status, stale, log, batch, attempts, scanning, forcer>>

\* The input is clean, or is to be blocked; either is reported.
InputScanned ==
    /\ pc = "scan"
    /\ RowFree
    /\ log' = Appended("security_event", NoKey)
    /\ pc' \in {"agent", "block"}
    /\ UNCHANGED <<status, stale, batch, attempts, emitted, scanning, forcer>>

\* The loop's own transaction has the row: the report waits for it until the
\* run's deadline and is given up, and the scan goes on.
ScanReportTimesOut == ~RowFree /\ Goes("scan", "block")

\* The loop returns nil and emits nothing more.  The statement has no deadline.
InputBlocked ==
    /\ pc = "block"
    /\ BlockRow
    /\ pc' = "finished"
    /\ UNCHANGED <<batch, attempts, emitted, scanning, forcer>>

-----------------------------------------------------------------------------

\* The handler returned nil and the job is acked.
JobAcked == Goes("finished", "done")

\* Mutant: the open transaction is not rolled back.
FailsInTx ==
    /\ pc' = IF attempts < MaxAttempts THEN "queued" ELSE "dead"
    /\ UNCHANGED <<status, stale, log, batch, attempts, emitted, scanning, forcer>>

\* The open transaction is rolled back and the job is retried while it has
\* leases left.
Fails ==
    /\ batch' = <<>>
    /\ pc' = IF attempts < MaxAttempts THEN "queued" ELSE "dead"
    /\ UNCHANGED <<status, stale, log, attempts, emitted, scanning, forcer>>

StuckInBlock == pc = "block" /\ ~RowFree

\* Any error, a cancelled context, a deadline, or a crash.
AttemptFails ==
    /\ pc \notin {"queued", "done", "dead"}
    /\ ~StuckInBlock
    /\ Fails

\* Nothing but a crash ends a statement that waits without a deadline.
WorkerCrashes == StuckInBlock /\ Fails

-----------------------------------------------------------------------------

AttemptStep ==
    \/ Handle \/ JobReceived \/ GuardCancel \/ GuardTerminal \/ GuardAborts
    \/ PipelineEndsRun \/ PipelinePasses \/ AgentStep
    \/ ScanInput \/ InputScanned \/ ScanReportTimesOut \/ InputBlocked
    \/ JobAcked \/ AttemptFails

ReaperStep == ListStaleRunning \/ ForceFailRunStarts \/ ForceEnds

Next ==
    \/ RequestCancel
    \/ \E key \in Keys : ProvideInputWithKey(key)
    \/ FallsSilent
    \/ SupersedeStarts
    \/ ReaperStep
    \/ LeaseJob
    \/ AttemptStep
    \/ WorkerCrashes
    \/ ScanReports
    \/ InjectionBlocks

Spec == Init /\ [][Next]_vars

\* Attempts go on (the consumer settles every job), time passes, the reaper
\* polls.  No fairness for clients, supersedes, crashes or blocks.
Fairness ==
    /\ WF_vars(LeaseJob)
    /\ WF_vars(AttemptStep)
    /\ WF_vars(FallsSilent)
    /\ WF_vars(ReaperStep)

FairSpec == Spec /\ Fairness
-----------------------------------------------------------------------------
(* Properties.                                                             *)

PCs == {"queued", "handle", "receive", "guard", "guardTerminal", "abort",
        "pipeline", "agent", "scan", "block", "finished", "done", "dead"}

\* The state has the shape the declarations give it, and a transaction is open
\* only while the agent loop has the attempt.
TypeOK ==
    /\ status \in {"running", "cancelling", "completed", "failed", "cancelled",
                   "interrupted"}
    /\ stale \in BOOLEAN
    /\ log \in Seq(Rows)
    /\ batch \in Seq(Rows)
    /\ batch # <<>> => pc \in {"agent", "scan", "block"}
    /\ pc \in PCs
    /\ attempts \in 0 .. MaxAttempts
    /\ emitted \in 0 .. MaxEmits
    /\ scanning \in BOOLEAN
    /\ forcer \in [at : {"none", "listed", "reaping", "superseding"}, next : Nat]

\* The rows of a run are numbered without a gap, whatever is rolled back,
\* retried or forced: a client may count on every number up to the newest.
Gapless == {log[i].seq : i \in DOMAIN log} = 1 .. MaxSeq(log)

\* No two rows have one seq, which makes seq a cursor.
SeqUnique == \A i, k \in DOMAIN log : log[i].seq = log[k].seq => i = k

\* However attempts are retried and API calls interleave, the run ends once.
SingleTerminal ==
    \A i, k \in DOMAIN log :
        {log[i].type, log[k].type} \subseteq TerminalTypes => i = k

\* Once cancellation is requested the agent adds nothing to the log, and the
\* run does not complete: Append reads under the row lock that RequestCancel
\* takes too.
WorkStopsAtCancel ==
    \A i, k \in DOMAIN log :
        log[i].type = "run_cancel_requested" /\ i < k
        => log[k].type \notin {"agent_event", "run_completed"}

\* An input is accepted once per key, and never by a run that has ended or is
\* being cancelled.
InputsAcceptedOnce ==
    \A i, k \in DOMAIN log :
        log[k].type = "run_input_provided" /\ i < k
        => /\ log[i].note # log[k].note
           /\ log[i].type \notin TerminalTypes \cup CancelTypes

LastTerminal ==
    CHOOSE i \in DOMAIN log :
        /\ log[i].type \in TerminalTypes
        /\ \A k \in DOMAIN log : log[k].type \in TerminalTypes => k <= i

\* The row and the log tell one story: the status is that of the last terminal
\* event; without one the run is active, or cancelled on a recorded request.
StatusMatchesLog ==
    /\ HasTerminal => status = TerminalStatuses[log[LastTerminal].type]
    /\ ~HasTerminal => Active \/ (status = "cancelled" /\ CancelRequested)
    /\ status = "cancelling" => CancelRequested

\* A run that has ended never becomes active again, so the thread it frees is
\* not taken back.
EndedStaysEnded == [][Ended => Ended']_vars

\* Every run ends, even if its job is dead: the reaper sees to it.
EveryRunEnds == <>[]Ended

\* With scans inside the loop's own transaction too, a run that never ends has
\* its attempt in a statement that waits for that transaction: nothing else,
\* no lost job, no crash, no cancel and no scan, keeps a run from its end.
EndsOrStuck == <>[](Ended \/ StuckInBlock)
=============================================================================

------------------------- MODULE RunLifecycleProofs -------------------------
(***************************************************************************)
(* Proofs about RunLifecycle, for any keys, attempts and events, whether   *)
(* the run can be forced or not: its types, its numbers, what a reader of  *)
(* the log may count on, and how the row and the log agree.                *)
(*                                                                         *)
(* Most of it rests on StepKinds: whatever its actor, a step writes        *)
(* nothing, adds an event to eventWriter's open transaction, or commits    *)
(* that transaction with one row (its own, if the transaction is empty),   *)
(* and a row that is committed is Permitted by what its writer looked at.  *)
(* An invariant is then kept by three kinds of steps and not by thirty     *)
(* actions.                                                                *)
(***************************************************************************)
EXTENDS RunLifecycle, SequenceTheorems, WellFoundedInduction, TLAPS

USE DEF attemptVars, vars

-----------------------------------------------------------------------------
(* Numbers and rows.                                                       *)

\* A set of natural numbers with a bound has a greatest element.
LEMMA BoundedHasGreatest ==
    ASSUME NEW m \in Nat, NEW S \in SUBSET (0 .. m), S # {}
    PROVE  \E x \in S : \A y \in S : y <= x
<1> DEFINE T == {m - x : x \in S}
           less == OpToRel(<, Nat)
<1>1. T \subseteq Nat /\ T # {}
  <2>1. \A x \in S : x \in 0 .. m /\ m - x \in Nat
    OBVIOUS
  <2> QED BY <2>1
<1>2. IsWellFoundedOn(less, Nat)
  BY NatLessThanWellFounded
<1>3. \A x, y \in Nat : <<x, y>> \in less <=> x < y
  BY DEF OpToRel
<1> HIDE DEF less
<1>4. PICK t \in T : \A u \in T : <<u, t>> \notin less
  BY <1>1, <1>2, WFMin
<1>5. PICK x \in S : t = m - x
  OBVIOUS
<1>6. \A y \in S : y <= x
  <2> SUFFICES ASSUME NEW y \in S PROVE y <= x
    OBVIOUS
  <2>1. m - y \in T /\ ~(m - y < t)
    BY <1>1, <1>3, <1>4
  <2> QED BY <1>5, <2>1
<1> QED BY <1>6

Seqs(rows) == {rows[i].seq : i \in DOMAIN rows}

\* The numbers of the rows are 1 up to some number.
Numbered(rows) == \E m \in Nat \ {0} : Seqs(rows) = 1 .. m

\* MAX(seq) of rows that are numbered is the last number.
LEMMA MaxSeqIs ==
    ASSUME NEW rows, NEW m \in Nat \ {0}, Seqs(rows) = 1 .. m
    PROVE  MaxSeq(rows) = m
<1>1. m \in Seqs(rows) /\ \A i \in DOMAIN rows : rows[i].seq \in 1 .. m
  BY DEF Seqs
<1>2. \A i \in DOMAIN rows : rows[i].seq <= m
  BY <1>1
<1>3. \A s \in Seqs(rows) : (\A i \in DOMAIN rows : rows[i].seq <= s) => s = m
  BY <1>1 DEF Seqs
<1> QED BY <1>1, <1>2, <1>3 DEF MaxSeq, Seqs

LEMMA NumberedMax ==
    ASSUME NEW rows, Numbered(rows)
    PROVE  /\ MaxSeq(rows) \in Nat \ {0}
           /\ Seqs(rows) = 1 .. MaxSeq(rows)
           /\ NextSeq(rows) = MaxSeq(rows) + 1
BY MaxSeqIs DEF Numbered, NextSeq

LEMMA SeqBounds ==
    ASSUME NEW rows, Numbered(rows), NEW i \in DOMAIN rows
    PROVE  rows[i].seq \in 1 .. MaxSeq(rows)
<1>1. Seqs(rows) = 1 .. MaxSeq(rows)
  BY NumberedMax
<1>2. rows[i].seq \in Seqs(rows)
  BY DEF Seqs
<1> QED BY <1>1, <1>2

LEMMA AppendRow ==
    ASSUME NEW rows \in Seq(Rows), NEW e \in Rows
    PROVE  /\ Append(rows, e) \in Seq(Rows)
           /\ DOMAIN rows = 1 .. Len(rows)
           /\ Len(rows) \in Nat
           /\ DOMAIN Append(rows, e) = 1 .. Len(rows) + 1
           /\ \A i \in 1 .. Len(rows) : Append(rows, e)[i] = rows[i]
           /\ Append(rows, e)[Len(rows) + 1] = e
BY AppendProperties, LenProperties

LEMMA AppendSeqs ==
    ASSUME NEW rows \in Seq(Rows), NEW e \in Rows
    PROVE  Seqs(Append(rows, e)) = Seqs(rows) \cup {e.seq}
<1>1. \A i \in DOMAIN rows : i \in DOMAIN Append(rows, e) /\ Append(rows, e)[i] = rows[i]
  BY AppendRow
<1>2. /\ Len(rows) + 1 \in DOMAIN Append(rows, e)
      /\ Append(rows, e)[Len(rows) + 1] = e
  BY AppendRow
<1>3. \A i \in DOMAIN Append(rows, e) : i \in DOMAIN rows \/ i = Len(rows) + 1
  BY AppendRow
<1> QED BY <1>1, <1>2, <1>3 DEF Seqs

\* A row with the next number, or with one that is taken, leaves no gap.
LEMMA AppendNumbered ==
    ASSUME NEW rows \in Seq(Rows), Numbered(rows),
           NEW e \in Rows, e.seq <= MaxSeq(rows) + 1
    PROVE  /\ Numbered(Append(rows, e))
           /\ MaxSeq(rows) <= MaxSeq(Append(rows, e))
<1> DEFINE m == MaxSeq(rows)
           n == IF e.seq = m + 1 THEN m + 1 ELSE m
<1>1. m \in Nat \ {0} /\ Seqs(rows) = 1 .. m
  BY NumberedMax
<1>2. e.seq \in Nat \ {0}
  BY DEF Rows
<1>3. n \in Nat \ {0} /\ m <= n
  BY <1>1
<1>4. (1 .. m) \cup {e.seq} = 1 .. n
  BY <1>1, <1>2
<1>5. Seqs(Append(rows, e)) = 1 .. n
  BY <1>1, <1>4, AppendSeqs
<1>6. MaxSeq(Append(rows, e)) = n
  BY <1>3, <1>5, MaxSeqIs
<1> QED BY <1>3, <1>5, <1>6 DEF Numbered

\* GetLatestEventType finds a row if there is one.
LEMMA LatestFound ==
    ASSUME log \in Seq(Rows), Numbered(log), NEW types
    PROVE  /\ LatestOf(types) \subseteq types \cap LogTypes
           /\ LatestOf(types) = {} <=> types \cap LogTypes = {}
<1> DEFINE rows == {i \in DOMAIN log : log[i].type \in types}
           last == {k \in rows : \A m \in rows : log[m].seq <= log[k].seq}
<1>1. LatestOf(types) = {log[i].type : i \in last}
  BY DEF LatestOf
<1>2. LatestOf(types) \subseteq types \cap LogTypes
  BY <1>1 DEF LogTypes
<1>3. ASSUME types \cap LogTypes # {} PROVE last # {}
  <2> DEFINE S == {log[i].seq : i \in rows}
  <2>1. rows # {}
    BY <1>3 DEF LogTypes
  <2>2. /\ MaxSeq(log) \in Nat
        /\ \A i \in DOMAIN log : log[i].seq \in 0 .. MaxSeq(log)
    <3>1. \A i \in DOMAIN log : log[i].seq \in 1 .. MaxSeq(log)
      BY SeqBounds
    <3>2. MaxSeq(log) \in Nat
      BY NumberedMax
    <3> QED BY <3>1, <3>2
  <2>3. S \in SUBSET (0 .. MaxSeq(log)) /\ S # {}
    BY <2>1, <2>2
  <2> HIDE DEF S
  <2>4. PICK x \in S : \A y \in S : y <= x
    BY <2>2, <2>3, BoundedHasGreatest
  <2> USE DEF S
  <2>5. PICK k \in rows : x = log[k].seq
    OBVIOUS
  <2>6. k \in last
    BY <2>4, <2>5
  <2> QED BY <2>6
<1>4. last # {} => LatestOf(types) # {}
  BY <1>1
<1> QED BY <1>2, <1>3, <1>4

-----------------------------------------------------------------------------
(* The rows that a step writes.                                            *)

Full == log \o batch

Forcing == forcer.at \in {"reaping", "superseding"}

\* What the open transaction holds.
BatchOfEvents ==
    \A i \in DOMAIN batch : batch[i].type = "agent_event" /\ batch[i].note = NoKey

\* The log has no gap, with or without the open transaction, and the number a
\* forced termination took from its snapshot leaves none.
NumbersInv ==
    /\ Numbered(log)
    /\ Numbered(Full)
    /\ Forcing => forcer.next \in 1 .. MaxSeq(log) + 1

\* ... and that it is opened only while nobody has cancelled: the row is locked.
BatchClean == batch # <<>> => LogTypes \cap CancelTypes = {}

ShapeInv == TypeOK /\ NumbersInv /\ BatchOfEvents /\ BatchClean

\* The attempt looked for a terminal event, found none and wrote none.
AtWork == pc \in {"receive", "guard", "guardTerminal", "abort", "pipeline", "agent",
                  "scan", "block"}

\* Nothing is written; a block may end the row of a run being cancelled.
WritesNothing ==
    /\ log' = log
    /\ batch' \in {batch, <<>>}
    /\ \/ status' = status
       \/ ~HasTerminal /\ CancelRequested /\ status' = "cancelled"

\* One more event in the open transaction.
Streams ==
    /\ log' = log
    /\ batch' = Append(batch, Event(NextSeq(Full), "agent_event", NoKey))
    /\ LatestCancel = {}
    /\ status' = status

\* A row is committed, with those of the open transaction before it.
Commits(e) == log' = Append(Full, e) /\ batch' = <<>>

\* What a forced termination writes.
ForcedTypes == {"run_failed", "run_cancelled"}

NumberFollows(e) ==
    \/ e.seq = NextSeq(Full)
    \/ Forcing /\ RowFree /\ e.type \in ForcedTypes /\ e.seq = forcer.next

StatusFollows(e) ==
    IF e.type \in TerminalTypes
      THEN status' = TerminalStatuses[e.type]
      ELSE \/ status' = status
           \/ /\ ~HasTerminal
              /\ e.type = "run_cancel_requested"
              /\ status' = "cancelled" \/ (status' = "cancelling" /\ ~CancelRequested)

\* What the writers of the code look at before they write a row.
Permitted(e) ==
    /\ NumberFollows(e)
    /\ StatusFollows(e)
    /\ e.type \in {"agent_event", "run_completed"} => LatestCancel = {}
    /\ e.type = "run_input_provided" =>
         /\ RowFree
         /\ ~HasTerminal
         /\ ~CancelRequested
         /\ \A i \in DOMAIN log : log[i].note # e.note
    /\ e.type \in TerminalTypes => Forcing \/ (AtWork /\ pc' = "finished")

LEMMA FullIsSeq ==
    ASSUME TypeOK
    PROVE  /\ Full \in Seq(Rows)
           /\ RowFree => Full = log
BY ConcatProperties, ConcatEmptySeq DEF TypeOK, Full, RowFree

LEMMA ConcatAppend ==
    ASSUME TypeOK, NEW e \in Rows
    PROVE  log \o Append(batch, e) = Append(Full, e)
<1>1. log \in Seq(Rows) /\ batch \in Seq(Rows) /\ <<e>> \in Seq(Rows)
  BY DEF TypeOK
<1>2. Append(batch, e) = batch \o <<e>>
  BY <1>1, AppendIsConcat
<1>3. log \o (batch \o <<e>>) = (log \o batch) \o <<e>>
  BY <1>1, ConcatAssociative
<1>4. Append(Full, e) = Full \o <<e>>
  BY FullIsSeq, AppendIsConcat
<1> QED BY <1>2, <1>3, <1>4 DEF Full

LEMMA EventIsRow ==
    ASSUME NEW seq \in Nat \ {0}, NEW type \in EventTypes, NEW note \in Keys \cup {NoKey}
    PROVE  /\ Event(seq, type, note) \in Rows
           /\ Event(seq, type, note).seq = seq
           /\ Event(seq, type, note).type = type
           /\ Event(seq, type, note).note = note
BY DEF Event, Rows

\* The next row, in a transaction of its own.
LEMMA NextRow ==
    ASSUME ShapeInv, NEW type \in EventTypes, NEW note \in Keys \cup {NoKey}
    PROVE  LET e == Event(NextSeq(Full), type, note)
           IN  /\ e \in Rows
               /\ e.seq = NextSeq(Full) /\ e.type = type /\ e.note = note
               /\ NumberFollows(e)
               /\ RowFree => Appended(type, note) = Append(Full, e)
<1> DEFINE e == Event(NextSeq(Full), type, note)
<1>1. NextSeq(Full) \in Nat \ {0}
  BY NumberedMax DEF ShapeInv, NumbersInv
<1>2. RowFree => Appended(type, note) = Append(Full, e)
  BY FullIsSeq DEF Appended, ShapeInv
<1> QED BY <1>1, <1>2, EventIsRow DEF NumberFollows

-----------------------------------------------------------------------------
(* Every step writes nothing, streams one event, or commits one row that    *)
(* follows the rules of its writer.                                         *)

CommitsPermitted == \E e \in Rows : Commits(e) /\ Permitted(e)

StepKind == WritesNothing \/ Streams \/ CommitsPermitted

\* The rows of the attempt's writers and of the scan's reports.
LEMMA AppendedCommits ==
    ASSUME ShapeInv, RowFree, UNCHANGED batch,
           NEW type \in EventTypes, log' = Appended(type, NoKey),
           type \notin {"agent_event", "run_completed", "run_input_provided"},
           StatusFollows(Event(NextSeq(Full), type, NoKey)),
           type \in TerminalTypes => AtWork /\ pc' = "finished"
    PROVE  CommitsPermitted
<1> DEFINE e == Event(NextSeq(Full), type, NoKey)
<1>1. /\ e \in Rows
      /\ e.type = type
      /\ NumberFollows(e)
      /\ log' = Append(Full, e)
  BY NextRow
<1>2. Commits(e)
  BY <1>1 DEF Commits, RowFree
<1>3. Permitted(e)
  BY <1>1 DEF Permitted
<1> QED BY <1>1, <1>2, <1>3 DEF CommitsPermitted

LEMMA BlockRowKind ==
    ASSUME ShapeInv, BlockRow, UNCHANGED batch
    PROVE  WritesNothing \/ CommitsPermitted
<1> DEFINE e == Event(NextSeq(Full), "run_cancel_requested", NoKey)
<1>1. CASE HasTerminal
  BY <1>1 DEF BlockRow, WritesNothing
<1>2. CASE ~HasTerminal /\ CancelRequested
  BY <1>2 DEF BlockRow, WritesNothing
<1>3. CASE ~HasTerminal /\ ~CancelRequested
  <2>1. e.type = "run_cancel_requested"
    BY NextRow DEF EventTypes
  <2>2. StatusFollows(e)
    BY <1>3, <2>1 DEF BlockRow, StatusFollows, TerminalTypes, TerminalStatuses
  <2> QED
    BY <1>3, <2>2, AppendedCommits
       DEF BlockRow, EventTypes, TerminalTypes, TerminalStatuses
<1> QED BY <1>1, <1>2, <1>3

LEMMA EndsRunKind ==
    ASSUME ShapeInv, NEW type \in TerminalTypes, type # "run_completed",
           AtWork, AppendAndCommitSingle(type)
    PROVE  CommitsPermitted
<1> DEFINE e == Event(NextSeq(Full), type, NoKey)
<1>1. type \in EventTypes /\ type \notin {"agent_event", "run_input_provided"}
  BY DEF EventTypes, TerminalTypes, TerminalStatuses
<1>2. e.type = type
  BY <1>1, NextRow
<1>3. StatusFollows(e)
  BY <1>2 DEF StatusFollows, AppendAndCommitSingle
<1> QED BY <1>1, <1>3, AppendedCommits DEF AppendAndCommitSingle

\* eventWriter commits its batch with the row.
LEMMA EmitTerminalKind ==
    ASSUME ShapeInv, NEW type \in TerminalTypes, EmitTerminal(type),
           type = "run_completed" => LatestCancel = {}
    PROVE  CommitsPermitted
<1> DEFINE e == Event(NextSeq(Full), type, NoKey)
<1>1. type \in EventTypes /\ type \notin {"agent_event", "run_input_provided"}
  BY DEF EventTypes, TerminalTypes, TerminalStatuses
<1>2. e \in Rows /\ e.type = type /\ NumberFollows(e)
  BY <1>1, NextRow
<1>3. log' = Append(Full, e)
  BY <1>2, ConcatAppend DEF EmitTerminal, WithEvent, Full, ShapeInv
<1>4. StatusFollows(e)
  BY <1>2 DEF StatusFollows, EmitTerminal
<1>5. Permitted(e)
  BY <1>1, <1>2, <1>4 DEF Permitted, EmitTerminal, AtWork
<1> QED BY <1>2, <1>3, <1>5 DEF CommitsPermitted, Commits, EmitTerminal

LEMMA EmitEventKind ==
    ASSUME ShapeInv, EmitEvent, LatestCancel = {}
    PROVE  Streams \/ CommitsPermitted
<1> DEFINE e == Event(NextSeq(Full), "agent_event", NoKey)
<1>1. "agent_event" \in EventTypes /\ "agent_event" \notin TerminalTypes
  BY DEF EventTypes, TerminalTypes, TerminalStatuses
<1>2. e \in Rows /\ e.type = "agent_event" /\ NumberFollows(e)
  BY <1>1, NextRow
<1>3. WithEvent("agent_event") = Append(batch, e)
  BY DEF WithEvent, Full
<1>4. CASE batch' = WithEvent("agent_event") /\ UNCHANGED log
  BY <1>3, <1>4 DEF Streams, EmitEvent
<1>5. CASE log' = log \o WithEvent("agent_event") /\ batch' = <<>>
  <2>1. Commits(e)
    BY <1>2, <1>3, <1>5, ConcatAppend DEF Commits, ShapeInv
  <2>2. Permitted(e)
    BY <1>1, <1>2 DEF Permitted, StatusFollows, EmitEvent
  <2> QED BY <1>2, <2>1, <2>2 DEF CommitsPermitted
<1> QED BY <1>4, <1>5 DEF EmitEvent

LEMMA StepKinds == ShapeInv /\ [Next]_vars => StepKind
<1> SUFFICES ASSUME ShapeInv, [Next]_vars PROVE StepKind
  OBVIOUS
<1> USE DEF StepKind
<1>t. /\ EventTypes = {"run_completed", "run_failed", "run_interrupted", "run_cancelled",
                       "run_started", "run_cancel_requested", "run_input_provided",
                       "job_received", "agent_event", "security_event"}
      /\ TerminalTypes = {"run_completed", "run_failed", "run_interrupted",
                          "run_cancelled"}
  BY DEF EventTypes, TerminalTypes, TerminalStatuses
<1>1. CASE UNCHANGED <<status, log, batch>>
  BY <1>1 DEF WritesNothing
<1>2. CASE RequestCancel
  <2> DEFINE e == Event(NextSeq(Full), "run_cancel_requested", NoKey)
  <2>1. e.type = "run_cancel_requested"
    BY <1>t, NextRow
  <2>2. StatusFollows(e)
    BY <1>2, <1>t, <2>1 DEF RequestCancel, StatusFollows
  <2> QED BY <1>2, <1>t, <2>2, AppendedCommits DEF RequestCancel
<1>3. ASSUME NEW key \in Keys, ProvideInputWithKey(key) PROVE StepKind
  <2> DEFINE e == Event(NextSeq(Full), "run_input_provided", key)
  <2>1. /\ e \in Rows
        /\ e.type = "run_input_provided"
        /\ e.note = key
        /\ NumberFollows(e)
        /\ log' = Append(Full, e)
    BY <1>3, <1>t, NextRow DEF ProvideInputWithKey
  <2>2. Permitted(e)
    BY <1>3, <1>t, <2>1 DEF Permitted, StatusFollows, ProvideInputWithKey
  <2> QED
    BY <1>3, <2>1, <2>2 DEF CommitsPermitted, Commits, ProvideInputWithKey, RowFree
<1>4. CASE ForceEnds
  <2>1. Full = log
    BY <1>4, FullIsSeq DEF ForceEnds, ShapeInv
  <2>2. forcer.next \in Nat \ {0}
    BY <1>4, NumberedMax DEF ForceEnds, ShapeInv, NumbersInv, Forcing
  <2>3. ASSUME NEW type \in {"run_failed", "run_cancelled"},
               log' = Append(log, Event(forcer.next, type, NoKey)),
               status' = TerminalStatuses[type]
        PROVE  CommitsPermitted
    <3> DEFINE e == Event(forcer.next, type, NoKey)
    <3>1. e \in Rows /\ e.seq = forcer.next /\ e.type = type
      BY <1>t, <2>2, EventIsRow
    <3>2. Permitted(e)
      BY <1>4, <1>t, <2>3, <3>1
         DEF Permitted, NumberFollows, ForcedTypes, StatusFollows, Forcing, ForceEnds
    <3> QED
      BY <1>4, <2>1, <2>3, <3>1, <3>2 DEF CommitsPermitted, Commits, ForceEnds, RowFree
  <2>4. TerminalStatuses["run_failed"] = "failed" /\ TerminalStatuses["run_cancelled"] = "cancelled"
    BY DEF TerminalStatuses
  <2>5. UNCHANGED <<status, log>> \/ CommitsPermitted
    BY <1>4, <2>3, <2>4 DEF ForceEnds
  <2> QED BY <1>4, <2>5 DEF ForceEnds, WritesNothing
<1>5. CASE JobReceived
  <2>1. StatusFollows(Event(NextSeq(Full), "job_received", NoKey))
    BY <1>5, <1>t, NextRow DEF JobReceived, StatusFollows
  <2> QED BY <1>5, <1>t, <2>1, AppendedCommits DEF JobReceived
<1>6. CASE GuardAborts
  BY <1>6, <1>t, EndsRunKind DEF GuardAborts, AtWork
<1>7. CASE PipelineEndsRun
  BY <1>7, <1>t, EndsRunKind DEF PipelineEndsRun, AtWork
<1>8. CASE AgentStep
  BY <1>8, <1>t, <1>1, EmitEventKind, EmitTerminalKind DEF AgentStep, Goes
<1>9. CASE ScanReports \/ InputScanned
  <2>1. StatusFollows(Event(NextSeq(Full), "security_event", NoKey))
    BY <1>9, <1>t, NextRow DEF ScanReports, InputScanned, StatusFollows
  <2> QED BY <1>9, <1>t, <2>1, AppendedCommits DEF ScanReports, InputScanned
<1>10. CASE InjectionBlocks \/ InputBlocked
  BY <1>10, BlockRowKind DEF InjectionBlocks, InputBlocked
<1>11. CASE AttemptFails \/ WorkerCrashes
  BY <1>11 DEF AttemptFails, WorkerCrashes, Fails, WritesNothing
<1> QED
  BY <1>1, <1>2, <1>3, <1>4, <1>5, <1>6, <1>7, <1>8, <1>9, <1>10, <1>11
     DEF Next, ReaperStep, AttemptStep, FallsSilent, SupersedeStarts,
         ListStaleRunning, ForceFailRunStarts, LeaseJob, Handle, GuardCancel,
         GuardTerminal, PipelinePasses, ScanInput, ScanReportTimesOut, JobAcked, Goes

-----------------------------------------------------------------------------
(* The shape of the state is kept: types, numbers, and what a transaction   *)
(* may hold.                                                                *)

LEMMA InitialRow ==
    ASSUME Init
    PROVE  /\ log \in Seq(Rows) /\ log = <<Event(1, "run_started", NoKey)>>
           /\ DOMAIN log = {1} /\ log[1].type = "run_started" /\ log[1].seq = 1
           /\ Seqs(log) = 1 .. 1
           /\ Full = log
<1>1. "run_started" \in EventTypes
  BY DEF EventTypes
<1>2. Event(1, "run_started", NoKey) \in Rows
  BY <1>1, EventIsRow
<1>3. log \in Seq(Rows) /\ DOMAIN log = {1} /\ log[1] = Event(1, "run_started", NoKey)
  BY <1>2 DEF Init
<1>4. log[1].type = "run_started" /\ log[1].seq = 1
  BY <1>1, <1>3, EventIsRow
<1>5. Seqs(log) = 1 .. 1
  BY <1>3, <1>4 DEF Seqs
<1>6. Full = log
  BY <1>3, ConcatEmptySeq DEF Full, Init
<1> QED BY <1>3, <1>4, <1>5, <1>6 DEF Init

LEMMA ShapeInit == Init => ShapeInv
<1> SUFFICES ASSUME Init PROVE ShapeInv
  OBVIOUS
<1>1. TypeOK
  <2>1. batch \in Seq(Rows)
    BY DEF Init
  <2>2. forcer \in [at : {"none", "listed", "reaping", "superseding"}, next : Nat]
    BY DEF Init
  <2>3. 0 \in 0 .. MaxAttempts /\ 0 \in 0 .. MaxEmits
    BY RunLifecycleAssumption
  <2> QED BY <2>1, <2>2, <2>3, InitialRow DEF Init, TypeOK, PCs
<1>2. NumbersInv
  <2>1. Numbered(log)
    <3>1. 1 \in Nat \ {0} /\ Seqs(log) = 1 .. 1
      BY InitialRow
    <3> QED BY <3>1 DEF Numbered
  <2>2. ~Forcing
    BY DEF Init, Forcing
  <2> QED BY <2>1, <2>2, InitialRow DEF NumbersInv
<1>3. BatchOfEvents /\ BatchClean
  BY DEF Init, BatchOfEvents, BatchClean
<1> QED BY <1>1, <1>2, <1>3 DEF ShapeInv

LEMMA FullMax ==
    ASSUME ShapeInv
    PROVE  /\ MaxSeq(log) \in Nat \ {0} /\ MaxSeq(Full) \in Nat \ {0}
           /\ MaxSeq(log) <= MaxSeq(Full)
<1>1. /\ MaxSeq(log) \in Nat \ {0} /\ Seqs(log) = 1 .. MaxSeq(log)
      /\ MaxSeq(Full) \in Nat \ {0} /\ Seqs(Full) = 1 .. MaxSeq(Full)
  BY NumberedMax DEF ShapeInv, NumbersInv
<1>2. log \in Seq(Rows) /\ batch \in Seq(Rows)
  BY DEF ShapeInv, TypeOK
<1>3. \A i \in DOMAIN log : i \in DOMAIN Full /\ Full[i] = log[i]
  BY <1>2, ConcatProperties, LenProperties DEF Full
<1>4. Seqs(log) \subseteq Seqs(Full)
  BY <1>3 DEF Seqs
<1>5. MaxSeq(log) \in 1 .. MaxSeq(Full)
  BY <1>1, <1>4
<1> QED BY <1>1, <1>5

\* The committed row leaves no gap.
LEMMA CommitNumbered ==
    ASSUME ShapeInv, NEW e \in Rows, Commits(e), NumberFollows(e)
    PROVE  /\ log' \in Seq(Rows)
           /\ Numbered(log') /\ Numbered(Full')
           /\ MaxSeq(log) <= MaxSeq(log')
<1>1. Full \in Seq(Rows) /\ Numbered(Full)
  BY FullIsSeq DEF ShapeInv, NumbersInv
<1>2. e.seq \in Nat /\ e.seq <= MaxSeq(Full) + 1
  <2>1. CASE e.seq = NextSeq(Full)
    BY <1>1, <2>1, NumberedMax
  <2>2. CASE Forcing /\ RowFree /\ e.seq = forcer.next
    <3>1. Full = log
      BY <2>2, FullIsSeq DEF ShapeInv
    <3> QED BY <2>2, <3>1, FullMax DEF ShapeInv, NumbersInv
  <2> QED BY <2>1, <2>2 DEF NumberFollows
<1>3. log' \in Seq(Rows) /\ Numbered(log') /\ MaxSeq(Full) <= MaxSeq(log')
  BY <1>1, <1>2, AppendNumbered, AppendProperties DEF Commits
<1>4. Full' = log'
  BY <1>3, ConcatEmptySeq DEF Full, Commits
<1>5. MaxSeq(log') \in Nat
  BY <1>3, NumberedMax
<1> QED BY <1>3, <1>4, <1>5, FullMax

LEMMA RowsNext ==
    ASSUME ShapeInv, StepKind
    PROVE  /\ log' \in Seq(Rows) /\ batch' \in Seq(Rows)
           /\ Numbered(log') /\ Numbered(Full')
           /\ MaxSeq(log) <= MaxSeq(log')
           /\ BatchOfEvents'
<1>1. log \in Seq(Rows) /\ batch \in Seq(Rows) /\ Full \in Seq(Rows)
  BY FullIsSeq DEF ShapeInv, TypeOK
<1>2. Numbered(log) /\ Numbered(Full) /\ MaxSeq(log) \in Nat
  BY FullMax DEF ShapeInv, NumbersInv
<1>3. CASE WritesNothing
  <2>1. log' = log /\ (batch' = batch \/ batch' = <<>>)
    BY <1>3 DEF WritesNothing
  <2>2. Full' = Full \/ Full' = log
    BY <1>1, <2>1, ConcatEmptySeq DEF Full
  <2>3. batch' \in Seq(Rows) /\ BatchOfEvents'
    <3>1. CASE batch' = batch
      BY <1>1, <3>1 DEF BatchOfEvents, ShapeInv
    <3>2. CASE batch' = <<>>
      BY <3>2 DEF BatchOfEvents
    <3> QED BY <2>1, <3>1, <3>2
  <2>4. Numbered(Full')
    BY <1>2, <2>2
  <2> QED BY <1>1, <1>2, <2>1, <2>3, <2>4
<1>4. CASE Streams
  <2> DEFINE e == Event(NextSeq(Full), "agent_event", NoKey)
  <2>1. e \in Rows /\ e.seq = NextSeq(Full) /\ e.type = "agent_event" /\ e.note = NoKey
    BY NextRow DEF EventTypes
  <2>2. log' = log /\ batch' = Append(batch, e)
    BY <1>4 DEF Streams
  <2>3. Full' = Append(Full, e)
    BY <2>1, <2>2, ConcatAppend DEF Full, ShapeInv
  <2>4. Numbered(Append(Full, e))
    <3>1. e.seq <= MaxSeq(Full) + 1
      BY <1>2, <2>1, NumberedMax
    <3> QED BY <1>1, <1>2, <2>1, <3>1, AppendNumbered
  <2>5. batch' \in Seq(Rows)
    BY <1>1, <2>1, <2>2, AppendProperties
  <2>6. BatchOfEvents'
    BY <1>1, <2>1, <2>2, AppendRow DEF BatchOfEvents, ShapeInv
  <2> QED BY <1>1, <1>2, <2>2, <2>3, <2>4, <2>5, <2>6
<1>5. CASE CommitsPermitted
  <2>1. PICK e \in Rows : Commits(e) /\ NumberFollows(e)
    BY <1>5 DEF CommitsPermitted, Permitted
  <2>2. batch' = <<>>
    BY <2>1 DEF Commits
  <2> QED BY <2>1, <2>2, CommitNumbered DEF BatchOfEvents
<1> QED BY <1>3, <1>4, <1>5 DEF StepKind

\* What is no row: the places of the attempt and of the forced termination,
\* and the bounds.
Scalars ==
    /\ status \in {"running", "cancelling", "completed", "failed", "cancelled",
                   "interrupted"}
    /\ stale \in BOOLEAN
    /\ batch # <<>> => pc \in {"agent", "scan", "block"}
    /\ pc \in PCs
    /\ attempts \in 0 .. MaxAttempts
    /\ emitted \in 0 .. MaxEmits
    /\ scanning \in BOOLEAN

LEMMA StatusOfTerminal ==
    \A type \in TerminalTypes :
        TerminalStatuses[type] \in {"completed", "failed", "interrupted", "cancelled"}
BY DEF TerminalTypes, TerminalStatuses

LEMMA ScalarsNext == ShapeInv /\ [Next]_vars => Scalars'
<1> SUFFICES ASSUME ShapeInv, [Next]_vars PROVE Scalars'
  OBVIOUS
<1>0. Scalars /\ MaxAttempts \in Nat /\ MaxEmits \in Nat
  BY RunLifecycleAssumption DEF ShapeInv, TypeOK, Scalars
<1> USE DEF Scalars, PCs
<1>1. CASE UNCHANGED vars
  BY <1>0, <1>1
<1>2. CASE RequestCancel \/ FallsSilent \/ SupersedeStarts \/ LeaseJob
  <2>1. CASE RequestCancel
    BY <1>0, <2>1 DEF RequestCancel
  <2>2. CASE FallsSilent \/ SupersedeStarts
    BY <1>0, <2>2 DEF FallsSilent, SupersedeStarts
  <2>3. CASE LeaseJob
    BY <1>0, <2>3 DEF LeaseJob
  <2> QED BY <1>2, <2>1, <2>2, <2>3
<1>3. ASSUME NEW key \in Keys, ProvideInputWithKey(key) PROVE Scalars'
  BY <1>0, <1>3 DEF ProvideInputWithKey
<1>4. CASE ReaperStep
  <2>1. CASE ListStaleRunning \/ ForceFailRunStarts
    BY <1>0, <2>1 DEF ListStaleRunning, ForceFailRunStarts
  <2>2. CASE ForceEnds
    BY <1>0, <2>2 DEF ForceEnds
  <2> QED BY <1>4, <2>1, <2>2 DEF ReaperStep
<1>5. CASE Handle \/ JobReceived \/ GuardCancel \/ GuardTerminal \/ PipelinePasses
  BY <1>0, <1>5 DEF Handle, JobReceived, GuardCancel, GuardTerminal, PipelinePasses, Goes
<1>6. ASSUME NEW type \in TerminalTypes, AppendAndCommitSingle(type)
      PROVE  Scalars'
  <2>1. batch' = <<>> /\ pc' = "finished" /\ status' = TerminalStatuses[type]
        /\ stale' = FALSE /\ UNCHANGED <<attempts, emitted, scanning>>
    BY <1>6 DEF AppendAndCommitSingle, RowFree
  <2>2. status' \in {"completed", "failed", "interrupted", "cancelled"}
    BY <2>1, StatusOfTerminal
  <2> QED BY <1>0, <2>1, <2>2
<1>7. CASE GuardAborts \/ PipelineEndsRun
  BY <1>6, <1>7 DEF GuardAborts, PipelineEndsRun, TerminalTypes, TerminalStatuses
<1>8. CASE AgentStep
  <2>1. ASSUME NEW type \in TerminalTypes, EmitTerminal(type) PROVE Scalars'
    <3>1. batch' = <<>> /\ pc' = "finished" /\ status' = TerminalStatuses[type]
          /\ stale' = FALSE /\ UNCHANGED <<attempts, emitted, scanning>>
      BY <2>1 DEF EmitTerminal
    <3>2. status' \in {"completed", "failed", "interrupted", "cancelled"}
      BY <3>1, StatusOfTerminal
    <3> QED BY <1>0, <3>1, <3>2
  <2>2. CASE EmitEvent
    <3>1. /\ pc = "agent" /\ emitted < MaxEmits /\ emitted' = emitted + 1
          /\ UNCHANGED <<status, pc, attempts, scanning>>
      BY <2>2 DEF EmitEvent
    <3>2. stale' \in BOOLEAN
      BY <1>0, <2>2 DEF EmitEvent
    <3>3. emitted' \in 0 .. MaxEmits
      BY <1>0, <3>1
    <3> QED BY <1>0, <3>1, <3>2, <3>3
  <2>3. CASE "run_cancelled" \in LatestCancel /\ Goes("agent", "finished")
    <3>1. batch = <<>>
      <4>1. "run_cancelled" \in CancelTypes \cap LogTypes
        BY <2>3, LatestFound DEF LatestCancel, ShapeInv, TypeOK, NumbersInv
      <4> QED BY <4>1 DEF ShapeInv, BatchClean
    <3> QED BY <1>0, <2>3, <3>1 DEF Goes
  <2> QED
    BY <1>8, <2>1, <2>2, <2>3 DEF AgentStep, TerminalTypes, TerminalStatuses
<1>9. CASE ScanInput \/ InputScanned \/ ScanReportTimesOut
  <2>1. CASE ScanInput
    BY <1>0, <2>1 DEF ScanInput
  <2>2. CASE InputScanned
    BY <1>0, <2>2 DEF InputScanned
  <2>3. CASE ScanReportTimesOut
    BY <1>0, <2>3 DEF ScanReportTimesOut, Goes
  <2> QED BY <1>9, <2>1, <2>2, <2>3
<1>10. CASE InputBlocked \/ InjectionBlocks \/ ScanReports
  <2>1. CASE ScanReports
    BY <1>0, <2>1 DEF ScanReports
  <2>2. CASE InputBlocked \/ InjectionBlocks
    <3>1. /\ batch = <<>> /\ batch' = <<>>
          /\ UNCHANGED <<attempts, emitted>>
          /\ status' \in {status, "cancelled"} /\ stale' \in {stale, FALSE}
          /\ pc' \in {pc, "finished"} /\ scanning' \in {scanning, FALSE}
      BY <2>2 DEF InputBlocked, InjectionBlocks, BlockRow, RowFree
    <3> QED BY <1>0, <3>1
  <2> QED BY <1>10, <2>1, <2>2
<1>11. CASE JobAcked \/ AttemptFails \/ WorkerCrashes
  BY <1>0, <1>11 DEF JobAcked, AttemptFails, WorkerCrashes, Fails, Goes
<1> QED
  BY <1>1, <1>2, <1>3, <1>4, <1>5, <1>7, <1>8, <1>9, <1>10, <1>11 DEF Next, AttemptStep

LEMMA ForcerNext ==
    ASSUME ShapeInv, [Next]_vars, MaxSeq(log') \in Nat, MaxSeq(log) <= MaxSeq(log')
    PROVE  /\ forcer' \in [at : {"none", "listed", "reaping", "superseding"}, next : Nat]
           /\ Forcing' => forcer'.next \in 1 .. MaxSeq(log') + 1
<1>1. /\ MaxSeq(log) \in Nat \ {0} /\ NextSeq(log) = MaxSeq(log) + 1
      /\ forcer \in [at : {"none", "listed", "reaping", "superseding"}, next : Nat]
      /\ Forcing => forcer.next \in 1 .. MaxSeq(log) + 1
  BY FullMax, NumberedMax DEF ShapeInv, NumbersInv, TypeOK
<1>2. \/ forcer' = forcer
      \/ forcer' = [at |-> "listed", next |-> 0]
      \/ forcer' \in {[at |-> "reaping", next |-> NextSeq(log)],
                      [at |-> "superseding", next |-> NextSeq(log)]}
      \/ forcer' = NoForce
  BY DEF Next, ReaperStep, AttemptStep, RequestCancel, ProvideInputWithKey,
         FallsSilent, SupersedeStarts, ListStaleRunning, ForceFailRunStarts,
         ForceEnds, LeaseJob, Handle, JobReceived, GuardCancel, GuardTerminal,
         GuardAborts, AppendAndCommitSingle, PipelineEndsRun, PipelinePasses,
         AgentStep, EmitEvent, EmitTerminal, ScanInput, InputScanned,
         ScanReportTimesOut, InputBlocked, JobAcked, AttemptFails, WorkerCrashes,
         Fails, ScanReports, InjectionBlocks, Goes
<1>3. CASE forcer' = forcer
  BY <1>1, <1>3 DEF Forcing
<1>4. CASE forcer' = [at |-> "listed", next |-> 0] \/ forcer' = NoForce
  BY <1>4 DEF Forcing, NoForce
<1>5. CASE forcer' \in {[at |-> "reaping", next |-> NextSeq(log)],
                        [at |-> "superseding", next |-> NextSeq(log)]}
  BY <1>1, <1>5 DEF Forcing
<1> QED BY <1>2, <1>3, <1>4, <1>5

\* Whoever cancels needs the row, so a transaction that is open stays clean.
LEMMA BatchCleanNext == ShapeInv /\ StepKind => BatchClean'
<1> SUFFICES ASSUME ShapeInv, StepKind, batch' # <<>>
             PROVE  LogTypes' \cap CancelTypes = {}
  BY DEF BatchClean
<1>1. CASE WritesNothing
  BY <1>1 DEF WritesNothing, ShapeInv, BatchClean, LogTypes
<1>2. CASE Streams
  <2>1. CancelTypes \cap LogTypes = {}
    BY <1>2, LatestFound DEF Streams, LatestCancel, ShapeInv, TypeOK, NumbersInv
  <2> QED BY <1>2, <2>1 DEF Streams, LogTypes
<1>3. CASE CommitsPermitted
  BY <1>3 DEF CommitsPermitted, Commits
<1> QED BY <1>1, <1>2, <1>3 DEF StepKind

LEMMA ShapeNext == ShapeInv /\ [Next]_vars => ShapeInv'
<1> SUFFICES ASSUME ShapeInv, [Next]_vars PROVE ShapeInv'
  OBVIOUS
<1>1. StepKind
  BY StepKinds
<1>2. /\ log' \in Seq(Rows) /\ batch' \in Seq(Rows)
      /\ Numbered(log') /\ Numbered(Full')
      /\ MaxSeq(log) <= MaxSeq(log')
      /\ BatchOfEvents'
  BY <1>1, RowsNext
<1>3. MaxSeq(log') \in Nat
  BY <1>2, NumberedMax
<1>4. /\ forcer' \in [at : {"none", "listed", "reaping", "superseding"}, next : Nat]
      /\ Forcing' => forcer'.next \in 1 .. MaxSeq(log') + 1
  BY <1>2, <1>3, ForcerNext
<1>5. TypeOK'
  BY <1>2, <1>4, ScalarsNext DEF Scalars, TypeOK
<1>6. NumbersInv'
  BY <1>2, <1>4 DEF NumbersInv
<1>7. BatchClean'
  BY <1>1, BatchCleanNext
<1> QED BY <1>2, <1>5, <1>6, <1>7 DEF ShapeInv

LEMMA Shaped == Spec => []ShapeInv
<1> QED BY ShapeInit, ShapeNext, PTL DEF Spec

\* The state keeps its shape: in particular eventWriter's transaction is open
\* only while the loop has the attempt, so no other transaction of the attempt
\* waits for its row lock.
THEOREM TypeCorrect == Spec => []TypeOK
<1>1. ShapeInv => TypeOK
  BY DEF ShapeInv
<1> QED BY <1>1, Shaped, PTL

\* Whatever is rolled back, retried or forced, the rows of a run are numbered
\* without a gap: allocateSeq counts from the rows its transaction sees, and a
\* number that ForceFailRun computed too early is at most taken.
THEOREM NumberedWithoutGap == Spec => []Gapless
<1>1. ShapeInv => Gapless
  BY NumberedMax DEF ShapeInv, NumbersInv, Gapless, Seqs
<1> QED BY <1>1, Shaped, PTL

-----------------------------------------------------------------------------
(* What a reader of the log may count on.                                  *)

\* Where the rows of the new log come from.
LEMMA CommitRows ==
    ASSUME ShapeInv, NEW e \in Rows, Commits(e)
    PROVE  /\ DOMAIN log \subseteq DOMAIN log'
           /\ \A i \in DOMAIN log : log'[i] = log[i]
           /\ \A i \in DOMAIN log' \ DOMAIN log :
                \A k \in DOMAIN log : k < i
           /\ \E last \in DOMAIN log' \ DOMAIN log :
                /\ log'[last] = e
                /\ \A i \in DOMAIN log' : i <= last
                /\ \A i \in DOMAIN log' \ (DOMAIN log \cup {last}) :
                     /\ batch # <<>>
                     /\ log'[i].type = "agent_event" /\ log'[i].note = NoKey
<1> DEFINE last == Len(Full) + 1
<1>1. log \in Seq(Rows) /\ batch \in Seq(Rows) /\ Full \in Seq(Rows)
  BY FullIsSeq DEF ShapeInv, TypeOK
<1>2. /\ Len(log) \in Nat /\ Len(batch) \in Nat
      /\ DOMAIN log = 1 .. Len(log) /\ DOMAIN batch = 1 .. Len(batch)
      /\ Len(Full) = Len(log) + Len(batch)
      /\ \A i \in 1 .. Len(log) : Full[i] = log[i]
      /\ \A i \in Len(log) + 1 .. Len(Full) : Full[i] = batch[i - Len(log)]
  BY <1>1, LenProperties, ConcatProperties DEF Full
<1>3. /\ DOMAIN log' = 1 .. last
      /\ \A i \in 1 .. Len(Full) : log'[i] = Full[i]
      /\ log'[last] = e
  BY <1>1, AppendRow DEF Commits
<1>4. \A i \in 1 .. Len(log) : log'[i] = log[i]
  BY <1>2, <1>3
<1>5. last \in DOMAIN log' \ DOMAIN log /\ \A i \in DOMAIN log' : i <= last
  BY <1>2, <1>3
<1>6. ASSUME NEW i \in DOMAIN log' \ (DOMAIN log \cup {last})
      PROVE  /\ batch # <<>>
             /\ log'[i].type = "agent_event" /\ log'[i].note = NoKey
  <2>1. i \in Len(log) + 1 .. Len(Full)
    BY <1>2, <1>3
  <2>2. i - Len(log) \in DOMAIN batch /\ log'[i] = batch[i - Len(log)]
    BY <1>2, <1>3, <2>1
  <2>3. batch # <<>>
    BY <2>2
  <2> QED BY <2>2, <2>3 DEF ShapeInv, BatchOfEvents
<1>7. \A i \in DOMAIN log' \ DOMAIN log : \A k \in DOMAIN log : k < i
  BY <1>2, <1>3
<1>8. DOMAIN log \subseteq DOMAIN log'
  BY <1>2, <1>3
<1> QED BY <1>2, <1>3, <1>4, <1>5, <1>6, <1>7, <1>8

LEMMA CommitTypes ==
    ASSUME ShapeInv, NEW e \in Rows, Commits(e)
    PROVE  /\ LogTypes \cup {e.type} \subseteq LogTypes'
           /\ LogTypes' \subseteq LogTypes \cup {"agent_event", e.type}
<1>1. PICK last \in DOMAIN log' \ DOMAIN log :
        /\ log'[last] = e
        /\ \A i \in DOMAIN log' \ (DOMAIN log \cup {last}) : log'[i].type = "agent_event"
  BY CommitRows
<1>2. DOMAIN log \subseteq DOMAIN log' /\ \A i \in DOMAIN log : log'[i] = log[i]
  BY CommitRows
<1> QED BY <1>1, <1>2 DEF LogTypes

LEMMA WorkStopsNext == ShapeInv /\ StepKind /\ WorkStopsAtCancel => WorkStopsAtCancel'
<1> SUFFICES ASSUME ShapeInv, StepKind, WorkStopsAtCancel,
                    NEW i \in DOMAIN log', NEW k \in DOMAIN log',
                    log'[i].type = "run_cancel_requested", i < k,
                    log'[k].type \in {"agent_event", "run_completed"}
             PROVE  FALSE
  BY DEF WorkStopsAtCancel
<1>1. log' # log
  BY DEF WorkStopsAtCancel
<1>2. PICK e \in Rows : Commits(e) /\ Permitted(e)
  BY <1>1 DEF StepKind, WritesNothing, Streams, CommitsPermitted
<1>3. PICK last \in DOMAIN log' \ DOMAIN log :
        /\ log'[last] = e
        /\ \A n \in DOMAIN log' : n <= last
        /\ \A n \in DOMAIN log' \ (DOMAIN log \cup {last}) :
             batch # <<>> /\ log'[n].type = "agent_event"
  BY <1>2, CommitRows
<1>4. /\ \A n \in DOMAIN log : log'[n] = log[n]
      /\ \A n \in DOMAIN log' \ DOMAIN log : \A m \in DOMAIN log : m < n
      /\ DOMAIN log = 1 .. Len(log) /\ Len(log) \in Nat
      /\ DOMAIN log' \subseteq Int
  <2>1. log \in Seq(Rows) /\ log' \in Seq(Rows)
    BY RowsNext DEF ShapeInv, TypeOK
  <2> QED BY <1>2, <2>1, CommitRows, LenProperties
<1>5. i \in DOMAIN log
  BY <1>3, <1>4
<1>6. "run_cancel_requested" \in LogTypes \cap CancelTypes
  BY <1>4, <1>5 DEF LogTypes, CancelTypes
<1>7. batch = <<>>
  BY <1>6 DEF ShapeInv, BatchClean
<1>8. CASE k \in DOMAIN log
  BY <1>4, <1>5, <1>8 DEF WorkStopsAtCancel
<1>9. CASE k = last
  <2>1. LatestCancel = {}
    BY <1>2, <1>3, <1>9 DEF Permitted
  <2>2. CancelTypes \cap LogTypes = {}
    BY <2>1, LatestFound DEF LatestCancel, ShapeInv, TypeOK, NumbersInv
  <2> QED BY <1>6, <2>2
<1> QED BY <1>3, <1>7, <1>8, <1>9

\* Once a cancellation is recorded the agent adds nothing and the run does not
\* complete, in any attempt: eventWriter.Append looks for it under the row
\* lock that RequestCancel takes too, and holds that lock while a batch is open.
THEOREM CancelledWorkStops == Spec => []WorkStopsAtCancel
<1>1. Init => WorkStopsAtCancel
  <2> SUFFICES ASSUME Init PROVE WorkStopsAtCancel
    OBVIOUS
  <2>1. DOMAIN log = {1} /\ log[1].type = "run_started"
    BY InitialRow
  <2> QED BY <2>1 DEF WorkStopsAtCancel
<1>2. ShapeInv /\ [Next]_vars /\ WorkStopsAtCancel => WorkStopsAtCancel'
  BY StepKinds, WorkStopsNext
<1> QED BY <1>1, <1>2, Shaped, PTL DEF Spec

LEMMA InputsNext == ShapeInv /\ StepKind /\ InputsAcceptedOnce => InputsAcceptedOnce'
<1> SUFFICES ASSUME ShapeInv, StepKind, InputsAcceptedOnce,
                    NEW i \in DOMAIN log', NEW k \in DOMAIN log',
                    log'[k].type = "run_input_provided", i < k
             PROVE  /\ log'[i].note # log'[k].note
                    /\ log'[i].type \notin TerminalTypes \cup CancelTypes
  BY DEF InputsAcceptedOnce
<1>1. CASE log' = log
  BY <1>1 DEF InputsAcceptedOnce
<1>2. CASE log' # log
  <2>1. PICK e \in Rows : Commits(e) /\ Permitted(e)
    BY <1>2 DEF StepKind, WritesNothing, Streams, CommitsPermitted
  <2>2. PICK last \in DOMAIN log' \ DOMAIN log :
          /\ log'[last] = e
          /\ \A n \in DOMAIN log' : n <= last
          /\ \A n \in DOMAIN log' \ (DOMAIN log \cup {last}) :
               batch # <<>> /\ log'[n].type = "agent_event"
    BY <2>1, CommitRows
  <2>3. /\ \A n \in DOMAIN log : log'[n] = log[n]
        /\ \A n \in DOMAIN log' \ DOMAIN log : \A m \in DOMAIN log : m < n
        /\ DOMAIN log = 1 .. Len(log) /\ Len(log) \in Nat
        /\ DOMAIN log' \subseteq Int
    <3>1. log \in Seq(Rows) /\ log' \in Seq(Rows)
      BY RowsNext DEF ShapeInv, TypeOK
    <3> QED BY <2>1, <3>1, CommitRows, LenProperties
  <2>4. CASE k \in DOMAIN log
    <3>1. i \in DOMAIN log
      BY <2>3, <2>4
    <3> QED BY <2>3, <2>4, <3>1 DEF InputsAcceptedOnce
  <2>5. CASE k = last
    <3>1. /\ batch = <<>> /\ ~HasTerminal /\ ~CancelRequested
          /\ \A n \in DOMAIN log : log[n].note # e.note
      BY <2>1, <2>2, <2>5 DEF Permitted, RowFree
    <3>2. i \in DOMAIN log
      BY <2>2, <2>3, <2>5, <3>1
    <3>3. log[i].type \notin TerminalTypes \cup {"run_cancel_requested"}
      BY <3>1, <3>2 DEF HasTerminal, CancelRequested, LogTypes
    <3>4. "run_cancelled" \in TerminalTypes
      BY DEF TerminalTypes, TerminalStatuses
    <3> QED BY <2>2, <2>3, <2>5, <3>1, <3>2, <3>3, <3>4 DEF CancelTypes
  <2> QED BY <2>2, <2>4, <2>5
<1> QED BY <1>1, <1>2

\* An input is accepted once per key and never behind a cancellation or the
\* end: ProvideInputWithKey locks the row before it looks, and appends before
\* it lets it go.
THEOREM InputsOnce == Spec => []InputsAcceptedOnce
<1>1. Init => InputsAcceptedOnce
  <2> SUFFICES ASSUME Init PROVE InputsAcceptedOnce
    OBVIOUS
  <2>1. DOMAIN log = {1} /\ log[1].type = "run_started"
    BY InitialRow
  <2> QED BY <2>1 DEF InputsAcceptedOnce
<1>2. ShapeInv /\ [Next]_vars /\ InputsAcceptedOnce => InputsAcceptedOnce'
  BY StepKinds, InputsNext
<1> QED BY <1>1, <1>2, Shaped, PTL DEF Spec

-----------------------------------------------------------------------------
(* The row and the log.                                                    *)

\* The last terminal event, without a choice.
EndsAt(i) ==
    /\ i \in DOMAIN log
    /\ log[i].type \in TerminalTypes
    /\ \A k \in DOMAIN log : log[k].type \in TerminalTypes => k <= i
    /\ status = TerminalStatuses[log[i].type]

\* StatusMatchesLog in a form that a step can keep.
StatusInv ==
    /\ HasTerminal => \E i \in DOMAIN log : EndsAt(i)
    /\ ~HasTerminal => Active \/ (status = "cancelled" /\ CancelRequested)
    /\ status = "cancelling" => CancelRequested

LEMMA StatusInvMatches == ShapeInv /\ StatusInv => StatusMatchesLog
<1> SUFFICES ASSUME ShapeInv, StatusInv PROVE StatusMatchesLog
  OBVIOUS
<1>1. ASSUME HasTerminal PROVE status = TerminalStatuses[log[LastTerminal].type]
  <2>1. PICK i \in DOMAIN log : EndsAt(i)
    BY <1>1 DEF StatusInv
  <2>2. DOMAIN log \subseteq Int
    <3>1. log \in Seq(Rows)
      BY DEF ShapeInv, TypeOK
    <3> QED BY <3>1, LenProperties
  <2>3. LastTerminal = i
    BY <2>1, <2>2 DEF LastTerminal, EndsAt
  <2> QED BY <2>1, <2>3 DEF EndsAt
<1> QED BY <1>1 DEF StatusInv, StatusMatchesLog

LEMMA StatusInit == Init => StatusInv
<1> SUFFICES ASSUME Init PROVE StatusInv
  OBVIOUS
<1>1. LogTypes = {"run_started"}
  BY InitialRow DEF LogTypes
<1>2. ~HasTerminal
  BY <1>1 DEF HasTerminal, TerminalTypes, TerminalStatuses
<1> QED BY <1>2 DEF Init, StatusInv, Active

LEMMA StatusNext == ShapeInv /\ StepKind /\ StatusInv => StatusInv'
<1> SUFFICES ASSUME ShapeInv, StepKind, StatusInv PROVE StatusInv'
  OBVIOUS
<1>1. CASE log' = log /\ status' = status
  BY <1>1 DEF StatusInv, HasTerminal, LogTypes, CancelRequested, Active, EndsAt
<1>2. CASE WritesNothing
  <2>1. CASE ~HasTerminal /\ CancelRequested /\ status' = "cancelled"
    <3>1. ~HasTerminal' /\ CancelRequested'
      BY <1>2, <2>1 DEF WritesNothing, HasTerminal, CancelRequested, LogTypes
    <3> QED BY <2>1, <3>1 DEF StatusInv
  <2> QED BY <1>1, <1>2, <2>1 DEF WritesNothing
<1>3. ASSUME NEW e \in Rows, Commits(e), Permitted(e) PROVE StatusInv'
  <2>1. PICK last \in DOMAIN log' \ DOMAIN log :
          /\ log'[last] = e
          /\ \A n \in DOMAIN log' : n <= last
          /\ \A n \in DOMAIN log' \ (DOMAIN log \cup {last}) :
               batch # <<>> /\ log'[n].type = "agent_event"
    BY <1>3, CommitRows
  <2>2. DOMAIN log \subseteq DOMAIN log' /\ \A n \in DOMAIN log : log'[n] = log[n]
    BY <1>3, CommitRows
  <2>3. /\ LogTypes \cup {e.type} \subseteq LogTypes'
        /\ LogTypes' \subseteq LogTypes \cup {"agent_event", e.type}
    BY <1>3, CommitTypes
  <2>4. "agent_event" \notin TerminalTypes
    BY DEF TerminalTypes, TerminalStatuses
  <2>5. CancelRequested => CancelRequested'
    BY <2>3 DEF CancelRequested
  <2>6. CASE e.type \in TerminalTypes
    <3>1. status' = TerminalStatuses[e.type]
      BY <1>3, <2>6 DEF Permitted, StatusFollows
    <3>2. HasTerminal'
      BY <2>3, <2>6 DEF HasTerminal
    <3>3. EndsAt(last)'
      BY <2>1, <2>6, <3>1 DEF EndsAt
    <3>4. status' # "cancelling"
      BY <2>6, <3>1, StatusOfTerminal
    <3> QED BY <3>2, <3>3, <3>4 DEF StatusInv, EndsAt
  <2>7. CASE e.type \notin TerminalTypes
    <3>1. HasTerminal' <=> HasTerminal
      BY <2>3, <2>4, <2>7 DEF HasTerminal
    <3>2. CASE status' = status
      <4>1. ASSUME HasTerminal PROVE \E i \in DOMAIN log' : EndsAt(i)'
        <5>1. PICK i \in DOMAIN log : EndsAt(i)
          BY <4>1 DEF StatusInv
        <5>2. i \in DOMAIN log' /\ log'[i] = log[i]
          BY <2>2
        <5>3. ASSUME NEW k \in DOMAIN log', log'[k].type \in TerminalTypes PROVE k <= i
          <6>1. k \in DOMAIN log
            BY <2>1, <2>4, <2>7, <5>3
          <6> QED BY <2>2, <5>1, <5>3, <6>1 DEF EndsAt
        <5> QED BY <3>2, <5>1, <5>2, <5>3 DEF EndsAt
      <4> QED BY <2>5, <3>1, <3>2, <4>1 DEF StatusInv, Active
    <3>3. CASE status' # status
      <4>1. /\ ~HasTerminal /\ e.type = "run_cancel_requested"
            /\ status' \in {"cancelled", "cancelling"}
        BY <1>3, <2>7, <3>3 DEF Permitted, StatusFollows
      <4>2. CancelRequested'
        BY <2>3, <4>1 DEF CancelRequested
      <4> QED BY <3>1, <4>1, <4>2 DEF StatusInv, Active
    <3> QED BY <3>2, <3>3
  <2> QED BY <2>6, <2>7
<1> QED BY <1>1, <1>2, <1>3 DEF StepKind, Streams, CommitsPermitted

LEMMA StatusKept == Spec => [](ShapeInv /\ StatusInv)
<1>1. ShapeInv /\ StatusInv /\ [Next]_vars => StatusInv'
  BY StepKinds, StatusNext
<1> QED BY <1>1, StatusInit, Shaped, PTL DEF Spec

\* The row and the log tell one story: every transaction that appends a
\* terminal event updates the row, and the two steps that end the row on their
\* own (a block) need a recorded cancellation and no end.
THEOREM StatusInLog == Spec => []StatusMatchesLog
<1> QED BY StatusInvMatches, StatusKept, PTL

\* A run that has ended is not taken up again: RequestCancel alone makes a run
\* active, and only one whose log has neither an end nor a request.
THEOREM EndIsFinal == Spec => EndedStaysEnded
<1>1. ShapeInv /\ StatusInv /\ [Next]_vars => [Ended => Ended']_vars
  <2> SUFFICES ASSUME ShapeInv, StatusInv, [Next]_vars, Ended PROVE Ended'
    OBVIOUS
  <2>1. CASE status' = status
    BY <2>1 DEF Ended, Active
  <2>2. CASE status' = "cancelled"
    BY <2>2 DEF Ended, Active
  <2>3. ASSUME NEW type \in TerminalTypes, status' = TerminalStatuses[type] PROVE Ended'
    BY <2>3, StatusOfTerminal DEF Ended, Active
  <2>4. CASE ~HasTerminal /\ status' = "cancelling" /\ ~CancelRequested
    BY <2>4 DEF StatusInv, Ended
  <2> QED
    BY <2>1, <2>2, <2>3, <2>4, StepKinds
       DEF StepKind, WritesNothing, Streams, CommitsPermitted, Permitted, StatusFollows
<1> QED BY <1>1, StatusKept, PTL DEF Spec, EndedStaysEnded

-----------------------------------------------------------------------------
(* A run that nobody may end by force.                                     *)

\* Rows are numbered by their places, those of the open transaction too.
PlacesInv == \A i \in DOMAIN Full : Full[i].seq = i

NobodyForces == forcer.at = "none"

LEMMA UnforcedShape ==
    ASSUME Forcers = {}
    PROVE  Spec => [](ShapeInv /\ ~Forcing)
<1>1. Init => NobodyForces
  BY DEF Init, NobodyForces
<1>2. NobodyForces /\ [Next]_vars => NobodyForces'
  BY DEF NobodyForces, Next, ReaperStep, AttemptStep, RequestCancel, ProvideInputWithKey,
         FallsSilent, SupersedeStarts, ListStaleRunning, ForceFailRunStarts,
         ForceEnds, LeaseJob, Handle, JobReceived, GuardCancel, GuardTerminal,
         GuardAborts, AppendAndCommitSingle, PipelineEndsRun, PipelinePasses,
         AgentStep, EmitEvent, EmitTerminal, ScanInput, InputScanned,
         ScanReportTimesOut, InputBlocked, JobAcked, AttemptFails, WorkerCrashes,
         Fails, ScanReports, InjectionBlocks, Goes
<1>3. NobodyForces => ~Forcing
  BY DEF NobodyForces, Forcing
<1> QED BY <1>1, <1>2, <1>3, Shaped, PTL DEF Spec

LEMMA PlacesMax ==
    ASSUME NEW rows \in Seq(Rows), Numbered(rows), \A i \in DOMAIN rows : rows[i].seq = i
    PROVE  NextSeq(rows) = Len(rows) + 1
<1>1. /\ MaxSeq(rows) \in Nat \ {0} /\ Seqs(rows) = 1 .. MaxSeq(rows)
      /\ NextSeq(rows) = MaxSeq(rows) + 1
  BY NumberedMax
<1>2. Len(rows) \in Nat /\ DOMAIN rows = 1 .. Len(rows)
  BY LenProperties
<1>3. Seqs(rows) = 1 .. Len(rows)
  BY <1>2 DEF Seqs
<1>4. Len(rows) # 0
  BY <1>1, <1>3
<1>5. MaxSeq(rows) = Len(rows)
  BY <1>2, <1>3, <1>4, MaxSeqIs
<1> QED BY <1>1, <1>5

LEMMA PlacesNext == ShapeInv /\ ~Forcing /\ StepKind /\ PlacesInv => PlacesInv'
<1> SUFFICES ASSUME ShapeInv, ~Forcing, StepKind, PlacesInv PROVE PlacesInv'
  OBVIOUS
<1>1. log \in Seq(Rows) /\ batch \in Seq(Rows) /\ Full \in Seq(Rows)
  BY FullIsSeq DEF ShapeInv, TypeOK
<1>2. NextSeq(Full) = Len(Full) + 1
  BY <1>1, PlacesMax DEF PlacesInv, ShapeInv, NumbersInv
<1>3. ASSUME NEW e \in Rows, e.seq = NextSeq(Full), Full' = Append(Full, e)
      PROVE  PlacesInv'
  <2>1. /\ DOMAIN Full = 1 .. Len(Full) /\ Len(Full) \in Nat
        /\ DOMAIN Append(Full, e) = 1 .. Len(Full) + 1
        /\ \A i \in 1 .. Len(Full) : Append(Full, e)[i] = Full[i]
        /\ Append(Full, e)[Len(Full) + 1] = e
    BY <1>1, AppendRow
  <2>2. ASSUME NEW i \in DOMAIN Append(Full, e) PROVE Append(Full, e)[i].seq = i
    <3>1. CASE i \in 1 .. Len(Full)
      BY <2>1, <3>1 DEF PlacesInv
    <3>2. CASE i = Len(Full) + 1
      BY <1>2, <1>3, <2>1, <3>2
    <3> QED BY <2>1, <3>1, <3>2
  <2> QED BY <1>3, <2>2 DEF PlacesInv
<1>4. CASE WritesNothing
  <2>1. log' = log /\ (batch' = batch \/ batch' = <<>>)
    BY <1>4 DEF WritesNothing
  <2>2. CASE batch' = batch
    <3>1. Full' = Full
      BY <2>1, <2>2 DEF Full
    <3> QED BY <3>1 DEF PlacesInv
  <2>3. CASE batch' = <<>>
    <3>1. Full' = log
      BY <1>1, <2>1, <2>3, ConcatEmptySeq DEF Full
    <3>2. \A i \in DOMAIN log : i \in DOMAIN Full /\ Full[i] = log[i]
      BY <1>1, ConcatProperties, LenProperties DEF Full
    <3> QED BY <3>1, <3>2 DEF PlacesInv
  <2> QED BY <2>1, <2>2, <2>3
<1>5. CASE Streams
  <2> DEFINE e == Event(NextSeq(Full), "agent_event", NoKey)
  <2>1. e \in Rows /\ e.seq = NextSeq(Full)
    BY NextRow DEF EventTypes
  <2>2. log' = log /\ batch' = Append(batch, e)
    BY <1>5 DEF Streams
  <2>3. Full' = Append(Full, e)
    BY <2>1, <2>2, ConcatAppend DEF Full, ShapeInv
  <2> QED BY <1>3, <2>1, <2>3
<1>6. CASE CommitsPermitted
  <2>1. PICK e \in Rows : Commits(e) /\ e.seq = NextSeq(Full)
    BY <1>6 DEF CommitsPermitted, Permitted, NumberFollows
  <2>2. log' \in Seq(Rows)
    BY <1>1, <2>1, AppendProperties DEF Commits
  <2>3. Full' = Append(Full, e)
    BY <2>1, <2>2, ConcatEmptySeq DEF Full, Commits
  <2> QED BY <1>3, <2>1, <2>3
<1> QED BY <1>4, <1>5, <1>6 DEF StepKind

LEMMA PlacesKept ==
    ASSUME Forcers = {}
    PROVE  Spec => [](ShapeInv /\ PlacesInv)
<1>1. Init => PlacesInv
  BY InitialRow DEF PlacesInv
<1>2. ShapeInv /\ ~Forcing /\ [Next]_vars /\ PlacesInv => PlacesInv'
  BY StepKinds, PlacesNext
<1> QED BY <1>1, <1>2, UnforcedShape, PTL DEF Spec

LEMMA LogPlaces == ShapeInv /\ PlacesInv => \A i \in DOMAIN log : log[i].seq = i
<1> SUFFICES ASSUME ShapeInv, PlacesInv PROVE \A i \in DOMAIN log : log[i].seq = i
  OBVIOUS
<1>1. log \in Seq(Rows) /\ batch \in Seq(Rows)
  BY DEF ShapeInv, TypeOK
<1>2. \A i \in DOMAIN log : i \in DOMAIN Full /\ Full[i] = log[i]
  BY <1>1, ConcatProperties, LenProperties DEF Full
<1> QED BY <1>2 DEF PlacesInv

\* While nobody forces the run, every writer takes its number under the row
\* lock, and the number of a row is its place: seq is a cursor.
THEOREM NumbersAreUnique ==
    ASSUME Forcers = {}
    PROVE  Spec => []SeqUnique
<1>1. ShapeInv /\ PlacesInv => SeqUnique
  BY LogPlaces DEF SeqUnique
<1> QED BY <1>1, PlacesKept, PTL

-----------------------------------------------------------------------------

\* The attempt that works is the only one that may still end the run.
WorkInv == AtWork => ~HasTerminal

LEMMA AtWorkNext ==
    ASSUME ShapeInv, [Next]_vars, AtWork'
    PROVE  AtWork \/ (UNCHANGED log /\ ~HasTerminal)
BY DEF Next, ReaperStep, AttemptStep, RequestCancel, ProvideInputWithKey,
       FallsSilent, SupersedeStarts, ListStaleRunning, ForceFailRunStarts,
       ForceEnds, LeaseJob, Handle, JobReceived, GuardCancel, GuardTerminal,
       GuardAborts, AppendAndCommitSingle, PipelineEndsRun, PipelinePasses,
       AgentStep, EmitEvent, EmitTerminal, ScanInput, InputScanned,
       ScanReportTimesOut, InputBlocked, JobAcked, AttemptFails, WorkerCrashes,
       Fails, ScanReports, InjectionBlocks, Goes, AtWork

LEMMA EndsOnceNext ==
    ASSUME ShapeInv, ~Forcing, [Next]_vars, WorkInv, SingleTerminal
    PROVE  WorkInv' /\ SingleTerminal'
<1>1. CASE log' = log
  <2>1. SingleTerminal'
    BY <1>1 DEF SingleTerminal
  <2>2. HasTerminal' <=> HasTerminal
    BY <1>1 DEF HasTerminal, LogTypes
  <2> QED BY <2>1, <2>2, AtWorkNext DEF WorkInv
<1>2. ASSUME NEW e \in Rows, Commits(e), Permitted(e), log' # log
      PROVE  WorkInv' /\ SingleTerminal'
  <2>1. PICK last \in DOMAIN log' \ DOMAIN log :
          /\ log'[last] = e
          /\ \A n \in DOMAIN log' \ (DOMAIN log \cup {last}) : log'[n].type = "agent_event"
    BY <1>2, CommitRows
  <2>2. DOMAIN log \subseteq DOMAIN log' /\ \A n \in DOMAIN log : log'[n] = log[n]
    BY <1>2, CommitRows
  <2>3. "agent_event" \notin TerminalTypes
    BY DEF TerminalTypes, TerminalStatuses
  <2>4. CASE e.type \in TerminalTypes
    <3>1. AtWork /\ pc' = "finished"
      BY <1>2, <2>4 DEF Permitted
    <3>2. \A n \in DOMAIN log : log[n].type \notin TerminalTypes
      BY <3>1 DEF WorkInv, HasTerminal, LogTypes
    <3>3. \A n \in DOMAIN log' : log'[n].type \in TerminalTypes => n = last
      BY <2>1, <2>2, <2>3, <3>2
    <3>4. SingleTerminal'
      BY <3>3 DEF SingleTerminal
    <3>5. WorkInv'
      BY <3>1 DEF WorkInv, AtWork
    <3> QED BY <3>4, <3>5
  <2>5. CASE e.type \notin TerminalTypes
    <3>1. \A n \in DOMAIN log' : log'[n].type \in TerminalTypes => n \in DOMAIN log
      BY <2>1, <2>3, <2>5
    <3>2. SingleTerminal'
      BY <2>2, <3>1 DEF SingleTerminal
    <3>3. HasTerminal' => HasTerminal
      <4>1. LogTypes' \subseteq LogTypes \cup {"agent_event", e.type}
        BY <1>2, CommitTypes
      <4> QED BY <2>3, <2>5, <4>1 DEF HasTerminal
    <3> QED BY <1>2, <3>2, <3>3, AtWorkNext DEF WorkInv
  <2> QED BY <2>4, <2>5
<1> QED
  BY <1>1, <1>2, StepKinds DEF StepKind, WritesNothing, Streams, CommitsPermitted

\* While nobody forces the run it ends once, however its attempts are retried:
\* an attempt that works has seen no end, nobody else ends the run, and the
\* attempt stops working with the end it writes.
THEOREM EndsOnce ==
    ASSUME Forcers = {}
    PROVE  Spec => []SingleTerminal
<1>1. Init => WorkInv /\ SingleTerminal
  <2> SUFFICES ASSUME Init PROVE WorkInv /\ SingleTerminal
    OBVIOUS
  <2>1. ~AtWork
    BY DEF Init, AtWork
  <2>2. DOMAIN log = {1}
    BY InitialRow
  <2> QED BY <2>1, <2>2 DEF WorkInv, SingleTerminal
<1>2. ShapeInv /\ ~Forcing /\ [Next]_vars /\ WorkInv /\ SingleTerminal
      => WorkInv' /\ SingleTerminal'
  BY EndsOnceNext
<1> QED BY <1>1, <1>2, UnforcedShape, PTL DEF Spec

-----------------------------------------------------------------------------
(* What forced terminations leave of the numbers.                          *)

\* An event of the attempt, the API or the scan has a number above those of
\* all rows committed before it.
UnforcedRowsGrow ==
    \A i, k \in DOMAIN log :
        i < k /\ log[k].type \notin ForcedTypes => log[i].seq < log[k].seq

\* ... and so have the rows of the open transaction.
GrowInv ==
    \A i, k \in DOMAIN Full :
        i < k /\ Full[k].type \notin ForcedTypes => Full[i].seq < Full[k].seq

LEMMA NextIsAbove ==
    ASSUME NEW rows \in Seq(Rows), Numbered(rows), NEW i \in DOMAIN rows
    PROVE  rows[i].seq < NextSeq(rows)
<1>1. rows[i].seq \in 1 .. MaxSeq(rows)
  BY SeqBounds
<1>2. MaxSeq(rows) \in Nat /\ NextSeq(rows) = MaxSeq(rows) + 1
  BY NumberedMax
<1> QED BY <1>1, <1>2

LEMMA GrowNext == ShapeInv /\ StepKind /\ GrowInv => GrowInv'
<1> SUFFICES ASSUME ShapeInv, StepKind, GrowInv PROVE GrowInv'
  OBVIOUS
<1>1. log \in Seq(Rows) /\ batch \in Seq(Rows) /\ Full \in Seq(Rows) /\ Numbered(Full)
  BY FullIsSeq DEF ShapeInv, TypeOK, NumbersInv
<1>2. ASSUME NEW e \in Rows, Full' = Append(Full, e),
             e.type \notin ForcedTypes => e.seq = NextSeq(Full)
      PROVE  GrowInv'
  <2>1. /\ DOMAIN Full = 1 .. Len(Full) /\ Len(Full) \in Nat
        /\ DOMAIN Append(Full, e) = 1 .. Len(Full) + 1
        /\ \A i \in 1 .. Len(Full) : Append(Full, e)[i] = Full[i]
        /\ Append(Full, e)[Len(Full) + 1] = e
    BY <1>1, AppendRow
  <2>2. ASSUME NEW i \in DOMAIN Append(Full, e), NEW k \in DOMAIN Append(Full, e), i < k,
               Append(Full, e)[k].type \notin ForcedTypes
        PROVE  Append(Full, e)[i].seq < Append(Full, e)[k].seq
    <3>1. i \in DOMAIN Full /\ Append(Full, e)[i] = Full[i]
      BY <2>1, <2>2
    <3>2. CASE k \in DOMAIN Full
      BY <2>1, <2>2, <3>1, <3>2 DEF GrowInv
    <3>3. CASE k = Len(Full) + 1
      BY <1>1, <1>2, <2>1, <2>2, <3>1, <3>3, NextIsAbove
    <3> QED BY <2>1, <3>2, <3>3
  <2> QED BY <1>2, <2>2 DEF GrowInv
<1>3. CASE WritesNothing
  <2>1. log' = log /\ (batch' = batch \/ batch' = <<>>)
    BY <1>3 DEF WritesNothing
  <2>2. CASE batch' = batch
    <3>1. Full' = Full
      BY <2>1, <2>2 DEF Full
    <3> QED BY <3>1 DEF GrowInv
  <2>3. CASE batch' = <<>>
    <3>1. Full' = log
      BY <1>1, <2>1, <2>3, ConcatEmptySeq DEF Full
    <3>2. \A i \in DOMAIN log : i \in DOMAIN Full /\ Full[i] = log[i]
      BY <1>1, ConcatProperties, LenProperties DEF Full
    <3> QED BY <3>1, <3>2 DEF GrowInv
  <2> QED BY <2>1, <2>2, <2>3
<1>4. CASE Streams
  <2> DEFINE e == Event(NextSeq(Full), "agent_event", NoKey)
  <2>1. e \in Rows /\ e.seq = NextSeq(Full)
    BY NextRow DEF EventTypes
  <2>2. log' = log /\ batch' = Append(batch, e)
    BY <1>4 DEF Streams
  <2>3. Full' = Append(Full, e)
    BY <2>1, <2>2, ConcatAppend DEF Full, ShapeInv
  <2> QED BY <1>2, <2>1, <2>3
<1>5. CASE CommitsPermitted
  <2>1. PICK e \in Rows : Commits(e) /\ NumberFollows(e)
    BY <1>5 DEF CommitsPermitted, Permitted
  <2>2. log' \in Seq(Rows)
    BY <1>1, <2>1, AppendProperties DEF Commits
  <2>3. Full' = Append(Full, e)
    BY <2>1, <2>2, ConcatEmptySeq DEF Full, Commits
  <2> QED BY <1>2, <2>1, <2>3 DEF NumberFollows
<1> QED BY <1>3, <1>4, <1>5 DEF StepKind

\* Whoever forces the run, only the number of a forced end can be taken or come
\* late: every other writer computes its number under the row lock.
THEOREM OnlyForcedEndsCollide == Spec => []UnforcedRowsGrow
<1>1. Init => GrowInv
  <2> SUFFICES ASSUME Init PROVE GrowInv
    OBVIOUS
  <2>1. DOMAIN Full = {1}
    BY InitialRow
  <2> QED BY <2>1 DEF GrowInv
<1>2. ShapeInv /\ [Next]_vars /\ GrowInv => GrowInv'
  BY StepKinds, GrowNext
<1>3. ShapeInv /\ GrowInv => UnforcedRowsGrow
  <2> SUFFICES ASSUME ShapeInv, GrowInv PROVE UnforcedRowsGrow
    OBVIOUS
  <2>1. log \in Seq(Rows) /\ batch \in Seq(Rows)
    BY DEF ShapeInv, TypeOK
  <2>2. \A i \in DOMAIN log : i \in DOMAIN Full /\ Full[i] = log[i]
    BY <2>1, ConcatProperties, LenProperties DEF Full
  <2> QED BY <2>2 DEF GrowInv, UnforcedRowsGrow
<1> QED BY <1>1, <1>2, <1>3, Shaped, PTL DEF Spec
=============================================================================

--------------------------- MODULE SubAgentsProofs ---------------------------
(***************************************************************************)
(* Proofs about SubAgents, for any number of calls, runs, inputs, attempts *)
(* and mishaps: a sub-agent has one active run, its row and its run agree, *)
(* a busy sub-agent is worked on, an input that waits has a run to wait    *)
(* for, and wait_agent misses no end.                                      *)
(*                                                                         *)
(* RowMatchesRun carries the argument.  A run is created only for a        *)
(* sub-agent whose locked row is at rest; such a row has no current run,   *)
(* and then no run is active; so the new run is the only one.              *)
(***************************************************************************)
EXTENDS SubAgents, TLAPS

\* The part of TypeOK that the argument needs.
Shape ==
    /\ status \in {"queued", "running", "closed"} \cup Ended
    /\ current \in Runs \cup {NoRun}
    /\ row \in [Runs -> {"none", "running", "ended"}]
    /\ enq \in [Runs -> {"none", "owed", "failed", "done"}]
    /\ job \in [Runs -> {"none", "queued", "starting", "pipeline", "loop", "over"}]
    /\ publishing \subseteq Runs
    /\ lost \subseteq Runs
    /\ pending \in Nat
    /\ stranded \in Nat

IInv == Shape /\ OneActiveRun /\ RowMatchesRun /\ BusyIsWorkedOn /\ InputsHaveARun

LEMMA NoRunIsNoRun == NoRun \notin Runs
BY SubAgentsAssumption DEF NoRun, Runs

USE DEF Ended, Busy, AtRest, Active

LEMMA InitOK == Init => IInv
<1> SUFFICES ASSUME Init PROVE IInv
  OBVIOUS
<1>2. Shape
  BY DEF Init, Shape
<1>3. Active = {}
  BY DEF Init
<1>4. QED
  BY <1>2, <1>3, NoRunIsNoRun DEF Init, IInv, OneActiveRun, RowMatchesRun, BusyIsWorkedOn,
       InputsHaveARun, NoRun

LEMMA CreateRunOK ==
    ASSUME IInv, NEW c \in Calls, NEW q \in Runs, CreateRun(c, q)
    PROVE  IInv'
<1> USE DEF CreateRun, CreateQueuedRun, MayQueue, history, IInv
<1>1. Shape'
  BY DEF Shape
<1>2. Active = {} /\ Active' = {q}
  BY NoRunIsNoRun DEF Shape, RowMatchesRun, Fresh
<1>3. OneActiveRun'
  BY <1>2 DEF OneActiveRun
<1>4. RowMatchesRun' /\ BusyIsWorkedOn' /\ InputsHaveARun'
  BY <1>2, NoRunIsNoRun DEF RowMatchesRun, BusyIsWorkedOn, InputsHaveARun, Shape
<1>5. QED
  BY <1>1, <1>3, <1>4

\* Steps of the calls that create no run.
LEMMA CallOK ==
    ASSUME IInv, NEW c \in Calls
    PROVE  /\ Plan(c) => IInv'
           /\ CallFails(c) => IInv'
           /\ Close(c) => IInv'
           /\ \A r \in Runs : Interrupt(c, r) => IInv'
           /\ \A r \in Runs, i \in BOOLEAN : QueueInput(c, r, i) => IInv'
<1> USE DEF rowVars, runVars, bounds, history
<1>1. Plan(c) => IInv'
  BY DEF Plan, IInv, Shape, OneActiveRun, RowMatchesRun, BusyIsWorkedOn, InputsHaveARun
<1>2. CallFails(c) => IInv'
  BY DEF CallFails, IInv, Shape, OneActiveRun, RowMatchesRun, BusyIsWorkedOn, InputsHaveARun
<1>3. Close(c) => IInv'
  BY NoRunIsNoRun DEF Close, LeftBehind, IInv, Shape, OneActiveRun, RowMatchesRun,
       BusyIsWorkedOn, InputsHaveARun
<1>4. ASSUME NEW r \in Runs, Interrupt(c, r) PROVE IInv'
  BY <1>4 DEF Interrupt, IInv, Shape, OneActiveRun, RowMatchesRun, BusyIsWorkedOn, InputsHaveARun
<1>5. ASSUME NEW r \in Runs, NEW i \in BOOLEAN, QueueInput(c, r, i) PROVE IInv'
  BY <1>5 DEF QueueInput, IInv, Shape, OneActiveRun, RowMatchesRun, BusyIsWorkedOn,
       InputsHaveARun
<1>6. QED
  BY <1>1, <1>2, <1>3, <1>4, <1>5

LEMMA EnqueueOK ==
    ASSUME IInv, NEW r \in Runs
    PROVE  /\ EnqueueRun(r) => IInv'
           /\ MarkRunFailed(r) => IInv'
           /\ Publish(r) => IInv'
           /\ Reap(r) => IInv'
<1> USE DEF rowVars, runVars, bounds, history
<1>1. EnqueueRun(r) => IInv'
  BY DEF EnqueueRun, Enqueued, IInv, Shape, OneActiveRun, RowMatchesRun, BusyIsWorkedOn,
       InputsHaveARun
<1>2. MarkRunFailed(r) => IInv'
  BY NoRunIsNoRun DEF MarkRunFailed, Enqueued, TransitionToTerminal, LeftBehind, IInv, Shape,
       OneActiveRun, RowMatchesRun, BusyIsWorkedOn, InputsHaveARun
<1>3. Publish(r) => IInv'
  BY DEF Publish, IInv, Shape, OneActiveRun, RowMatchesRun, BusyIsWorkedOn, InputsHaveARun
<1>4. Reap(r) => IInv'
  BY NoRunIsNoRun DEF Reap, LeftBehind, IInv, Shape, OneActiveRun, RowMatchesRun,
       BusyIsWorkedOn, InputsHaveARun
<1>5. QED
  BY <1>1, <1>2, <1>3, <1>4

LEMMA CrashOK ==
    ASSUME IInv, NEW m \in Runs \cup {NoRun}, CrashBehindCommit(m)
    PROVE  IInv'
<1> USE DEF CrashBehindCommit, rowVars, IInv
<1>1. Shape'
  BY DEF OwedBy, Shape
<1>2. OneActiveRun' /\ RowMatchesRun' /\ InputsHaveARun'
  BY DEF OneActiveRun, RowMatchesRun, InputsHaveARun
<1>3. BusyIsWorkedOn'
  BY <1>1, NoRunIsNoRun DEF OwedBy, RowMatchesRun, BusyIsWorkedOn, Shape
<1>4. QED
  BY <1>1, <1>2, <1>3

\* An attempt's steps that end no run.
LEMMA AttemptOK ==
    ASSUME IInv, NEW r \in Runs
    PROVE  /\ Lease(r) => IInv'
           /\ MarkRunning(r) => IInv'
           /\ GuardPasses(r) => IInv'
           /\ AttemptFails(r) => IInv'
<1> USE DEF rowVars, runVars, bounds, history, At, Goes
<1>1. Lease(r) => IInv'
  BY DEF Lease, IInv, Shape, OneActiveRun, RowMatchesRun, BusyIsWorkedOn, InputsHaveARun
<1>2. MarkRunning(r) => IInv'
  BY NoRunIsNoRun DEF MarkRunning, IInv, Shape, OneActiveRun, RowMatchesRun, BusyIsWorkedOn,
       InputsHaveARun
<1>3. GuardPasses(r) => IInv'
  BY DEF GuardPasses, IInv, Shape, OneActiveRun, RowMatchesRun, BusyIsWorkedOn, InputsHaveARun
<1>4. AttemptFails(r) => IInv'
  BY DEF AttemptFails, IInv, Shape, OneActiveRun, RowMatchesRun, BusyIsWorkedOn, InputsHaveARun
<1>5. QED
  BY <1>1, <1>2, <1>3, <1>4

LEMMA EndsEarlyOK ==
    ASSUME IInv, NEW r \in Runs, EndsEarly(r)
    PROVE  IInv'
BY NoRunIsNoRun DEF EndsEarly, At, Goes, TransitionToTerminal, LeftBehind, rowVars, bounds, IInv,
       Shape, OneActiveRun, RowMatchesRun, BusyIsWorkedOn, InputsHaveARun

LEMMA EndsOK ==
    ASSUME IInv, NEW r \in Runs, NEW kind \in Ended, Ends(r, kind)
    PROVE  IInv'
<1> USE DEF Ends, Goes, bounds, IInv
<1>1. CASE TakesInputs(r, kind)
  <2>1. PICK q \in Runs : /\ Fresh(q)
                          /\ row' = [row EXCEPT ![r] = "ended", ![q] = "running"]
                          /\ CreateRunFromPendingInputs(r, q)
    BY <1>1
  <2> USE <2>1 DEF CreateRunFromPendingInputs, CreateQueuedRun
  <2>2. Shape'
    BY <1>1 DEF Shape
  <2>3. current = r /\ status # "closed"
    BY <1>1, NoRunIsNoRun DEF TakesInputs, RowMatchesRun
  <2>4. Active' = {q}
    BY <2>3 DEF RowMatchesRun, Shape
  <2>5. OneActiveRun'
    BY <2>4 DEF OneActiveRun
  <2>6. RowMatchesRun' /\ BusyIsWorkedOn' /\ InputsHaveARun'
    BY <2>4, <1>1, NoRunIsNoRun DEF RowMatchesRun, BusyIsWorkedOn, InputsHaveARun, Shape
  <2>7. QED
    BY <2>2, <2>5, <2>6
<1>2. CASE ~TakesInputs(r, kind)
  BY <1>2, NoRunIsNoRun DEF TakesInputs, TransitionToTerminal, rowVars, Shape, OneActiveRun,
       RowMatchesRun, BusyIsWorkedOn, InputsHaveARun
<1>3. QED
  BY <1>1, <1>2

\* wait_agent writes nothing but its own state.
LEMMA WaiterOK ==
    ASSUME IInv, WaitLooks \/ Subscribes \/ WaitChecks \/ WaitTimesOut
    PROVE  IInv'
BY DEF WaitLooks, Subscribes, WaitChecks, WaitTimesOut, rowVars, runVars, history, IInv, Shape,
       OneActiveRun, RowMatchesRun, BusyIsWorkedOn, InputsHaveARun

LEMMA StepOK == IInv /\ [Next]_vars => IInv'
<1> SUFFICES ASSUME IInv, [Next]_vars PROVE IInv'
  OBVIOUS
<1>1. CASE UNCHANGED vars
  BY <1>1 DEF vars, rowVars, runVars, history, IInv, Shape, OneActiveRun, RowMatchesRun,
       BusyIsWorkedOn, InputsHaveARun
<1>2. ASSUME NEW c \in Calls, CallStep(c) PROVE IInv'
  BY <1>2, CallOK, CreateRunOK DEF CallStep
<1>3. ASSUME NEW r \in Runs, AttemptStep(r) PROVE IInv'
  BY <1>3, AttemptOK, EndsEarlyOK, EndsOK DEF AttemptStep
<1>4. QED
  BY <1>1, <1>2, <1>3, EnqueueOK, AttemptOK, CrashOK, WaiterOK DEF Next

\* The invariant the theorems at the end rest on.
THEOREM Invariant == Spec => []IInv
BY InitOK, StepOK, PTL DEF Spec

-----------------------------------------------------------------------------
(* The state keeps its type: a job that waits has a lease left.            *)

NotYetLeased ==
    \A r \in Runs :
        /\ row[r] = "none" => enq[r] = "none"
        /\ enq[r] \in {"none", "owed"} => job[r] = "none"
        /\ job[r] = "none" => attempts[r] = 0
        /\ job[r] = "queued" => attempts[r] < MaxAttempts

TInv == TypeOK /\ pending <= sent /\ NotYetLeased

LEMMA TInvInit == Init => TInv
BY SubAgentsAssumption DEF Init, TInv, TypeOK, NotYetLeased, NotWaiting, NoRun, NotRead

LEMMA CallKeepsType ==
    ASSUME TInv, NEW c \in Calls, CallStep(c)
    PROVE  TInv'
<1> USE SubAgentsAssumption DEF TInv, TypeOK, NotYetLeased, rowVars, runVars, bounds, history,
        Returns, NotRead
<1>1. CASE Plan(c)
  BY <1>1 DEF Plan
<1>2. CASE Close(c)
  BY <1>2 DEF Close, LeftBehind, NoRun
<1>3. CASE CallFails(c)
  BY <1>3 DEF CallFails
<1>4. ASSUME NEW q \in Runs, CreateRun(c, q) PROVE TInv'
  BY <1>4 DEF CreateRun, CreateQueuedRun, Fresh, NoRun
<1>5. ASSUME NEW r \in Runs, NEW i \in BOOLEAN, QueueInput(c, r, i) PROVE TInv'
  BY <1>5 DEF QueueInput, RequestCancel
<1>6. ASSUME NEW r \in Runs, Interrupt(c, r) PROVE TInv'
  BY <1>6 DEF Interrupt, RequestCancel
<1>7. QED
  BY <1>1, <1>2, <1>3, <1>4, <1>5, <1>6 DEF CallStep

LEMMA RunKeepsType ==
    ASSUME TInv, NEW r \in Runs,
           EnqueueRun(r) \/ MarkRunFailed(r) \/ Publish(r) \/ Lease(r) \/ AttemptStep(r) \/ Reap(r)
    PROVE  TInv'
<1> USE SubAgentsAssumption DEF TInv, TypeOK, NotYetLeased, rowVars, runVars, bounds, history,
        Goes, At
<1>1. CASE EnqueueRun(r)
  BY <1>1 DEF EnqueueRun, Enqueued, Mishap, NoRun
<1>2. CASE MarkRunFailed(r)
  BY <1>2 DEF MarkRunFailed, Enqueued, TransitionToTerminal, LeftBehind, NoRun
<1>3. CASE Publish(r)
  BY <1>3 DEF Publish, Notified
<1>4. CASE Lease(r)
  BY <1>4 DEF Lease
<1>5. CASE Reap(r)
  BY <1>5 DEF Reap, Mishap, LeftBehind
<1>6. CASE MarkRunning(r)
  BY <1>6 DEF MarkRunning
<1>7. CASE GuardPasses(r)
  BY <1>7 DEF GuardPasses
<1>8. CASE EndsEarly(r)
  BY <1>8 DEF EndsEarly, TransitionToTerminal, LeftBehind, NoRun
<1>9. CASE AttemptFails(r)
  BY <1>9 DEF AttemptFails, RetriesLeft
<1>10. ASSUME NEW kind \in Ended, Ends(r, kind) PROVE TInv'
  <2> USE <1>10 DEF Ends, NoRun
  <2>1. CASE TakesInputs(r, kind)
    BY <2>1 DEF CreateRunFromPendingInputs, CreateQueuedRun, Fresh
  <2>2. CASE ~TakesInputs(r, kind)
    BY <2>2 DEF TransitionToTerminal
  <2>3. QED
    BY <2>1, <2>2
<1>11. QED
  BY <1>1, <1>2, <1>3, <1>4, <1>5, <1>6, <1>7, <1>8, <1>9, <1>10 DEF AttemptStep

LEMMA TInvStep == TInv /\ [Next]_vars => TInv'
<1> SUFFICES ASSUME TInv, [Next]_vars PROVE TInv'
  OBVIOUS
<1> USE DEF TInv, TypeOK, NotYetLeased, rowVars, runVars, bounds, history
<1>1. CASE UNCHANGED vars
  BY <1>1 DEF vars
<1>2. ASSUME NEW m \in Runs \cup {NoRun}, CrashBehindCommit(m) PROVE TInv'
  <2> USE <1>2 DEF CrashBehindCommit
  <2>1. lost' \subseteq Runs /\ publishing' \subseteq Runs
    BY DEF OwedBy
  <2>2. /\ enq' \in [Runs -> {"none", "owed", "failed", "done"}]
        /\ maker' \in [Runs -> Runs \cup {NoRun}]
    OBVIOUS
  <2>3. mishaps' \in 0 .. MaxMishaps
    BY SubAgentsAssumption DEF Mishap
  <2>4. \A r \in Runs : enq'[r] = enq[r] \/ (enq'[r] = "done" /\ row[r] # "none")
    BY DEF OwedBy
  <2>5. NotYetLeased'
    BY <2>4
  <2>6. QED
    BY <2>1, <2>2, <2>3, <2>5
<1>3. CASE WaitLooks \/ Subscribes \/ WaitChecks \/ WaitTimesOut
  BY <1>3 DEF WaitLooks, Subscribes, WaitChecks, WaitTimesOut, NotWaiting, NoRun
<1>4. QED
  BY <1>1, <1>2, <1>3, CallKeepsType, RunKeepsType DEF Next

\* The state has the shape the declarations give it; no job exceeds its attempts.
THEOREM SubAgentTypeOK == Spec => []TypeOK
<1>1. Spec => []TInv
  BY TInvInit, TInvStep, PTL DEF Spec
<1>2. TInv => TypeOK
  BY DEF TInv
<1>3. QED
  BY <1>1, <1>2, PTL

-----------------------------------------------------------------------------
(* wait_agent.  Runs are used in order, a busy sub-agent is at its last    *)
(* run, and a listener's run is worked on, published or lost, whatever the *)
(* row says, until there is a later one.                                   *)

UsedInOrder ==
    /\ \A r \in publishing \cup lost : row[r] # "none"
    /\ \A p, q \in Runs : p < q /\ row[q] # "none" => row[p] # "none"

CurrentIsLast == Busy => \A q \in Runs : row[q] # "none" => q <= current

LaterThan(r) == \E q \in Runs : q > r /\ row[q] # "none"

WaiterShape ==
    /\ waiter.at # "idle" => waiter.run \in Runs /\ row[waiter.run] # "none"
    /\ waiter.at = "listening" =>
         waiter.run \in publishing \cup Active \cup lost \/ LaterThan(waiter.run)

Known == TInv /\ IInv

WInv == UsedInOrder /\ CurrentIsLast /\ WaiterShape

LEMMA WInvInit == Init => WInv
BY DEF Init, WInv, UsedInOrder, CurrentIsLast, WaiterShape, NotWaiting

\* Steps that use no new run and leave the waiter alone keep WInv if the rows
\* only end, and nothing else is forgotten about a run.
LEMMA QuietStep ==
    ASSUME Known, WInv,
           waiter' = waiter,
           \A r \in Runs : row'[r] = "none" <=> row[r] = "none",
           publishing' \cup lost' \subseteq Runs,
           \A r \in publishing' \cup lost' : row[r] # "none",
           Active \cup publishing \cup lost \subseteq Active' \cup publishing' \cup lost',
           Busy' => Busy /\ current' = current
    PROVE  WInv'
BY DEF Known, TInv, TypeOK, WInv, UsedInOrder, CurrentIsLast, WaiterShape, LaterThan

\* Steps that use the next run.
LEMMA NewRunStep ==
    ASSUME Known, WInv, NEW q \in Runs, Fresh(q),
           waiter' = waiter,
           current' = q,
           \A r \in Runs : row'[r] = "none" <=> row[r] = "none" /\ r # q,
           lost' = lost, publishing \subseteq publishing',
           publishing' \subseteq Runs,
           \A r \in publishing' : row[r] # "none",
           Active \subseteq Active' \cup publishing'
    PROVE  WInv'
<1> USE DEF Known, TInv, TypeOK, WInv
<1>1. \A r \in Runs : row[r] # "none" => r < q
  BY DEF UsedInOrder, Fresh, Runs
<1>2. \A r \in Runs : row'[r] # "none" => r <= q
  BY <1>1 DEF Runs
<1>3. UsedInOrder'
  BY <1>1, <1>2 DEF UsedInOrder, Fresh, Runs
<1>4. CurrentIsLast'
  BY <1>2 DEF CurrentIsLast
<1>5. WaiterShape'
  BY DEF WaiterShape, LaterThan
<1>6. QED
  BY <1>3, <1>4, <1>5

LEMMA WInvCall ==
    ASSUME Known, WInv, NEW c \in Calls, CallStep(c)
    PROVE  WInv'
<1> USE DEF Known, TInv, TypeOK, WInv, UsedInOrder, rowVars, runVars, history
<1>1. CASE Plan(c) \/ CallFails(c)
  BY <1>1, QuietStep DEF Plan, CallFails
<1>2. CASE Close(c)
  BY <1>2, QuietStep DEF Close
<1>3. ASSUME NEW q \in Runs, CreateRun(c, q) PROVE WInv'
  <2>1. \A r \in Runs : row'[r] = "none" <=> row[r] = "none" /\ r # q
    BY <1>3 DEF CreateRun
  <2>2. Active \subseteq Active'
    BY <1>3 DEF CreateRun
  <2>3. QED
    BY <1>3, <2>1, <2>2, NewRunStep DEF CreateRun, CreateQueuedRun
<1>4. ASSUME NEW r \in Runs, NEW i \in BOOLEAN, QueueInput(c, r, i) PROVE WInv'
  BY <1>4, QuietStep DEF QueueInput
<1>5. ASSUME NEW r \in Runs, Interrupt(c, r) PROVE WInv'
  BY <1>5, QuietStep DEF Interrupt
<1>6. QED
  BY <1>1, <1>2, <1>3, <1>4, <1>5 DEF CallStep

LEMMA WInvEnqueue ==
    ASSUME Known, WInv, NEW r \in Runs,
           EnqueueRun(r) \/ MarkRunFailed(r) \/ Publish(r) \/ Lease(r) \/ Reap(r)
    PROVE  WInv'
<1> USE DEF Known, TInv, TypeOK, WInv, UsedInOrder, rowVars, runVars, history
<1>1. CASE EnqueueRun(r) \/ Lease(r)
  BY <1>1, QuietStep DEF EnqueueRun, Lease
<1>2. CASE MarkRunFailed(r)
  <2>1. row[r] # "none"
    BY <1>2 DEF MarkRunFailed, NotYetLeased
  <2>2. Busy' => Busy /\ current' = current
    BY <1>2 DEF MarkRunFailed, TransitionToTerminal
  <2>3. QED
    BY <1>2, <2>1, <2>2, QuietStep DEF MarkRunFailed
<1>3. CASE Publish(r)
  <2>1. UsedInOrder' /\ CurrentIsLast'
    BY <1>3 DEF Publish, CurrentIsLast
  <2>2. WaiterShape'
    BY <1>3 DEF Publish, Notified, WaiterShape, LaterThan
  <2>3. QED
    BY <2>1, <2>2
<1>4. CASE Reap(r)
  BY <1>4, QuietStep DEF Reap
<1>5. QED
  BY <1>1, <1>2, <1>3, <1>4

LEMMA WInvAttempt ==
    ASSUME Known, WInv, NEW r \in Runs, AttemptStep(r)
    PROVE  WInv'
<1> USE DEF Known, TInv, TypeOK, WInv, UsedInOrder, rowVars, runVars, history, At, Goes
<1>0. row[r] # "none"
  BY DEF AttemptStep, MarkRunning, GuardPasses, EndsEarly, Ends, AttemptFails, NotYetLeased
<1>1. CASE MarkRunning(r)
  <2>1. Busy' => Busy
    BY <1>1, NoRunIsNoRun DEF MarkRunning, IInv, RowMatchesRun
  <2>2. QED
    BY <1>1, <2>1, QuietStep DEF MarkRunning
<1>2. CASE GuardPasses(r) \/ AttemptFails(r)
  BY <1>0, <1>2, QuietStep DEF GuardPasses, AttemptFails
<1>3. CASE EndsEarly(r)
  <2>1. Busy' => Busy /\ current' = current
    BY <1>3 DEF EndsEarly, TransitionToTerminal
  <2>2. QED
    BY <1>0, <1>3, <2>1, QuietStep DEF EndsEarly
<1>4. ASSUME NEW kind \in Ended, Ends(r, kind), TakesInputs(r, kind) PROVE WInv'
  <2>1. PICK q \in Runs : /\ Fresh(q)
                          /\ row' = [row EXCEPT ![r] = "ended", ![q] = "running"]
                          /\ CreateRunFromPendingInputs(r, q)
    BY <1>4 DEF Ends
  <2>2. q # r
    BY <1>0, <2>1 DEF Fresh
  <2>3. \A p \in Runs : row'[p] = "none" <=> row[p] = "none" /\ p # q
    BY <1>0, <2>1, <2>2
  <2>4. Active \subseteq Active' \cup publishing'
    BY <1>4, <2>1, <2>2 DEF Ends
  <2>5. QED
    BY <1>0, <1>4, <2>1, <2>3, <2>4, NewRunStep
       DEF Ends, CreateRunFromPendingInputs, CreateQueuedRun
<1>5. ASSUME NEW kind \in Ended, Ends(r, kind), ~TakesInputs(r, kind) PROVE WInv'
  <2>1. Busy' => Busy /\ current' = current
    BY <1>5 DEF Ends, TransitionToTerminal
  <2>2. QED
    BY <1>0, <1>5, <2>1, QuietStep DEF Ends
<1>6. QED
  BY <1>1, <1>2, <1>3, <1>4, <1>5 DEF AttemptStep

LEMMA WInvStep == Known /\ WInv /\ [Next]_vars => WInv'
<1> SUFFICES ASSUME Known, WInv, [Next]_vars PROVE WInv'
  OBVIOUS
<1> USE DEF Known, TInv, TypeOK, WInv, UsedInOrder, rowVars, runVars, history
<1>1. CASE UNCHANGED vars
  BY <1>1, QuietStep DEF vars
<1>2. ASSUME NEW m \in Runs \cup {NoRun}, CrashBehindCommit(m) PROVE WInv'
  <2>1. \A p \in OwedBy(m) : row[p] # "none"
    BY DEF OwedBy, NotYetLeased
  <2>2. OwedBy(m) \subseteq Runs
    BY DEF OwedBy
  <2>3. QED
    BY <1>2, <2>1, <2>2, QuietStep DEF CrashBehindCommit
<1>3. CASE WaitLooks
  <2>1. current \in Runs /\ row[current] # "none"
    BY <1>3, NoRunIsNoRun DEF WaitLooks, IInv, RowMatchesRun
  <2>2. QED
    BY <1>3, <2>1 DEF WaitLooks, CurrentIsLast, WaiterShape
<1>4. CASE Subscribes \/ WaitTimesOut
  BY <1>4 DEF Subscribes, WaitTimesOut, NotWaiting, CurrentIsLast, WaiterShape
<1>5. CASE WaitChecks
  <2>1. UsedInOrder' /\ CurrentIsLast'
    BY <1>5 DEF WaitChecks, CurrentIsLast
  <2>2. CASE Resolved
    BY <1>5, <2>1, <2>2 DEF WaitChecks, NotWaiting, WaiterShape
  <2>3. CASE ~Resolved
    <3>1. waiter.run \in Runs /\ row[waiter.run] # "none"
      BY <1>5 DEF WaitChecks, WaiterShape
    <3>2. waiter.run \in Active \cup lost \/ LaterThan(waiter.run)
      BY <2>3, <3>1, NoRunIsNoRun
         DEF Resolved, CurrentIsLast, IInv, RowMatchesRun, LaterThan, Runs
    <3>3. WaiterShape'
      BY <1>5, <2>3, <3>1, <3>2 DEF WaitChecks, WaiterShape, LaterThan
    <3>4. QED
      BY <2>1, <3>3
  <2>4. QED
    BY <2>2, <2>3
<1>6. QED
  BY <1>1, <1>2, <1>3, <1>4, <1>5, WInvCall, WInvEnqueue, WInvAttempt DEF Next

\* wait_agent misses no end while the run it listens to is the last.
THEOREM WaiterMissesNoEnd == Spec => []WaiterIsWoken
<1>1. Init => Known /\ WInv
  BY InitOK, TInvInit, WInvInit DEF Known
<1>2. Known /\ WInv /\ [Next]_vars => (Known /\ WInv)'
  BY StepOK, TInvStep, WInvStep DEF Known
<1>3. WInv => WaiterIsWoken
  BY DEF WInv, WaiterShape, WaiterIsWoken, LaterThan
<1>4. QED
  BY <1>1, <1>2, <1>3, PTL DEF Spec

-----------------------------------------------------------------------------

\* Parallel tool calls and the end of a run never give a sub-agent two runs.
THEOREM SubAgentHasOneRun == Spec => []OneActiveRun
BY Invariant, PTL DEF IInv

\* The sub-agent's row and its run agree, but for the reaper and for close.
THEOREM RowAndRunAgree == Spec => []RowMatchesRun
BY Invariant, PTL DEF IInv

\* A busy sub-agent has somebody at work on its run.
THEOREM SomebodyWorks == Spec => []BusyIsWorkedOn
BY Invariant, PTL DEF IInv

\* An input waits for a run, but for the ends that do not look.
THEOREM InputsWaitForARun == Spec => []InputsHaveARun
BY Invariant, PTL DEF IInv
=============================================================================

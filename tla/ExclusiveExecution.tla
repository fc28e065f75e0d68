------------------------- MODULE ExclusiveExecution -------------------------
(***************************************************************************)
(* What the job queue and its consumers promise together, without leases,  *)
(* tokens, locks or heartbeats: a job is tried a bounded number of times,  *)
(* executors of one run exclude each other, a job is finished only after   *)
(* one of its executions succeeded and is given up only when its tries are *)
(* used up.  Consumer implements this specification.                       *)
(***************************************************************************)
EXTENDS Integers

CONSTANTS Jobs, Runs, NoRun, RunOf, MaxAttempts, Workers, NoJob

VARIABLES phase,      \* "absent", "pending", "done" or "dead"
          tries,      \* how many times each job was handed out
          executing,  \* the job each worker executes, or NoJob
          good,       \* the jobs with a successful execution
          exposed     \* the runs whose exclusion was lost

vars == <<phase, tries, executing, good, exposed>>

Init ==
    /\ phase = [j \in Jobs |-> "absent"]
    /\ tries = [j \in Jobs |-> 0]
    /\ executing = [w \in Workers |-> NoJob]
    /\ good = {}
    /\ exposed = {}

Submit(j) ==
    /\ phase[j] = "absent"
    /\ \A k \in Jobs : phase[k] = "pending" => RunOf[j] = NoRun \/ RunOf[k] # RunOf[j]
    /\ phase' = [phase EXCEPT ![j] = "pending"]
    /\ UNCHANGED <<tries, executing, good, exposed>>

HandOut(j) ==
    /\ phase[j] = "pending"
    /\ tries[j] < MaxAttempts
    /\ tries' = [tries EXCEPT ![j] = @ + 1]
    /\ UNCHANGED <<phase, executing, good, exposed>>

Rivals(w, j) ==
    {v \in Workers : v # w /\ executing[v] # NoJob /\ RunOf[executing[v]] = RunOf[j]}

Begin(w, j) ==
    /\ executing[w] = NoJob
    /\ tries[j] > 0
    /\ RunOf[j] = NoRun \/ RunOf[j] \in exposed \/ Rivals(w, j) = {}
    /\ executing' = [executing EXCEPT ![w] = j]
    /\ UNCHANGED <<phase, tries, good, exposed>>

\* The execution ends, with success or without; a crash ends it without.
End(w) ==
    /\ executing[w] # NoJob
    /\ executing' = [executing EXCEPT ![w] = NoJob]
    /\ good' \in {good, good \cup {executing[w]}}
    /\ UNCHANGED <<phase, tries, exposed>>

Finish(j) ==
    /\ phase[j] = "pending"
    /\ j \in good
    /\ phase' = [phase EXCEPT ![j] = "done"]
    /\ UNCHANGED <<tries, executing, good, exposed>>

GiveUp(j) ==
    /\ phase[j] = "pending"
    /\ tries[j] = MaxAttempts
    /\ phase' = [phase EXCEPT ![j] = "dead"]
    /\ UNCHANGED <<tries, executing, good, exposed>>

Expose(r) ==
    /\ exposed' = exposed \cup {r}
    /\ UNCHANGED <<phase, tries, executing, good>>

Next ==
    \/ \E j \in Jobs : Submit(j) \/ HandOut(j) \/ Finish(j) \/ GiveUp(j)
    \/ \E w \in Workers : End(w) \/ \E j \in Jobs : Begin(w, j)
    \/ \E r \in Runs : Expose(r)

Spec == Init /\ [][Next]_vars
=============================================================================

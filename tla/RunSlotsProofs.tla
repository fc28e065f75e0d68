--------------------------- MODULE RunSlotsProofs ---------------------------
(***************************************************************************)
(* The invariants of RunSlots, for every number of runs and every limit.   *)
(* The counter is compared with two sets of runs: those that account for a *)
(* slot are at least as many as are counted, and those that still have     *)
(* theirs are at most as many.                                             *)
(***************************************************************************)
EXTENDS RunSlots, FiniteSetTheorems, TLAPS

USE DEF historyVars, vars

-----------------------------------------------------------------------------
(* Sets of runs.                                                           *)

LEMMA RunSets ==
    ASSUME NEW S \in SUBSET Runs
    PROVE  /\ IsFiniteSet(S)
           /\ Cardinality(S) \in Nat
BY RunSlotsAssumption, FS_Subset, FS_CardinalityType

LEMMA RunSubset ==
    ASSUME NEW S \in SUBSET Runs, NEW T \in SUBSET S
    PROVE  Cardinality(T) <= Cardinality(S)
BY RunSets, FS_Subset

LEMMA OneMore ==
    ASSUME NEW S \in SUBSET Runs, NEW r \in Runs
    PROVE  /\ Cardinality(S \cup {r}) <= Cardinality(S) + 1
           /\ r \notin S => Cardinality(S \cup {r}) = Cardinality(S) + 1
<1>1. IsFiniteSet(S) /\ Cardinality(S) \in Nat
  BY RunSets
<1>2. Cardinality(S \cup {r}) = IF r \in S THEN Cardinality(S) ELSE Cardinality(S) + 1
  BY <1>1, FS_AddElement
<1> QED BY <1>1, <1>2

LEMMA OneLess ==
    ASSUME NEW S \in SUBSET Runs, NEW r \in Runs
    PROVE  /\ Cardinality(S) <= Cardinality(S \ {r}) + 1
           /\ r \in S => Cardinality(S \ {r}) = Cardinality(S) - 1
<1>1. IsFiniteSet(S) /\ Cardinality(S) \in Nat
  BY RunSets
<1>2. Cardinality(S \ {r}) = IF r \in S THEN Cardinality(S) - 1 ELSE Cardinality(S)
  BY <1>1, FS_RemoveElement
<1> QED BY <1>1, <1>2

-----------------------------------------------------------------------------
(* Types.                                                                  *)

Phases == {"none", "admitted", "queued", "executing", "ending", "over"}

LEMMA MovesTyped ==
    ASSUME TypeOK, NEW r \in Runs, NEW from, NEW to \in Phases, Moves(r, from, to)
    PROVE  phase' \in [Runs -> Phases]
BY DEF TypeOK, Moves, Phases

LEMMA ReleaseTyped == TypeOK /\ Release => counter' \in Nat /\ counter' <= counter
BY DEF TypeOK, Release

LEMMA TypeNext == TypeOK /\ [Next]_vars => TypeOK'
<1> SUFFICES ASSUME TypeOK, [Next]_vars PROVE TypeOK'
  OBVIOUS
<1>0. MaxAttempts \in Nat
  BY RunSlotsAssumption
<1>1. CASE UNCHANGED vars
  BY <1>1 DEF TypeOK
<1>2. ASSUME NEW r \in Runs, NEW c \in Creators, Admit(r, c) PROVE TypeOK'
  BY <1>2, RunSlotsAssumption DEF Admit, Acquire, Moves, TypeOK
<1>3. ASSUME NEW r \in Runs, CreateFails(r) PROVE TypeOK'
  BY <1>3, ReleaseTyped DEF CreateFails, ClientIsGone, Forgotten, Moves, TypeOK
<1>4. ASSUME NEW r \in Runs, CreateCommits(r) PROVE TypeOK'
  BY <1>4 DEF CreateCommits, Moves, TypeOK
<1>5. ASSUME NEW r \in Runs, SchedulerReturns(r) PROVE TypeOK'
  BY <1>5, ReleaseTyped DEF SchedulerReturns, TypeOK
<1>6. ASSUME NEW r \in Runs, CreateOther(r) PROVE TypeOK'
  BY <1>6 DEF CreateOther, Moves, TypeOK
<1>7. ASSUME NEW r \in Runs, ApiCrashes(r) PROVE TypeOK'
  <2>1. CASE Forgotten(r) /\ UNCHANGED returning
    BY <1>7, <2>1 DEF ApiCrashes, Forgotten, Moves, TypeOK
  <2>2. CASE returning' = returning \ {r} /\ UNCHANGED <<creator, phase>>
    BY <1>7, <2>2 DEF ApiCrashes, TypeOK
  <2> QED BY <1>7, <2>1, <2>2 DEF ApiCrashes
<1>8. ASSUME NEW r \in Runs, RequestCancel(r) PROVE TypeOK'
  BY <1>8 DEF RequestCancel, TypeOK
<1>9. ASSUME NEW r \in Runs, Execute(r) PROVE TypeOK'
  <2>1. attempts' \in [Runs -> 0 .. MaxAttempts]
    BY <1>0, <1>9 DEF Execute, TypeOK
  <2>2. phase' \in [Runs -> Phases]
    BY <1>9, MovesTyped DEF Execute, Phases
  <2> QED BY <1>9, <2>1, <2>2 DEF Execute, TypeOK, Phases
<1>10. ASSUME NEW r \in Runs, EndsRun(r) PROVE TypeOK'
  BY <1>10 DEF EndsRun, Moves, TypeOK
<1>11. ASSUME NEW r \in Runs, ReleaseSlot(r) PROVE TypeOK'
  BY <1>11, ReleaseTyped DEF ReleaseSlot, Moves, TypeOK
<1>12. ASSUME NEW r \in Runs, AttemptFails(r) PROVE TypeOK'
  <2>1. phase' \in [Runs -> Phases]
    BY <1>12 DEF AttemptFails, Moves, TypeOK, Phases
  <2>2. counter' \in Nat /\ lost' \in Nat
    BY <1>12, ReleaseTyped DEF AttemptFails, LosesSlot, TypeOK
  <2> QED BY <1>12, <2>1, <2>2 DEF AttemptFails, TypeOK, Phases
<1>18. ASSUME NEW r \in Runs, CommitIsUnanswered(r) PROVE TypeOK'
  BY <1>18, ReleaseTyped DEF CommitIsUnanswered, Moves, TypeOK
<1>13. ASSUME NEW r \in Runs, WorkerCrashes(r) PROVE TypeOK'
  <2>1. phase' \in [Runs -> Phases]
    BY <1>13 DEF WorkerCrashes, Moves, TypeOK, Phases
  <2>2. lost' \in Nat
    BY <1>13 DEF WorkerCrashes, LosesSlot, TypeOK
  <2> QED BY <1>13, <2>1, <2>2 DEF WorkerCrashes, TypeOK, Phases
<1>14. ASSUME NEW r \in Runs, Reap(r) PROVE TypeOK'
  <2>1. status' \in [Runs -> {"none", "running", "cancelling", "ended"}]
    BY <1>14 DEF Reap, TypeOK
  <2> QED BY <1>14, <2>1 DEF Reap, TypeOK
<1>15. CASE SyncCounts
  <2>1. Cardinality(Running) \in Nat
    BY RunSets DEF Running
  <2> QED BY <1>15, <2>1 DEF SyncCounts, TypeOK
<1>16. CASE SyncFails
  BY <1>16 DEF SyncFails, Idle, TypeOK
<1>17. CASE SyncSets
  BY <1>17 DEF SyncSets, Idle, TypeOK
<1> QED
  BY <1>1, <1>2, <1>3, <1>4, <1>5, <1>6, <1>7, <1>8, <1>9, <1>10, <1>11, <1>12,
     <1>13, <1>14, <1>15, <1>16, <1>17, <1>18 DEF Next

LEMMA TypeInit == Init => TypeOK
<1>1. 0 \in 0 .. MaxAttempts
  BY RunSlotsAssumption
<1> SUFFICES ASSUME Init PROVE TypeOK
  OBVIOUS
<1>2. creator \in [Runs -> {"none", "api", "scheduler", "other"}]
  BY DEF Init
<1>3. /\ status \in [Runs -> {"none", "running", "cancelling", "ended"}]
      /\ phase \in [Runs -> {"none", "admitted", "queued", "executing", "ending",
                             "over"}]
      /\ attempts \in [Runs -> 0 .. MaxAttempts]
  BY <1>1 DEF Init
<1>4. sync \in [at : {"idle", "counting", "setting"}, count : Nat]
  BY DEF Init, Idle
<1> QED BY <1>2, <1>3, <1>4 DEF Init, TypeOK

\* The counter never falls below zero, whoever releases what: releaseScript
\* looks before it decrements, and SyncFromDB sets a count of rows.
THEOREM TypeCorrect == Spec => []TypeOK
<1> QED BY TypeInit, TypeNext, PTL DEF Spec

-----------------------------------------------------------------------------
(* Where the runs come from, and what the reaper has not touched.          *)

\* A run has a creator from its request on, a scheduler's call returns behind
\* its commit, an attempt has used a lease, and a run whose job is alive has not
\* ended.
OriginInv ==
    /\ \A r \in Runs : phase[r] = "none" => creator[r] = "none"
    /\ \A r \in Runs : phase[r] = "admitted" => creator[r] \in {"api", "scheduler"}
    /\ \A r \in returning : creator[r] = "scheduler" /\ phase[r] \notin {"none", "admitted"}
    /\ \A r \in Runs : phase[r] = "executing" => attempts[r] # 0
    /\ ~reaped => sync = Idle
    /\ ~reaped => \A r \in Runs : phase[r] \in {"queued", "executing"} => r \in Active

LEMMA OriginNext == TypeOK /\ OriginInv /\ [Next]_vars => OriginInv'
<1> SUFFICES ASSUME TypeOK, OriginInv, [Next]_vars PROVE OriginInv'
  OBVIOUS
<1>1. CASE UNCHANGED vars
  BY <1>1 DEF OriginInv, Active
<1>2. ASSUME NEW r \in Runs, NEW c \in Creators, Admit(r, c) PROVE OriginInv'
  <2>1. c \in {"api", "scheduler"}
    BY <1>2, RunSlotsAssumption DEF Admit
  <2> QED BY <1>2, <2>1 DEF Admit, Moves, TypeOK, OriginInv, Active
<1>3. ASSUME NEW r \in Runs, CreateFails(r) PROVE OriginInv'
  BY <1>3 DEF CreateFails, Forgotten, Moves, TypeOK, OriginInv, Active
<1>16. ASSUME NEW r \in Runs, CommitIsUnanswered(r) PROVE OriginInv'
  BY <1>16 DEF CommitIsUnanswered, Moves, TypeOK, OriginInv, Active
<1>4. ASSUME NEW r \in Runs, CreateCommits(r) PROVE OriginInv'
  BY <1>4 DEF CreateCommits, Moves, TypeOK, OriginInv, Active
<1>5. ASSUME NEW r \in Runs, SchedulerReturns(r) PROVE OriginInv'
  BY <1>5 DEF SchedulerReturns, TypeOK, OriginInv, Active
<1>6. ASSUME NEW r \in Runs, CreateOther(r) PROVE OriginInv'
  BY <1>6 DEF CreateOther, Moves, TypeOK, OriginInv, Active
<1>7. ASSUME NEW r \in Runs, ApiCrashes(r) PROVE OriginInv'
  <2>1. CASE Forgotten(r) /\ UNCHANGED returning
    BY <1>7, <2>1 DEF ApiCrashes, Forgotten, Moves, TypeOK, OriginInv, Active
  <2>2. CASE returning' = returning \ {r} /\ UNCHANGED <<creator, phase>>
    BY <1>7, <2>2 DEF ApiCrashes, TypeOK, OriginInv, Active
  <2> QED BY <1>7, <2>1, <2>2 DEF ApiCrashes
<1>8. ASSUME NEW r \in Runs, RequestCancel(r) PROVE OriginInv'
  BY <1>8 DEF RequestCancel, TypeOK, OriginInv, Active
<1>9. ASSUME NEW r \in Runs, Execute(r) PROVE OriginInv'
  <2>1. attempts[r] \in Nat /\ attempts'[r] = attempts[r] + 1
    BY <1>9, RunSlotsAssumption DEF Execute, TypeOK
  <2>2. \A k \in Runs \ {r} : attempts'[k] = attempts[k]
    BY <1>9 DEF Execute, TypeOK
  <2>3. attempts'[r] # 0
    BY <2>1
  <2> QED BY <1>9, <2>2, <2>3 DEF Execute, Moves, TypeOK, OriginInv, Active
<1>10. ASSUME NEW r \in Runs, EndsRun(r) PROVE OriginInv'
  BY <1>10 DEF EndsRun, Moves, TypeOK, OriginInv, Active
<1>11. ASSUME NEW r \in Runs, ReleaseSlot(r) PROVE OriginInv'
  BY <1>11 DEF ReleaseSlot, Moves, TypeOK, OriginInv, Active
<1>12. ASSUME NEW r \in Runs, AttemptFails(r) PROVE OriginInv'
  BY <1>12 DEF AttemptFails, Moves, TypeOK, OriginInv, Active
<1>13. ASSUME NEW r \in Runs, WorkerCrashes(r) PROVE OriginInv'
  BY <1>13 DEF WorkerCrashes, Moves, TypeOK, OriginInv, Active
<1>14. ASSUME NEW r \in Runs, Reap(r) PROVE OriginInv'
  BY <1>14 DEF Reap, TypeOK, OriginInv
<1>15. CASE SyncCounts \/ SyncFails \/ SyncSets
  <2>1. reaped
    BY <1>15 DEF SyncCounts, SyncFails, SyncSets, Idle, OriginInv
  <2> QED BY <1>15, <2>1 DEF SyncCounts, SyncFails, SyncSets, OriginInv
<1> QED
  BY <1>1, <1>2, <1>3, <1>4, <1>5, <1>6, <1>7, <1>8, <1>9, <1>10, <1>11, <1>12,
     <1>13, <1>14, <1>15, <1>16 DEF Next

-----------------------------------------------------------------------------
(* What is counted has a holder.                                           *)

LeaksInv == ~reaped => counter <= Cardinality(Holders) + lost

LEMMA HoldersAreRuns == TypeOK => Holders \subseteq Runs /\ Cardinality(Holders) \in Nat
<1>1. TypeOK => Holders \subseteq Runs
  BY DEF TypeOK, Holders, At
<1> QED BY <1>1, RunSets

\* No step takes more from the holders than from the counter.
HoldersKeep ==
    Holders \subseteq Holders' /\ counter' <= counter /\ lost' = lost

HolderGains ==
    \E r \in Runs :
        /\ r \notin Holders /\ Holders \cup {r} \subseteq Holders'
        /\ counter' = counter + 1 /\ lost' = lost

HolderGoes ==
    \E r \in Runs :
        /\ Holders \ {r} \subseteq Holders'
        /\ \/ Release /\ lost' = lost
           \/ counter' = counter /\ lost' = lost + 1

LEMMA HoldersStep ==
    ASSUME TypeOK, OriginInv, Next, ~reaped'
    PROVE  HoldersKeep \/ HolderGains \/ HolderGoes
<1>0. counter \in Nat /\ ~reaped
  BY DEF Next, Admit, CreateFails, CreateCommits, CommitIsUnanswered,
         SchedulerReturns, CreateOther, ApiCrashes, RequestCancel, Execute, EndsRun,
         ReleaseSlot, AttemptFails, WorkerCrashes, Reap, SyncCounts, SyncFails, SyncSets, TypeOK
<1>1. ASSUME NEW r \in Runs, NEW c \in Creators, Admit(r, c) PROVE HolderGains
  <2>1. r \notin Holders
    BY <1>1 DEF Admit, Moves, Holders, At, OriginInv
  <2>2. Holders \cup {r} \subseteq Holders'
    BY <1>1 DEF Admit, Moves, Holders, At, TypeOK
  <2> QED BY <1>1, <2>1, <2>2 DEF Admit, Acquire, HolderGains
<1>2. ASSUME NEW r \in Runs, CreateFails(r) PROVE HolderGoes
  <2>1. Holders \ {r} \subseteq Holders'
    BY <1>2 DEF CreateFails, Forgotten, Moves, Holders, At, TypeOK
  <2> QED BY <1>2, <2>1 DEF CreateFails, ClientIsGone, HolderGoes
<1>14. ASSUME NEW r \in Runs, CommitIsUnanswered(r) PROVE HolderGoes
  <2>1. Holders \ {r} \subseteq Holders'
    BY <1>14 DEF CommitIsUnanswered, Moves, Holders, At, TypeOK
  <2> QED BY <1>14, <2>1 DEF CommitIsUnanswered, HolderGoes
<1>3. ASSUME NEW r \in Runs, CreateCommits(r) PROVE HoldersKeep
  <2>1. Holders \subseteq Holders'
    BY <1>3 DEF CreateCommits, Moves, Holders, At, TypeOK, OriginInv
  <2> QED BY <1>0, <1>3, <2>1 DEF CreateCommits, HoldersKeep
<1>4. ASSUME NEW r \in Runs, SchedulerReturns(r) PROVE HolderGoes
  <2>1. Holders \ {r} \subseteq Holders'
    BY <1>4 DEF SchedulerReturns, Holders, At
  <2> QED BY <1>4, <2>1 DEF SchedulerReturns, HolderGoes
<1>5. ASSUME NEW r \in Runs, CreateOther(r) PROVE HoldersKeep
  <2>1. r \notin Holders
    BY <1>5 DEF CreateOther, Moves, Holders, At, OriginInv
  <2>2. Holders \subseteq Holders'
    BY <1>5, <2>1 DEF CreateOther, Moves, Holders, At, TypeOK
  <2> QED BY <1>0, <1>5, <2>2 DEF CreateOther, HoldersKeep
<1>6. ASSUME NEW r \in Runs, ApiCrashes(r) PROVE HolderGoes
  <2>1. CASE Forgotten(r) /\ UNCHANGED returning
    BY <1>6, <2>1 DEF ApiCrashes, Forgotten, Moves, Holders, At, TypeOK, HolderGoes
  <2>2. CASE returning' = returning \ {r} /\ UNCHANGED <<creator, phase>>
    BY <1>6, <2>2 DEF ApiCrashes, Holders, At, HolderGoes
  <2> QED BY <1>6, <2>1, <2>2 DEF ApiCrashes
<1>7. ASSUME NEW r \in Runs, RequestCancel(r) PROVE HoldersKeep
  BY <1>0, <1>7 DEF RequestCancel, Holders, At, HoldersKeep
<1>8. ASSUME NEW r \in Runs, Execute(r) PROVE HoldersKeep
  <2>1. phase[r] = "queued" /\ phase' = [phase EXCEPT ![r] = "executing"]
    BY <1>0, <1>8 DEF Execute, Moves, OriginInv
  <2>2. Holders \subseteq Holders'
    BY <1>8, <2>1 DEF Execute, Holders, At, TypeOK
  <2> QED BY <1>0, <1>8, <2>2 DEF Execute, HoldersKeep
<1>9. ASSUME NEW r \in Runs, EndsRun(r) PROVE HoldersKeep
  BY <1>0, <1>9 DEF EndsRun, Moves, Holders, At, TypeOK, HoldersKeep
<1>10. ASSUME NEW r \in Runs, ReleaseSlot(r) PROVE HolderGoes
  BY <1>10 DEF ReleaseSlot, Moves, Holders, At, TypeOK, HolderGoes
<1>11. ASSUME NEW r \in Runs, AttemptFails(r) PROVE HoldersKeep \/ HolderGoes
  <2>1. \A k \in Runs \ {r} : phase'[k] = phase[k]
    BY <1>11 DEF AttemptFails, Moves, TypeOK
  <2>2. phase[r] = "executing" /\ UNCHANGED <<creator, returning>>
    BY <1>11 DEF AttemptFails, Moves
  <2>3. Holders \ {r} \subseteq Holders'
    BY <2>1, <2>2 DEF Holders, At
  <2>4. CASE Release /\ UNCHANGED lost
    BY <2>2, <2>3, <2>4 DEF HolderGoes
  <2>5. CASE LeasesLeft(r) /\ UNCHANGED <<counter, lost>>
    <3>1. phase'[r] = "queued"
      BY <1>11, <2>5 DEF AttemptFails, Moves, TypeOK
    <3>2. Holders \subseteq Holders'
      BY <2>1, <2>2, <3>1 DEF Holders, At
    <3> QED BY <1>0, <2>2, <2>5, <3>2 DEF HoldersKeep
  <2>6. CASE LosesSlot(r) /\ UNCHANGED counter
    <3>1. CASE creator[r] = "api"
      BY <2>3, <2>6, <3>1 DEF LosesSlot, HolderGoes
    <3>2. CASE creator[r] # "api"
      <4>1. Holders \subseteq Holders'
        BY <2>1, <2>2, <3>2 DEF Holders, At
      <4> QED BY <1>0, <2>6, <3>2, <4>1 DEF LosesSlot, HoldersKeep
    <3> QED BY <3>1, <3>2
  <2> QED BY <1>11, <2>4, <2>5, <2>6 DEF AttemptFails
<1>12. ASSUME NEW r \in Runs, WorkerCrashes(r) PROVE HoldersKeep \/ HolderGoes
  <2>1. Holders \ {r} \subseteq Holders'
    BY <1>12 DEF WorkerCrashes, Moves, Holders, At, TypeOK
  <2>2. CASE creator[r] = "api"
    BY <1>12, <2>1, <2>2 DEF WorkerCrashes, LosesSlot, HolderGoes
  <2>3. CASE creator[r] # "api"
    <3>1. Holders \subseteq Holders'
      BY <1>12, <2>3 DEF WorkerCrashes, Moves, Holders, At, TypeOK
    <3> QED BY <1>0, <1>12, <2>3, <3>1 DEF WorkerCrashes, LosesSlot, HoldersKeep
  <2> QED BY <2>2, <2>3
<1>13. ~(\E r \in Runs : Reap(r)) /\ ~SyncCounts /\ ~SyncFails /\ ~SyncSets
  BY <1>0 DEF Reap, SyncCounts, SyncFails, SyncSets, Idle, OriginInv
<1> QED
  BY <1>1, <1>2, <1>3, <1>4, <1>5, <1>6, <1>7, <1>8, <1>9, <1>10, <1>11, <1>12, <1>13,
     <1>14 DEF Next

LEMMA LeaksNext == TypeOK /\ OriginInv /\ LeaksInv /\ [Next]_vars => LeaksInv'
<1> SUFFICES ASSUME TypeOK, OriginInv, LeaksInv, [Next]_vars, ~reaped'
             PROVE  counter' <= Cardinality(Holders') + lost'
  BY DEF LeaksInv
<1>1. /\ TypeOK' /\ ~reaped
  BY TypeNext
     DEF Next, Admit, CreateFails, CreateCommits, CommitIsUnanswered,
         SchedulerReturns, CreateOther, ApiCrashes, RequestCancel, Execute, EndsRun,
         ReleaseSlot, AttemptFails, WorkerCrashes, Reap, SyncCounts, SyncFails, SyncSets
<1>2. /\ counter \in Nat /\ lost \in Nat /\ counter' \in Nat
      /\ counter <= Cardinality(Holders) + lost
  BY <1>1 DEF TypeOK, LeaksInv
<1>3. Holders \subseteq Runs /\ Cardinality(Holders) \in Nat
  BY HoldersAreRuns
<1>4. Holders' \subseteq Runs /\ Cardinality(Holders') \in Nat
  <2>1. Holders' \subseteq Runs
    BY <1>1 DEF TypeOK, Holders, At
  <2> QED BY <2>1, RunSets
<1>5. CASE UNCHANGED vars
  BY <1>2, <1>5 DEF Holders, At
<1>6. CASE HoldersKeep
  <2>1. Cardinality(Holders) <= Cardinality(Holders')
    BY <1>4, <1>6, RunSubset DEF HoldersKeep
  <2> QED BY <1>2, <1>3, <1>4, <1>6, <2>1 DEF HoldersKeep
<1>7. CASE HolderGains
  <2>1. PICK r \in Runs : r \notin Holders /\ Holders \cup {r} \subseteq Holders'
    BY <1>7 DEF HolderGains
  <2>2. Cardinality(Holders \cup {r}) = Cardinality(Holders) + 1
    BY <1>3, <2>1, OneMore
  <2>3. Cardinality(Holders \cup {r}) <= Cardinality(Holders')
    BY <1>4, <2>1, RunSubset
  <2> QED BY <1>2, <1>3, <1>4, <1>7, <2>2, <2>3 DEF HolderGains
<1>8. CASE HolderGoes
  <2>1. PICK r \in Runs :
          /\ Holders \ {r} \subseteq Holders'
          /\ \/ Release /\ lost' = lost
             \/ counter' = counter /\ lost' = lost + 1
    BY <1>8 DEF HolderGoes
  <2>2. Cardinality(Holders) <= Cardinality(Holders \ {r}) + 1
    BY <1>3, OneLess
  <2>3. /\ Cardinality(Holders \ {r}) <= Cardinality(Holders')
        /\ Cardinality(Holders \ {r}) \in Nat
    BY <1>3, <1>4, <2>1, RunSubset, RunSets
  <2>4. counter' + lost <= counter - 1 + lost' \/ (counter' = 0 /\ lost' = lost)
    BY <1>2, <2>1 DEF Release
  <2> QED BY <1>2, <1>3, <1>4, <2>1, <2>2, <2>3, <2>4
<1> QED BY <1>1, <1>5, <1>6, <1>7, <1>8, HoldersStep

LEMMA SlotsShaped == Spec => [](TypeOK /\ OriginInv /\ LeaksInv)
<1>1. Init => OriginInv
  BY DEF Init, OriginInv, Active
<1>2. Init => LeaksInv
  <2> SUFFICES ASSUME Init PROVE LeaksInv
    OBVIOUS
  <2>1. TypeOK
    BY TypeInit
  <2> QED BY <2>1, HoldersAreRuns DEF Init, LeaksInv
<1> QED BY <1>1, <1>2, TypeInit, TypeNext, OriginNext, LeaksNext, PTL DEF Spec

\* As many releases are to come as slots are counted, but for those that never
\* reached Redis: whoever leaves the holders takes one from the counter or is
\* booked as lost.
THEOREM SlotsAreHeld == Spec => []NoSlotLeaks
<1>1. LeaksInv => NoSlotLeaks
  BY DEF LeaksInv, NoSlotLeaks
<1> QED BY <1>1, SlotsShaped, PTL

-----------------------------------------------------------------------------
(* The limit.                                                              *)

\* OnlyFirstAttempts, and requests of the scheduler besides, which take a slot
\* and give it back when they come to nothing.  Once it is false it stays so.
FirstsOnly ==
    \A r \in Runs : /\ creator[r] \in {"none", "api"} \/ phase[r] = "admitted"
                    /\ attempts[r] <= 1

\* The runs that still have the slot of their admission.
Held ==
    {r \in Runs : \/ phase[r] \in {"admitted", "executing", "ending"}
                  \/ phase[r] = "queued" /\ attempts[r] = 0}

LimitInv ==
    ~reaped => /\ counter <= Limit
               /\ FirstsOnly => Cardinality(Held) <= counter

LEMMA FirstsOnlyBefore ==
    ASSUME TypeOK, OriginInv, Next, FirstsOnly'
    PROVE  FirstsOnly
<1>1. \A r \in Runs : creator'[r] # creator[r] => phase[r] \in {"none", "admitted"}
  BY DEF TypeOK, Next, Admit, CreateFails, CreateCommits, CommitIsUnanswered,
         SchedulerReturns, CreateOther, ApiCrashes, RequestCancel, Execute, EndsRun,
         ReleaseSlot, AttemptFails, WorkerCrashes, Reap, SyncCounts, SyncFails, SyncSets,
         Forgotten, Moves
<1>2. \A r \in Runs : phase'[r] = "admitted" => phase[r] \in {"none", "admitted"}
  BY DEF TypeOK, Next, Admit, CreateFails, CreateCommits, CommitIsUnanswered,
         SchedulerReturns, CreateOther, ApiCrashes, RequestCancel, Execute, EndsRun,
         ReleaseSlot, AttemptFails, WorkerCrashes, Reap, SyncCounts, SyncFails, SyncSets,
         Forgotten, Moves
<1>3. \A r \in Runs : attempts'[r] = attempts[r] \/ attempts'[r] = attempts[r] + 1
  BY DEF TypeOK, Next, Admit, CreateFails, CreateCommits, CommitIsUnanswered,
         SchedulerReturns, CreateOther, ApiCrashes, RequestCancel, Execute, EndsRun,
         ReleaseSlot, AttemptFails, WorkerCrashes, Reap, SyncCounts, SyncFails, SyncSets
<1>4. SUFFICES ASSUME NEW r \in Runs
               PROVE  /\ creator[r] \in {"none", "api"} \/ phase[r] = "admitted"
                      /\ attempts[r] <= 1
  BY DEF FirstsOnly
<1>5. attempts[r] <= 1
  <2>1. attempts[r] \in Nat /\ attempts'[r] <= 1
    BY RunSlotsAssumption DEF TypeOK, FirstsOnly
  <2> QED BY <1>3, <2>1
<1>6. CASE phase[r] = "none"
  BY <1>5, <1>6 DEF OriginInv
<1>7. CASE phase[r] \notin {"none", "admitted"}
  <2>1. creator'[r] = creator[r] /\ phase'[r] # "admitted"
    BY <1>1, <1>2, <1>7
  <2> QED BY <1>5, <2>1 DEF FirstsOnly
<1> QED BY <1>5, <1>6, <1>7

HeldKeeps == Held' \subseteq Held /\ counter' = counter

HeldGains ==
    \E r \in Runs : Held' \subseteq Held \cup {r} /\ counter < Limit /\ counter' = counter + 1

HeldGoes ==
    \E r \in Held : Held' \subseteq Held \ {r} /\ Release

\* While only first attempts of API runs are about, a slot is released by a run
\* that has one.
LEMMA HeldStep ==
    ASSUME TypeOK, OriginInv, Next, ~reaped, ~reaped', FirstsOnly, FirstsOnly'
    PROVE  HeldKeeps \/ HeldGains \/ HeldGoes
<1>1. ASSUME NEW r \in Runs, NEW c \in Creators, Admit(r, c) PROVE HeldGains
  <2>1. Held' \subseteq Held \cup {r}
    BY <1>1 DEF Admit, Moves, Held, TypeOK
  <2> QED BY <1>1, <2>1 DEF Admit, Acquire, HeldGains
<1>2. ASSUME NEW r \in Runs, CreateFails(r) PROVE HeldKeeps \/ HeldGoes
  <2>1. r \in Held /\ Held' \subseteq Held \ {r}
    BY <1>2 DEF CreateFails, Forgotten, Moves, Held, TypeOK
  <2> QED BY <1>2, <2>1 DEF CreateFails, ClientIsGone, HeldKeeps, HeldGoes
<1>14. ASSUME NEW r \in Runs, CommitIsUnanswered(r) PROVE FALSE
  <2>1. creator'[r] = "other" /\ phase'[r] = "queued"
    BY <1>14 DEF CommitIsUnanswered, Moves, TypeOK
  <2> QED BY <2>1 DEF FirstsOnly
<1>3. ASSUME NEW r \in Runs, CreateCommits(r) PROVE HeldKeeps
  BY <1>3 DEF CreateCommits, Moves, Held, TypeOK, HeldKeeps
<1>4. ASSUME NEW r \in Runs, SchedulerReturns(r) PROVE FALSE
  BY <1>4 DEF SchedulerReturns, OriginInv, FirstsOnly
<1>5. ASSUME NEW r \in Runs, CreateOther(r) PROVE FALSE
  <2>1. creator'[r] = "other" /\ phase'[r] = "queued"
    BY <1>5 DEF CreateOther, Moves, TypeOK
  <2> QED BY <2>1 DEF FirstsOnly
<1>6. ASSUME NEW r \in Runs, ApiCrashes(r) PROVE HeldKeeps
  <2>1. CASE Forgotten(r) /\ UNCHANGED returning
    BY <1>6, <2>1 DEF ApiCrashes, Forgotten, Moves, Held, TypeOK, HeldKeeps
  <2>2. CASE returning' = returning \ {r} /\ UNCHANGED <<creator, phase>>
    BY <1>6, <2>2 DEF ApiCrashes, Held, HeldKeeps
  <2> QED BY <1>6, <2>1, <2>2 DEF ApiCrashes
<1>7. ASSUME NEW r \in Runs, RequestCancel(r) PROVE HeldKeeps
  BY <1>7 DEF RequestCancel, Held, HeldKeeps
<1>8. ASSUME NEW r \in Runs, Execute(r) PROVE HeldKeeps
  <2>1. attempts'[r] = attempts[r] + 1 /\ attempts'[r] <= 1 /\ attempts[r] \in Nat
    BY <1>8, RunSlotsAssumption DEF Execute, TypeOK, FirstsOnly
  <2>2. phase[r] = "queued" /\ attempts[r] = 0
    BY <1>8, <2>1 DEF Execute, Moves
  <2>3. \A k \in Runs \ {r} : phase'[k] = phase[k] /\ attempts'[k] = attempts[k]
    BY <1>8 DEF Execute, Moves, TypeOK
  <2>4. Held' \subseteq Held
    BY <2>2, <2>3 DEF Held
  <2> QED BY <1>8, <2>4 DEF Execute, HeldKeeps
<1>9. ASSUME NEW r \in Runs, EndsRun(r) PROVE HeldKeeps
  BY <1>9 DEF EndsRun, Moves, Held, TypeOK, HeldKeeps
<1>10. ASSUME NEW r \in Runs, ReleaseSlot(r) PROVE HeldGoes
  <2>1. r \in Held /\ Held' \subseteq Held \ {r}
    BY <1>10 DEF ReleaseSlot, Moves, Held, TypeOK
  <2> QED BY <1>10, <2>1 DEF ReleaseSlot, HeldGoes
<1>11. ASSUME NEW r \in Runs, AttemptFails(r) PROVE HeldKeeps \/ HeldGoes
  <2>1. /\ phase[r] = "executing" /\ phase'[r] \in {"queued", "over"}
        /\ \A k \in Runs \ {r} : phase'[k] = phase[k]
        /\ UNCHANGED attempts
        /\ Release \/ UNCHANGED counter
    BY <1>11 DEF AttemptFails, Moves, TypeOK
  <2>2. attempts[r] # 0
    BY <2>1 DEF OriginInv
  <2>3. r \in Held /\ Held' \subseteq Held \ {r}
    BY <2>1, <2>2 DEF Held
  <2> QED BY <2>1, <2>3 DEF HeldKeeps, HeldGoes
<1>12. ASSUME NEW r \in Runs, WorkerCrashes(r) PROVE HeldKeeps
  BY <1>12 DEF WorkerCrashes, Moves, Held, TypeOK, HeldKeeps
<1>13. ~(\E r \in Runs : Reap(r)) /\ ~SyncCounts /\ ~SyncFails /\ ~SyncSets
  BY DEF Reap, SyncCounts, SyncFails, SyncSets, Idle, OriginInv
<1> QED
  BY <1>1, <1>2, <1>3, <1>4, <1>5, <1>6, <1>7, <1>8, <1>9, <1>10, <1>11, <1>12, <1>13,
     <1>14 DEF Next

LEMMA LimitNext == TypeOK /\ OriginInv /\ LimitInv /\ [Next]_vars => LimitInv'
<1> SUFFICES ASSUME TypeOK, OriginInv, LimitInv, [Next]_vars, ~reaped'
             PROVE  /\ counter' <= Limit
                    /\ FirstsOnly' => Cardinality(Held') <= counter'
  BY DEF LimitInv
<1>0. Limit \in Nat
  BY RunSlotsAssumption
<1>1. TypeOK' /\ ~reaped
  BY TypeNext
     DEF Next, Admit, CreateFails, CreateCommits, CommitIsUnanswered,
         SchedulerReturns, CreateOther, ApiCrashes, RequestCancel, Execute, EndsRun,
         ReleaseSlot, AttemptFails, WorkerCrashes, Reap, SyncCounts, SyncFails, SyncSets
<1>2. /\ counter \in Nat /\ counter' \in Nat /\ counter <= Limit
      /\ FirstsOnly => Cardinality(Held) <= counter
  BY <1>1 DEF TypeOK, LimitInv
<1>3. CASE UNCHANGED vars
  BY <1>2, <1>3 DEF Held, FirstsOnly
<1>4. CASE Next
  <2>1. counter' <= Limit
    <3>1. counter' = counter \/ Acquire \/ Release
      BY <1>1, <1>4
         DEF Next, Admit, CreateFails, CreateCommits, CommitIsUnanswered,
             SchedulerReturns, CreateOther, ApiCrashes, RequestCancel, Execute, EndsRun,
             ReleaseSlot, AttemptFails, WorkerCrashes, Reap, SyncCounts, SyncFails,
             SyncSets, OriginInv, Idle, ClientIsGone
    <3>2. Acquire => counter' <= Limit
      BY <1>0, <1>2 DEF Acquire
    <3>3. Release => counter' <= Limit
      BY <1>0, <1>2 DEF Release
    <3> QED BY <1>2, <3>1, <3>2, <3>3
  <2>2. ASSUME FirstsOnly' PROVE Cardinality(Held') <= counter'
    <3>1. FirstsOnly /\ Cardinality(Held) <= counter
      BY <1>2, <1>4, <2>2, FirstsOnlyBefore
    <3>2. Held \subseteq Runs /\ Held' \subseteq Runs
      BY DEF Held
    <3>3. Cardinality(Held) \in Nat /\ Cardinality(Held') \in Nat
      BY <3>2, RunSets
    <3>4. CASE HeldKeeps
      <4>1. Cardinality(Held') <= Cardinality(Held)
        BY <3>2, <3>4, RunSubset DEF HeldKeeps
      <4> QED BY <1>2, <3>1, <3>3, <3>4, <4>1 DEF HeldKeeps
    <3>5. CASE HeldGains
      <4>1. PICK r \in Runs : Held' \subseteq Held \cup {r} /\ counter' = counter + 1
        BY <3>5 DEF HeldGains
      <4>2. Cardinality(Held') <= Cardinality(Held \cup {r})
        BY <3>2, <4>1, RunSubset
      <4>3. Cardinality(Held \cup {r}) <= Cardinality(Held) + 1
        BY <3>2, OneMore
      <4>4. Cardinality(Held \cup {r}) \in Nat
        BY <3>2, RunSets
      <4> QED BY <1>2, <3>1, <3>3, <4>1, <4>2, <4>3, <4>4
    <3>6. CASE HeldGoes
      <4>1. PICK r \in Held : Held' \subseteq Held \ {r} /\ Release
        BY <3>6 DEF HeldGoes
      <4>2. Cardinality(Held') <= Cardinality(Held \ {r})
        BY <3>2, <4>1, RunSubset
      <4>3. Cardinality(Held \ {r}) = Cardinality(Held) - 1
        BY <3>2, OneLess
      <4>4. Cardinality(Held') <= counter - 1
        BY <1>2, <3>1, <3>3, <4>2, <4>3
      <4>5. counter' = counter - 1
        BY <1>2, <3>3, <4>1, <4>4 DEF Release
      <4> QED BY <4>4, <4>5
    <3> QED BY <1>1, <1>4, <2>2, <3>1, <3>4, <3>5, <3>6, HeldStep
  <2> QED BY <2>1, <2>2
<1> QED BY <1>3, <1>4

\* The admission script compares and counts in one step, so while no slot was
\* given back twice the runs that execute are at most Limit.
THEOREM LimitIsKept == Spec => []LimitKept
<1>1. Init => LimitInv
  <2> SUFFICES ASSUME Init PROVE LimitInv
    OBVIOUS
  <2>1. Held = {} /\ counter = 0
    BY DEF Init, Held
  <2>2. Cardinality(Held) = 0
    BY <2>1, FS_EmptySet
  <2> QED BY <2>1, <2>2, RunSlotsAssumption DEF LimitInv
<1>2. TypeOK /\ OriginInv /\ LimitInv => LimitKept
  <2> SUFFICES ASSUME TypeOK, OriginInv, LimitInv, ~reaped, OnlyFirstAttempts
               PROVE  Cardinality(At("executing")) <= Limit
    BY DEF LimitKept
  <2>1. Cardinality(Held) <= counter /\ counter <= Limit
    BY DEF LimitInv, OnlyFirstAttempts, FirstsOnly
  <2>2. At("executing") \subseteq Held /\ Held \subseteq Runs
    BY DEF At, Held
  <2>3. Cardinality(At("executing")) <= Cardinality(Held)
    BY <2>2, RunSubset
  <2>4. Cardinality(At("executing")) \in Nat /\ Cardinality(Held) \in Nat
    BY <2>2, RunSets
  <2> QED BY <2>1, <2>3, <2>4, RunSlotsAssumption DEF TypeOK
<1> QED BY <1>1, <1>2, SlotsShaped, LimitNext, PTL DEF Spec
=============================================================================

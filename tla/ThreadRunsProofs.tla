-------------------------- MODULE ThreadRunsProofs --------------------------
(***************************************************************************)
(* Proofs about ThreadRuns, for any number of slots, callbacks and         *)
(* workers: its types, which runs share a thread, and that a waiting       *)
(* callback is watched.                                                    *)
(*                                                                         *)
(* OnlyLateRunsShare is not inductive: a claim looks at the newest run     *)
(* alone and acts later.  Order adds what that look shows: the order of    *)
(* created_at is one, a run that was inserted as the newest sorts behind   *)
(* the heartbeat, and what a claim has seen stays true while it holds the  *)
(* thread's row.                                                           *)
(***************************************************************************)
EXTENDS ThreadRuns, TLAPS

\* Of two active runs one is older.
OrderIsOne ==
    \A r, q \in Runs : Active(r) /\ Active(q) /\ r \in older[q] => q \notin older[r]

\* A heartbeat is claimed on an idle thread, so a run beside it was inserted later.
HeartbeatIsOlder ==
    \A r, q \in Runs :
        /\ Active(r) /\ Active(q) /\ r # q
        /\ kind[r] = "heartbeat" /\ q \notin late
        => r \in older[q]

\* Beside a callback run a claim has seen there is none, and beside a heartbeat late
\* runs only.
ClaimHasSeen ==
    /\ claim # NoClaim /\ claim.active = NoRun => ThreadIsIdle
    /\ \A q, r \in Runs :
         claim.active = q /\ Active(r) /\ r # q
         => /\ kind[q] # "callback"
            /\ kind[q] = "heartbeat" =>
                 r \in late /\ kind[r] # "heartbeat" /\ kind[r] # "callback"

Order == OnlyLateRunsShare /\ OrderIsOne /\ HeartbeatIsOlder /\ ClaimHasSeen

-----------------------------------------------------------------------------
LEMMA IdleIsHook == Idle \in Hooks
  BY DEF Idle, Hooks

LEMMA MishapType ==
  ASSUME mishaps \in 0 .. MaxMishaps, Mishap
  PROVE  mishaps' \in 0 .. MaxMishaps
  BY ThreadRunsAssumption DEF Mishap

LEMMA InitTypes == Init => TypeOK
<1> SUFFICES ASSUME Init
             PROVE  TypeOK
  OBVIOUS
<1>1. hook \in [Workers -> Hooks]
  BY IdleIsHook DEF Init
<1>2. claim \in [kind : {"none", "normal", "heartbeat"}, active : Runs \cup {NoRun}]
  BY DEF Init, NoClaim
<1>3. mishaps \in 0 .. MaxMishaps
  BY ThreadRunsAssumption DEF Init
<1> QED
  BY <1>1, <1>2, <1>3 DEF Init, TypeOK

LEMMA InsertTypes ==
  ASSUME TypeOK, NEW r \in Runs, NEW new \in {"none", "normal", "heartbeat", "callback"},
         NEW c \in Callbacks \cup {NoCallback}, NEW place \in {"none", "queued"},
         NEW changed \in [Runs -> {"none", "running", "cancelling", "completed", "ended"}],
         InsertRun(r, new, c, place, changed)
  PROVE  /\ kind' \in [Runs -> {"none", "normal", "heartbeat", "callback"}]
         /\ status' \in [Runs -> {"none", "running", "cancelling", "completed", "ended"}]
         /\ older' \in [Runs -> SUBSET Runs]
         /\ late' \subseteq Runs
         /\ target' \in [Runs -> Callbacks \cup {NoCallback}]
         /\ job' \in [Runs -> {"none", "queued", "working"}]
         /\ shown' \in [Runs -> SUBSET Callbacks]
<1>1. PICK before \in SUBSET Runs :
        /\ \E others \in SUBSET Runs :
             older' = [q \in Runs |-> IF q = r THEN before
                                     ELSE IF q \in others \ before THEN older[q] \cup {r}
                                     ELSE older[q] \ {r}]
        /\ late' \in {late \ {r}, late \cup {r}}
  BY DEF InsertRun, Places
<1>2. older' \in [Runs -> SUBSET Runs] /\ late' \subseteq Runs
  BY <1>1 DEF TypeOK
<1> QED
  BY <1>2 DEF InsertRun, TypeOK

LEMMA StepTypes == TypeOK /\ [Next]_vars => TypeOK'
<1> SUFFICES ASSUME TypeOK, [Next]_vars
             PROVE  TypeOK'
  OBVIOUS
<1> USE DEF TypeOK, runVars
<1>1. ASSUME NEW new \in {"normal", "heartbeat"}, ClaimLooks(new)
      PROVE  TypeOK'
  BY <1>1 DEF ClaimLooks, Newest
<1>0. NoClaim \in [kind : {"none", "normal", "heartbeat"}, active : Runs \cup {NoRun}]
  BY DEF NoClaim
<1>2. ASSUME NEW r \in Runs, NEW changed, Creates(r, changed),
             changed \in [Runs -> {"none", "running", "cancelling", "completed", "ended"}],
             cb' \in [Callbacks -> {"none", "pending", "old", "consumed"}],
             wakeup' \in {"kept", "missed"}
      PROVE  TypeOK'
  <2>1. InsertRun(r, claim.kind, NoCallback, "queued", changed)
    BY <1>2 DEF Creates
  <2>2. claim.kind \in {"none", "normal", "heartbeat", "callback"}
    OBVIOUS
  <2>3. /\ kind' \in [Runs -> {"none", "normal", "heartbeat", "callback"}]
        /\ status' \in [Runs -> {"none", "running", "cancelling", "completed", "ended"}]
        /\ older' \in [Runs -> SUBSET Runs]
        /\ late' \subseteq Runs
        /\ target' \in [Runs -> Callbacks \cup {NoCallback}]
        /\ job' \in [Runs -> {"none", "queued", "working"}]
        /\ shown' \in [Runs -> SUBSET Callbacks]
    BY <1>2, <2>1, <2>2, InsertTypes
  <2> QED
    BY <1>0, <1>2, <2>3 DEF Creates
<1>3. ASSUME NEW r \in Runs, ClaimIdle(r)
      PROVE  TypeOK'
  BY <1>2, <1>3 DEF ClaimIdle
<1>4. ASSUME NEW r \in Runs, NEW q \in Runs,
             \/ ClaimSupersedes(r, q)
             \/ ClaimBesideHeartbeat(r, q)
             \/ ClaimCancelsHeartbeat(r, q)
      PROVE  TypeOK'
  <2>1. /\ [status EXCEPT ![q] = "ended"]
             \in [Runs -> {"none", "running", "cancelling", "completed", "ended"}]
        /\ [status EXCEPT ![q] = "cancelling"]
             \in [Runs -> {"none", "running", "cancelling", "completed", "ended"}]
    OBVIOUS
  <2>2. CASE ClaimSupersedes(r, q)
    <3>1. cb' \in [Callbacks -> {"none", "pending", "old", "consumed"}]
      BY <2>2 DEF ClaimSupersedes
    <3>2. wakeup' \in {"kept", "missed"}
      BY <2>2 DEF ClaimSupersedes
    <3>3. CASE Active(q)
      BY <1>2, <2>1, <2>2, <3>1, <3>2, <3>3 DEF ClaimSupersedes
    <3>4. CASE ~Active(q)
      BY <1>2, <2>2, <3>1, <3>2, <3>4 DEF ClaimSupersedes
    <3> QED
      BY <3>3, <3>4
  <2>3. CASE ClaimBesideHeartbeat(r, q)
    BY <1>2, <2>3 DEF ClaimBesideHeartbeat
  <2>4. CASE ClaimCancelsHeartbeat(r, q)
    <3>1. CASE Active(q)
      BY <1>2, <2>1, <2>4, <3>1 DEF ClaimCancelsHeartbeat
    <3>2. CASE ~Active(q)
      BY <1>2, <2>4, <3>2 DEF ClaimCancelsHeartbeat
    <3> QED
      BY <3>1, <3>2
  <2> QED
    BY <1>4, <2>2, <2>3, <2>4
<1>5. CASE ClaimFails
  BY <1>0, <1>5 DEF ClaimFails
<1>6. ASSUME NEW r \in Runs, RunStep(r) \/ RequestCancel(r) \/ AttemptIsLost(r)
      PROVE  TypeOK'
  <2>0. AfterEnd \in Hooks
    BY DEF AfterEnd, Hooks
  <2>1. CASE Starts(r)
    BY <2>1 DEF Starts, Goes, Visible, Pending
  <2>2. CASE EndsEarly(r)
    BY <2>2 DEF EndsEarly, Goes
  <2>3. CASE Completes(r)
    BY <2>0, <2>3 DEF Completes, Commits, Goes, Behind
  <2>4. CASE Fails(r)
    BY <2>0, <2>4 DEF Fails, Commits, Goes, Behind
  <2>5. CASE Stops(r)
    BY <2>5 DEF Stops, Goes
  <2>6. CASE Reap(r)
    BY <2>6 DEF Reap
  <2>7. CASE RequestCancel(r)
    BY <2>7 DEF RequestCancel
  <2>8. CASE AttemptIsLost(r)
    BY <2>8, MishapType DEF AttemptIsLost, Goes
  <2> QED
    BY <1>6, <2>1, <2>2, <2>3, <2>4, <2>5, <2>6, <2>7, <2>8 DEF RunStep
<1>7. ASSUME NEW c \in Callbacks, ChildEnds(c) \/ Ages(c)
      PROVE  TypeOK'
  <2>1. [at |-> "create", cb |-> c, run |-> NoRun] \in Hooks
    BY DEF Hooks
  <2> QED
    BY <1>7, <2>1 DEF ChildEnds, Ages, Behind
<1>8. ASSUME NEW w \in Workers,
             HookStep(w) \/ HookFailsToEnqueue(w) \/ HookIsLost(w)
      PROVE  TypeOK'
  <2>0. \A r \in Runs \cup {NoRun}, c \in Callbacks \cup {NoCallback},
           at \in {"relist", "create", "create next", "enqueue", "enqueue next"} :
           [at |-> at, cb |-> c, run |-> r] \in Hooks
    BY DEF Hooks
  <2>c. hook[w].cb \in Callbacks \cup {NoCallback}
    BY DEF Hooks
  <2>1. CASE HookLists(w)
    <3>1. hook' \in [Workers -> Hooks]
      <4>1. CASE hook' = [hook EXCEPT ![w] = Idle]
        BY <4>1, IdleIsHook
      <4>2. ASSUME NEW c \in Callbacks, NEW at \in {"create", "create next"},
                   hook' = [hook EXCEPT ![w] = [at |-> at, cb |-> c, run |-> NoRun]]
            PROVE  hook' \in [Workers -> Hooks]
        BY <2>0, <4>2
      <4> QED
        BY <2>1, <4>1, <4>2 DEF HookLists, Pending, Oldest
    <3> QED
      BY <2>1, <3>1 DEF HookLists
  <2>2. CASE HookFindsBusy(w)
    BY <2>2, IdleIsHook DEF HookFindsBusy
  <2>3. ASSUME NEW r \in Runs, HookCreates(w, r)
        PROVE  TypeOK'
    <3>1. hook' \in [Workers -> Hooks]
      BY <2>0, <2>c, <2>3 DEF HookCreates
    <3>2. InsertRun(r, "callback", hook[w].cb, "none", status)
      BY <2>3 DEF HookCreates
    <3>3. /\ kind' \in [Runs -> {"none", "normal", "heartbeat", "callback"}]
          /\ status' \in [Runs -> {"none", "running", "cancelling", "completed", "ended"}]
          /\ older' \in [Runs -> SUBSET Runs]
          /\ late' \subseteq Runs
          /\ target' \in [Runs -> Callbacks \cup {NoCallback}]
          /\ job' \in [Runs -> {"none", "queued", "working"}]
          /\ shown' \in [Runs -> SUBSET Callbacks]
      BY <2>c, <3>2, InsertTypes
    <3> QED
      BY <2>3, <3>1, <3>3 DEF HookCreates
  <2>4. CASE HookEnqueues(w)
    BY <2>4, IdleIsHook DEF HookEnqueues, Goes
  <2>5. CASE HookFailsToEnqueue(w)
    <3>1. hook' \in [Workers -> Hooks]
      BY <2>0, <2>c, <2>5, IdleIsHook DEF HookFailsToEnqueue
    <3>2. status' \in {status, [status EXCEPT ![hook[w].run] = "ended"]}
      <4>1. CASE status[hook[w].run] = "running"
        BY <2>5, <4>1 DEF HookFailsToEnqueue
      <4>2. CASE status[hook[w].run] # "running"
        BY <2>5, <4>2 DEF HookFailsToEnqueue
      <4> QED
        BY <4>1, <4>2
    <3>3. wakeup' \in {"kept", "missed"}
      <4>1. CASE status[hook[w].run] = "running"
        BY <2>5, <4>1 DEF HookFailsToEnqueue
      <4>2. CASE status[hook[w].run] # "running"
        BY <2>5, <4>2 DEF HookFailsToEnqueue
      <4> QED
        BY <4>1, <4>2
    <3>4. mishaps' \in 0 .. MaxMishaps
      BY <2>5, MishapType DEF HookFailsToEnqueue
    <3> QED
      BY <2>5, <3>1, <3>2, <3>3, <3>4 DEF HookFailsToEnqueue
  <2>6. CASE HookIsLost(w)
    BY <2>6, IdleIsHook, MishapType DEF HookIsLost
  <2> QED
    BY <1>8, <2>1, <2>2, <2>3, <2>4, <2>5, <2>6 DEF HookStep
<1>9. CASE UNCHANGED vars
  BY <1>9 DEF vars
<1> QED
  BY <1>1, <1>2, <1>3, <1>4, <1>5, <1>6, <1>7, <1>8, <1>9 DEF Next, ClaimEnds

\* Types: the state never leaves the sets its variables are declared in.
THEOREM ThreadTypes == Spec => []TypeOK
  BY InitTypes, StepTypes, PTL DEF Spec

-----------------------------------------------------------------------------
LEMMA InitOrder == Init => Order
  BY ThreadRunsAssumption
     DEF Init, Order, OnlyLateRunsShare, OrderIsOne, HeartbeatIsOlder, ClaimHasSeen, Active,
         NoClaim, ThreadIsIdle

\* Nothing is lost while runs only end.
LEMMA EndsKeepOrder ==
  ASSUME Order,
         UNCHANGED <<kind, older, late>>,
         claim' = claim \/ claim' = NoClaim,
         \A r \in Runs : Active(r)' => Active(r)
  PROVE  Order'
<1>1. OnlyLateRunsShare' /\ OrderIsOne' /\ HeartbeatIsOlder'
  BY DEF Order, OnlyLateRunsShare, OrderIsOne, HeartbeatIsOlder
<1>2. ClaimHasSeen'
  <2>1. CASE claim' = claim
    BY <2>1 DEF Order, ClaimHasSeen, ThreadIsIdle
  <2>2. CASE claim' = NoClaim
    BY <2>2, ThreadRunsAssumption DEF ClaimHasSeen, NoClaim
  <2> QED
    BY <2>1, <2>2
<1> QED
  BY <1>1, <1>2 DEF Order

\* A new run keeps the order in an idle thread, and beside a heartbeat and late runs
\* if it is a normal run.
LEMMA InsertKeepsOrder ==
  ASSUME TypeOK, Order,
         NEW r \in Runs, NEW new, NEW c, NEW place, NEW changed,
         changed \in [Runs -> {"none", "running", "cancelling", "completed", "ended"}],
         InsertRun(r, new, c, place, changed),
         claim' = NoClaim,
         \A p \in Runs : changed[p] \in {"running", "cancelling"} =>
             /\ Active(p)
             /\ new # "heartbeat" /\ new # "callback"
             /\ \/ kind[p] = "heartbeat"
                \/ p \in late /\ kind[p] # "callback"
  PROVE  Order'
<1> DEFINE others == {p \in Runs : changed[p] \in {"running", "cancelling"}}
<1>1. PICK before \in Places(others) :
        /\ older' = [q \in Runs |-> IF q = r THEN before
                                    ELSE IF q \in others \ before THEN older[q] \cup {r}
                                    ELSE older[q] \ {r}]
        /\ late' = IF before = others THEN late \ {r} ELSE late \cup {r}
  BY DEF InsertRun
<1>2. /\ ~Active(r)
      /\ kind' = [kind EXCEPT ![r] = new]
      /\ status' = [changed EXCEPT ![r] = "running"]
  BY DEF InsertRun, Free
<1>3. \A p \in Runs : Active(p)' /\ p # r =>
          /\ p \in others /\ Active(p)
          /\ kind'[p] = kind[p]
          /\ p \in late' <=> p \in late
          /\ new # "heartbeat" /\ new # "callback"
          /\ \/ kind[p] = "heartbeat"
             \/ p \in late /\ kind[p] # "callback"
  BY <1>1, <1>2 DEF Active, TypeOK
<1>4. kind'[r] = new
  BY <1>2 DEF TypeOK
<1>5. before \subseteq others /\ r \notin before
  BY <1>2 DEF Places, Active
<1>6. /\ older'[r] = before
      /\ \A p \in Runs \ {r} : /\ \A q \in Runs \ {r} : q \in older'[p] <=> q \in older[p]
                               /\ r \in older'[p] <=> p \in others \ before
  BY <1>1
<1>7. before # others => r \in late'
  BY <1>1
<1> HIDE DEF others
<1>8. OnlyLateRunsShare'
  <2> SUFFICES ASSUME NEW p \in Runs, NEW q \in Runs, Active(p)', Active(q)', p # q
               PROVE  /\ kind'[p] # "callback"
                      /\ \/ kind'[p] = "heartbeat" /\ kind'[q] # "heartbeat"
                         \/ kind'[q] = "heartbeat" /\ kind'[p] # "heartbeat"
                         \/ kind'[p] # "heartbeat" /\ {p, q} \cap late' # {}
    BY DEF OnlyLateRunsShare
  <2>1. CASE p = r
    BY <1>3, <1>4, <2>1
  <2>2. CASE q = r
    BY <1>3, <1>4, <2>2
  <2>3. CASE p # r /\ q # r
    BY <1>3, <2>3 DEF Order, OnlyLateRunsShare
  <2> QED
    BY <2>1, <2>2, <2>3
<1>9. OrderIsOne'
  <2> SUFFICES ASSUME NEW p \in Runs, NEW q \in Runs, Active(p)', Active(q)', p \in older'[q]
               PROVE  q \notin older'[p]
    BY DEF OrderIsOne
  <2>1. CASE p = r
    BY <1>5, <1>6, <2>1
  <2>2. CASE q = r
    BY <1>5, <1>6, <2>2
  <2>3. CASE p # r /\ q # r
    BY <1>3, <1>6, <2>3 DEF Order, OrderIsOne
  <2> QED
    BY <2>1, <2>2, <2>3
<1>10. HeartbeatIsOlder'
  <2> SUFFICES ASSUME NEW p \in Runs, NEW q \in Runs, Active(p)', Active(q)', p # q,
                      kind'[p] = "heartbeat", q \notin late'
               PROVE  p \in older'[q]
    BY DEF HeartbeatIsOlder
  <2>1. p # r
    BY <1>3, <1>4
  <2>2. CASE q = r
    BY <1>3, <1>6, <1>7, <2>1, <2>2
  <2>3. CASE q # r
    BY <1>3, <1>6, <2>1, <2>3 DEF Order, HeartbeatIsOlder
  <2> QED
    BY <2>2, <2>3
<1>11. ClaimHasSeen'
  BY ThreadRunsAssumption DEF ClaimHasSeen, NoClaim
<1> QED
  BY <1>8, <1>9, <1>10, <1>11 DEF Order

LEMMA StepOrder == TypeOK /\ Order /\ [Next]_vars => Order'
<1> SUFFICES ASSUME TypeOK, Order, [Next]_vars
             PROVE  Order'
  OBVIOUS
<1> USE DEF runVars
<1>1. ASSUME NEW new \in {"normal", "heartbeat"}, ClaimLooks(new)
      PROVE  Order'
  <2>1. OnlyLateRunsShare' /\ OrderIsOne' /\ HeartbeatIsOlder'
    BY <1>1 DEF ClaimLooks, Order, OnlyLateRunsShare, OrderIsOne, HeartbeatIsOlder, Active
  <2>2. ASSUME NEW q \in Runs, Newest(q), claim' = [kind |-> new, active |-> q]
        PROVE  ClaimHasSeen'
    <3>1. ASSUME NEW r \in Runs, Active(r), r # q
          PROVE  /\ kind[q] # "callback"
                 /\ kind[q] = "heartbeat" =>
                      r \in late /\ kind[r] # "heartbeat" /\ kind[r] # "callback"
      <4>1. Active(q) /\ r \in older[q]
        BY <2>2, <3>1 DEF Newest
      <4>2. /\ kind[q] # "callback" /\ kind[r] # "callback"
            /\ kind[q] = "heartbeat" => kind[r] # "heartbeat"
        BY <3>1, <4>1 DEF Order, OnlyLateRunsShare
      <4>3. kind[q] = "heartbeat" => r \in late
        BY <3>1, <4>1 DEF Order, OrderIsOne, HeartbeatIsOlder
      <4> QED
        BY <4>2, <4>3
    <3> QED
      BY <1>1, <2>2, <3>1, ThreadRunsAssumption DEF ClaimLooks, ClaimHasSeen, Active
  <2>3. ASSUME ThreadIsIdle, claim' = [kind |-> new, active |-> NoRun]
        PROVE  ClaimHasSeen'
    BY <1>1, <2>3, ThreadRunsAssumption DEF ClaimLooks, ClaimHasSeen, Active, ThreadIsIdle
  <2> QED
    BY <1>1, <2>1, <2>2, <2>3 DEF ClaimLooks, Order
<1>2. ASSUME NEW r \in Runs, ClaimIdle(r)
      PROVE  Order'
  <2>1. \A p \in Runs : ~Active(p)
    BY <1>2 DEF ClaimIdle, Order, ClaimHasSeen, ThreadIsIdle
  <2>2. InsertRun(r, claim.kind, NoCallback, "queued", status) /\ claim' = NoClaim
    BY <1>2 DEF ClaimIdle, Creates
  <2> QED
    BY <2>1, <2>2, InsertKeepsOrder DEF Active, TypeOK
<1>3. ASSUME NEW r \in Runs, NEW q \in Runs, ClaimSupersedes(r, q)
      PROVE  Order'
  <2> DEFINE changed == IF Active(q) THEN [status EXCEPT ![q] = "ended"] ELSE status
  <2>1. InsertRun(r, claim.kind, NoCallback, "queued", changed) /\ claim' = NoClaim
    BY <1>3 DEF ClaimSupersedes, Creates
  <2>2. changed \in [Runs -> {"none", "running", "cancelling", "completed", "ended"}]
    BY DEF TypeOK
  <2>3. \A p \in Runs : Active(p) => p = q
    BY <1>3 DEF ClaimSupersedes, Order, ClaimHasSeen
  <2>4. \A p \in Runs : changed[p] \notin {"running", "cancelling"}
    BY <2>3 DEF Active, TypeOK
  <2> HIDE DEF changed
  <2> QED
    BY <2>1, <2>2, <2>4, InsertKeepsOrder
<1>4. ASSUME NEW r \in Runs, NEW q \in Runs,
             ClaimBesideHeartbeat(r, q) \/ ClaimCancelsHeartbeat(r, q)
      PROVE  Order'
  <2>1. PICK changed \in {status, [status EXCEPT ![q] = "cancelling"]} :
            /\ InsertRun(r, claim.kind, NoCallback, "queued", changed)
            /\ changed = status \/ Active(q)
    BY <1>4 DEF ClaimBesideHeartbeat, ClaimCancelsHeartbeat, Creates
  <2>2. changed \in [Runs -> {"none", "running", "cancelling", "completed", "ended"}]
    BY <2>1 DEF TypeOK
  <2>3. /\ claim.active = q /\ claim' = NoClaim
        /\ kind[q] = "heartbeat"
        /\ claim.kind # "heartbeat" /\ claim.kind # "callback"
    BY <1>4 DEF ClaimBesideHeartbeat, ClaimCancelsHeartbeat, MayShareThread, Creates, TypeOK
  <2>4. \A p \in Runs : Active(p) =>
            \/ kind[p] = "heartbeat"
            \/ p \in late /\ kind[p] # "callback"
    BY <2>3 DEF Order, ClaimHasSeen
  <2>5. \A p \in Runs : changed[p] \in {"running", "cancelling"} => Active(p)
    BY <2>1 DEF Active, TypeOK
  <2> QED
    BY <2>1, <2>2, <2>3, <2>4, <2>5, InsertKeepsOrder
<1>5. CASE ClaimFails
  BY <1>5, EndsKeepOrder DEF ClaimFails, Active
<1>6. ASSUME NEW r \in Runs, RunStep(r) \/ RequestCancel(r) \/ AttemptIsLost(r)
      PROVE  Order'
  <2>1. UNCHANGED <<kind, older, late, claim>>
    BY <1>6 DEF RunStep, Starts, EndsEarly, Completes, Fails, Commits, Stops, Reap,
                RequestCancel, AttemptIsLost
  <2>2. \A p \in Runs : Active(p)' => Active(p)
    BY <1>6 DEF RunStep, Starts, EndsEarly, Completes, Fails, Commits, Stops, Reap,
                RequestCancel, AttemptIsLost, Active, TypeOK
  <2> QED
    BY <2>1, <2>2, EndsKeepOrder
<1>7. ASSUME NEW c \in Callbacks, ChildEnds(c) \/ Ages(c)
      PROVE  Order'
  BY <1>7, EndsKeepOrder DEF ChildEnds, Ages, Active
<1>8. ASSUME NEW w \in Workers,
             HookStep(w) \/ HookFailsToEnqueue(w) \/ HookIsLost(w)
      PROVE  Order'
  <2>1. CASE HookLists(w) \/ HookFindsBusy(w) \/ HookEnqueues(w) \/ HookIsLost(w)
    BY <2>1, EndsKeepOrder DEF HookLists, HookFindsBusy, HookEnqueues, HookIsLost, Active
  <2>2. ASSUME NEW r \in Runs, HookCreates(w, r)
        PROVE  Order'
    <3>1. /\ InsertRun(r, "callback", hook[w].cb, "none", status)
          /\ claim' = NoClaim
          /\ \A p \in Runs : ~Active(p)
      BY <2>2 DEF HookCreates, ThreadIsIdle
    <3> QED
      BY <3>1, InsertKeepsOrder DEF Active, TypeOK
  <2>3. CASE HookFailsToEnqueue(w)
    <3>1. UNCHANGED <<kind, older, late, claim>>
      BY <2>3 DEF HookFailsToEnqueue
    <3>2. \A p \in Runs : Active(p)' => Active(p)
      BY <2>3 DEF HookFailsToEnqueue, Active, TypeOK
    <3> QED
      BY <3>1, <3>2, EndsKeepOrder
  <2> QED
    BY <1>8, <2>1, <2>2, <2>3 DEF HookStep
<1>9. CASE UNCHANGED vars
  BY <1>9, EndsKeepOrder DEF vars, Active
<1> QED
  BY <1>1, <1>2, <1>3, <1>4, <1>5, <1>6, <1>7, <1>8, <1>9 DEF Next, ClaimEnds

\* However many runs are claimed and created, a claim goes ahead beside a heartbeat
\* only, and beside a run that sorts as older than one it was inserted behind.
THEOREM OnlyLateRunsShareAThread == Spec => []OnlyLateRunsShare
<1>1. TypeOK /\ Order /\ [Next]_vars => (TypeOK /\ Order)'
  BY StepTypes, StepOrder
<1>2. Order => OnlyLateRunsShare
  BY DEF Order
<1> QED
  BY InitTypes, InitOrder, <1>1, <1>2, PTL DEF Spec

-----------------------------------------------------------------------------
LEMMA InitWatched == Init => PendingIsWatched
  BY DEF Init, PendingIsWatched, Pending

\* A worker whose next steps end with a run in an idle thread.
Watches(w) == hook[w].at \in {"list", "create", "create next"}

\* A step that neither ends a run nor adds a callback leaves every watch in place.
LEMMA QuietStepKeepsWatch ==
  ASSUME TypeOK, PendingIsWatched,
         \A r \in Runs : Active(r) => Active(r)',
         Pending' \subseteq Pending,
         \A w \in Workers : Watches(w) => Watches(w)',
         wakeup' = wakeup \/ wakeup' = "missed"
  PROVE  PendingIsWatched'
  BY DEF PendingIsWatched, ThreadIsIdle, Watches

\* The look behind an end leaves no callback out.
ListLeavesNoneOut == \A w \in Workers : hook[w].at = "list" => hook[w].cb = NoCallback

LEMMA StepLists == TypeOK /\ ListLeavesNoneOut /\ [Next]_vars => ListLeavesNoneOut'
<1> SUFFICES ASSUME TypeOK, ListLeavesNoneOut, [Next]_vars
             PROVE  ListLeavesNoneOut'
  OBVIOUS
<1> USE DEF ListLeavesNoneOut
<1>1. ASSUME UNCHANGED hook
      PROVE  ListLeavesNoneOut'
  BY <1>1
<1>2. ASSUME NEW w \in Workers, NEW h, hook' = [hook EXCEPT ![w] = h],
             h.at = "list" => h.cb = NoCallback
      PROVE  ListLeavesNoneOut'
  BY <1>2 DEF TypeOK
<1>3. ASSUME NEW new \in {"normal", "heartbeat"}, ClaimLooks(new)
      PROVE  ListLeavesNoneOut'
  BY <1>1, <1>3 DEF ClaimLooks
<1>4. CASE ClaimEnds
  BY <1>1, <1>4 DEF ClaimEnds, ClaimFails, ClaimIdle, ClaimSupersedes, ClaimBesideHeartbeat,
                    ClaimCancelsHeartbeat, Creates
<1>5. ASSUME NEW r \in Runs, RunStep(r) \/ RequestCancel(r) \/ AttemptIsLost(r)
      PROVE  ListLeavesNoneOut'
  <2>1. CASE Completes(r) \/ Fails(r)
    BY <1>2, <2>1 DEF Completes, Fails, Commits, Behind, AfterEnd
  <2>2. CASE ~(Completes(r) \/ Fails(r))
    BY <1>1, <1>5, <2>2 DEF RunStep, Starts, EndsEarly, Stops, Reap, RequestCancel, AttemptIsLost
  <2> QED
    BY <2>1, <2>2
<1>6. ASSUME NEW c \in Callbacks, ChildEnds(c) \/ Ages(c)
      PROVE  ListLeavesNoneOut'
  BY <1>1, <1>2, <1>6 DEF ChildEnds, Ages, Behind
<1>7. ASSUME NEW w \in Workers,
             HookStep(w) \/ HookFailsToEnqueue(w) \/ HookIsLost(w)
      PROVE  ListLeavesNoneOut'
  <2>1. CASE HookLists(w)
    <3>1. CASE hook' = [hook EXCEPT ![w] = Idle]
      BY <3>1 DEF Idle, TypeOK
    <3>2. ASSUME NEW c, NEW at \in {"create", "create next"},
                 hook' = [hook EXCEPT ![w] = [at |-> at, cb |-> c, run |-> NoRun]]
          PROVE  ListLeavesNoneOut'
      BY <3>2 DEF TypeOK
    <3> QED
      BY <2>1, <3>1, <3>2 DEF HookLists
  <2>2. CASE HookFindsBusy(w) \/ HookEnqueues(w) \/ HookIsLost(w)
    <3>1. hook' = [hook EXCEPT ![w] = Idle]
      BY <2>2 DEF HookFindsBusy, HookEnqueues, HookIsLost
    <3> QED
      BY <3>1 DEF Idle, TypeOK
  <2>3. ASSUME NEW r \in Runs, HookCreates(w, r)
        PROVE  ListLeavesNoneOut'
    BY <2>3 DEF HookCreates, TypeOK
  <2>4. CASE HookFailsToEnqueue(w)
    BY <2>4 DEF HookFailsToEnqueue, Idle, TypeOK
  <2> QED
    BY <1>7, <2>1, <2>2, <2>3, <2>4 DEF HookStep
<1>8. CASE UNCHANGED vars
  BY <1>1, <1>8 DEF vars
<1> QED
  BY <1>3, <1>4, <1>5, <1>6, <1>7, <1>8 DEF Next

LEMMA StepWatched ==
  TypeOK /\ PendingIsWatched /\ ListLeavesNoneOut /\ [Next]_vars => PendingIsWatched'
<1> SUFFICES ASSUME TypeOK, PendingIsWatched, ListLeavesNoneOut, [Next]_vars
             PROVE  PendingIsWatched'
  OBVIOUS
<1> USE DEF runVars
<1>1. ASSUME UNCHANGED <<status, cb, hook, wakeup>>
      PROVE  PendingIsWatched'
  BY <1>1 DEF PendingIsWatched, ThreadIsIdle, Active, Pending
<1>2. ASSUME wakeup' = "missed"
      PROVE  PendingIsWatched'
  BY <1>2 DEF PendingIsWatched
\* A run that has just been created keeps the thread busy.
<1>3. ASSUME NEW r \in Runs, NEW new, NEW c, NEW place, NEW changed,
             changed \in [Runs -> {"none", "running", "cancelling", "completed", "ended"}],
             InsertRun(r, new, c, place, changed)
      PROVE  PendingIsWatched'
  BY <1>3 DEF InsertRun, PendingIsWatched, ThreadIsIdle, Active
<1>4. ASSUME NEW new \in {"normal", "heartbeat"}, ClaimLooks(new)
      PROVE  PendingIsWatched'
  BY <1>1, <1>4 DEF ClaimLooks
<1>5. ASSUME NEW r \in Runs, ClaimIdle(r)
      PROVE  PendingIsWatched'
  BY <1>3, <1>5 DEF ClaimIdle, Creates, TypeOK
<1>6. ASSUME NEW r \in Runs, NEW q \in Runs, ClaimSupersedes(r, q)
      PROVE  PendingIsWatched'
  <2>1. (IF Active(q) THEN [status EXCEPT ![q] = "ended"] ELSE status)
            \in [Runs -> {"none", "running", "cancelling", "completed", "ended"}]
    BY DEF TypeOK
  <2> QED
    BY <1>3, <1>6, <2>1 DEF ClaimSupersedes, Creates
<1>7. ASSUME NEW r \in Runs, NEW q \in Runs,
             ClaimBesideHeartbeat(r, q) \/ ClaimCancelsHeartbeat(r, q)
      PROVE  PendingIsWatched'
  <2>1. (IF Active(q) THEN [status EXCEPT ![q] = "cancelling"] ELSE status)
            \in [Runs -> {"none", "running", "cancelling", "completed", "ended"}]
    BY DEF TypeOK
  <2> QED
    BY <1>3, <1>7, <2>1 DEF ClaimBesideHeartbeat, ClaimCancelsHeartbeat, Creates, TypeOK
<1>8. CASE ClaimFails
  BY <1>1, <1>8 DEF ClaimFails
<1>9. ASSUME NEW r \in Runs, RunStep(r) \/ RequestCancel(r) \/ AttemptIsLost(r)
      PROVE  PendingIsWatched'
  <2>1. CASE Starts(r) \/ Stops(r) \/ AttemptIsLost(r)
    BY <1>1, <2>1 DEF Starts, Stops, AttemptIsLost
  <2>2. CASE EndsEarly(r) \/ Reap(r)
    BY <1>2, <2>2 DEF EndsEarly, Reap
  \* The end of a run is followed by a look.
  <2>3. CASE Completes(r) \/ Fails(r)
    <3>1. Behind(AfterEnd)
      BY <2>3 DEF Completes, Fails, Commits
    <3>2. \E w \in Workers : hook'[w].at = "list"
      BY <3>1 DEF Behind, AfterEnd, TypeOK
    <3> QED
      BY <3>2 DEF PendingIsWatched
  <2>4. CASE RequestCancel(r)
    BY <2>4, QuietStepKeepsWatch DEF RequestCancel, Active, Pending, Watches, TypeOK
  <2> QED
    BY <1>9, <2>1, <2>2, <2>3, <2>4 DEF RunStep
<1>10. ASSUME NEW c \in Callbacks, ChildEnds(c)
       PROVE  PendingIsWatched'
  <2>1. \E w \in Workers : hook'[w].at = "create"
    BY <1>10 DEF ChildEnds, Behind, TypeOK
  <2> QED
    BY <2>1 DEF PendingIsWatched
<1>11. ASSUME NEW c \in Callbacks, Ages(c)
       PROVE  PendingIsWatched'
  BY <1>11, QuietStepKeepsWatch DEF Ages, Active, Pending, Watches, TypeOK
<1>12. ASSUME NEW w \in Workers,
              HookStep(w) \/ HookFailsToEnqueue(w) \/ HookIsLost(w)
       PROVE  PendingIsWatched'
  <2>1. CASE HookLists(w)
    <3>1. CASE ~Watches(w)
      <4>1. \A v \in Workers : Watches(v) => Watches(v)'
        BY <2>1, <3>1 DEF HookLists, Watches, TypeOK
      <4> QED
        BY <2>1, <4>1, QuietStepKeepsWatch DEF HookLists, Active, Pending
    <3>2. CASE Watches(w)
      <4>1. hook[w].at = "list"
        BY <2>1, <3>2 DEF HookLists, At, Watches
      <4>2. hook[w].cb \notin Pending
        BY <4>1, ThreadRunsAssumption DEF ListLeavesNoneOut, Pending
      <4>3. CASE Pending = {}
        BY <2>1, <4>3 DEF HookLists, Pending, PendingIsWatched
      <4>4. CASE Pending # {}
        <5>1. PICK c \in Callbacks :
                 hook' = [hook EXCEPT ![w] = [at |-> "create", cb |-> c, run |-> NoRun]]
          BY <2>1, <4>1, <4>2, <4>4 DEF HookLists, At, Oldest, Pending
        <5>2. hook'[w].at = "create"
          BY <5>1 DEF TypeOK
        <5> QED
          BY <5>2 DEF PendingIsWatched
      <4> QED
        BY <4>3, <4>4
    <3> QED
      BY <3>1, <3>2
  <2>2. CASE HookFindsBusy(w)
    BY <2>2 DEF HookFindsBusy, ThreadIsIdle, Active, PendingIsWatched
  <2>3. ASSUME NEW r \in Runs, HookCreates(w, r)
        PROVE  PendingIsWatched'
    BY <1>3, <2>3 DEF HookCreates, TypeOK
  <2>4. CASE HookEnqueues(w)
    <3>1. \A v \in Workers : Watches(v) => Watches(v)'
      BY <2>4 DEF HookEnqueues, At, Watches, TypeOK
    <3> QED
      BY <2>4, <3>1, QuietStepKeepsWatch DEF HookEnqueues, Active, Pending
  <2>5. CASE HookFailsToEnqueue(w)
    <3>1. CASE status[hook[w].run] = "running"
      BY <1>2, <2>5, <3>1 DEF HookFailsToEnqueue
    <3>2. CASE status[hook[w].run] # "running"
      <4>1. UNCHANGED <<status, wakeup, cb>>
        BY <2>5, <3>2 DEF HookFailsToEnqueue
      <4>2. \A v \in Workers : Watches(v) => Watches(v)'
        BY <2>5 DEF HookFailsToEnqueue, At, Watches, TypeOK
      <4> QED
        BY <4>1, <4>2, QuietStepKeepsWatch DEF Active, Pending
    <3> QED
      BY <3>1, <3>2
  <2>6. CASE HookIsLost(w)
    BY <1>2, <2>6 DEF HookIsLost
  <2> QED
    BY <1>12, <2>1, <2>2, <2>3, <2>4, <2>5, <2>6 DEF HookStep
<1>13. CASE UNCHANGED vars
  BY <1>1, <1>13 DEF vars
<1> QED
  BY <1>4, <1>5, <1>6, <1>7, <1>8, <1>9, <1>10, <1>11, <1>12, <1>13 DEF Next, ClaimEnds
\* No interleaving of ends, lists and creations loses the wake-up of a waiting
\* callback, for any number of callbacks, runs and workers.
THEOREM CallbacksAreWatched == Spec => []PendingIsWatched
<1>1. Init => TypeOK /\ PendingIsWatched /\ ListLeavesNoneOut
  BY InitTypes, InitWatched DEF Init, ListLeavesNoneOut, Idle
<1>2. /\ TypeOK /\ PendingIsWatched /\ ListLeavesNoneOut /\ [Next]_vars
      => (TypeOK /\ PendingIsWatched /\ ListLeavesNoneOut)'
  BY StepTypes, StepWatched, StepLists
<1> QED
  BY <1>1, <1>2, PTL DEF Spec

-----------------------------------------------------------------------------
\* Only the end of a run that was shown a callback, or was made for it, and a claim
\* that supersedes a callback run consume it.
THEOREM CallbacksAreShown == Spec => ConsumedWasShown
<1> DEFINE Shown ==
       \A c \in Callbacks : cb[c] # "consumed" /\ cb'[c] = "consumed" =>
         \E r \in Runs :
            \/ job[r] = "working" /\ status'[r] = "completed" /\ c \in shown[r] \cup {target[r]}
            \/ claim.active = r /\ kind[r] = "callback"
<1>1. TypeOK /\ [Next]_vars => [Shown]_vars
  <2> SUFFICES ASSUME TypeOK, [Next]_vars
               PROVE  Shown
    OBVIOUS
  <2>1. ASSUME UNCHANGED cb
        PROVE  Shown
    BY <2>1
  <2>2. ASSUME NEW r \in Runs, Completes(r)
        PROVE  Shown
    <3>1. job[r] = "working" /\ status'[r] = "completed"
      BY <2>2 DEF Completes, Commits, TypeOK
    <3>2. \A c \in Callbacks : cb'[c] = IF c \in Consumes(r) THEN "consumed" ELSE cb[c]
      BY <2>2 DEF Completes
    <3> QED
      BY <3>1, <3>2 DEF Consumes
  <2>3. ASSUME NEW r \in Runs, NEW q \in Runs, ClaimSupersedes(r, q)
        PROVE  Shown
    BY <2>3 DEF ClaimSupersedes
  <2>4. ASSUME NEW c \in Callbacks, ChildEnds(c) \/ Ages(c)
        PROVE  Shown
    BY <2>4 DEF ChildEnds, Ages, TypeOK
  <2>5. CASE ClaimEnds
    BY <2>1, <2>3, <2>5 DEF ClaimEnds, ClaimFails, ClaimIdle, ClaimBesideHeartbeat,
                            ClaimCancelsHeartbeat
  <2>6. ASSUME NEW r \in Runs, RunStep(r) \/ RequestCancel(r) \/ AttemptIsLost(r)
        PROVE  Shown
    <3>1. CASE Completes(r)
      BY <2>2, <3>1
    <3>2. CASE ~Completes(r)
      BY <2>1, <2>6, <3>2 DEF RunStep, Starts, EndsEarly, Fails, Stops, Reap, RequestCancel,
                              AttemptIsLost
    <3> QED
      BY <3>1, <3>2
  <2>7. ASSUME NEW w \in Workers,
               HookStep(w) \/ HookFailsToEnqueue(w) \/ HookIsLost(w)
        PROVE  Shown
    BY <2>1, <2>7 DEF HookStep, HookLists, HookFindsBusy, HookCreates, HookEnqueues,
                      HookFailsToEnqueue, HookIsLost
  <2>8. ASSUME NEW new \in {"normal", "heartbeat"}, ClaimLooks(new)
        PROVE  Shown
    BY <2>1, <2>8 DEF ClaimLooks
  <2>9. CASE UNCHANGED vars
    BY <2>1, <2>9 DEF vars, runVars
  <2> HIDE DEF Shown
  <2> QED
    BY <2>4, <2>5, <2>6, <2>7, <2>8, <2>9 DEF Next
<1> QED
  BY ThreadTypes, <1>1, PTL DEF Spec, ConsumedWasShown
=============================================================================

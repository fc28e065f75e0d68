---------------------------- MODULE MCThreadRuns ----------------------------
(* Slots for runs and for workers are alike; a slot nobody speaks of is empty. *)
EXTENDS ThreadRuns, TLC

\* Bound: active runs that sort as older than one they were inserted behind.
OneLate == \A r, q \in late : Active(r) /\ Active(q) => r = q

SlotSymmetry == Permutations(Runs) \cup Permutations(Workers)

\* InsertRun sets all that this leaves out; created_at is looked at of active runs
\* only, and what an attempt was shown while it works.
Slot(r) ==
    IF Free(r) THEN <<>>
    ELSE <<kind[r], status[r], target[r], job[r],
           IF Active(r) THEN <<{q \in older[r] : Active(q)}, r \in late>> ELSE <<>>,
           IF job[r] = "working" THEN shown[r] ELSE {}>>

LiveSlots == <<[r \in Runs |-> Slot(r)], cb, claim, hook, mishaps, wakeup>>
=============================================================================

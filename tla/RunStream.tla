----------------------------- MODULE RunStream -----------------------------
(***************************************************************************)
(* A client that follows a run over SSE (streamRunEvents in                *)
(* src/src/services/api/internal/http/conversationapi/v1_runs.go): the     *)
(* handler lists the events after its cursor, writes them and advances the *)
(* cursor; a reconnecting client resumes with after_seq.                   *)
(***************************************************************************)
EXTENDS RunLifecycle

VARIABLES cursor,     \* after_seq
          delivered   \* the rows of log the client has received

clientVars == <<cursor, delivered>>
streamVars == <<vars, clientVars>>

StreamInit == Init /\ cursor = 0 /\ delivered = {}

\* What ListEvents may return now.
Listed == {i \in DOMAIN log : log[i].seq > cursor}

\* A batch in the order of seq, cut off anywhere: by LIMIT, or by a connection
\* that breaks.  The query has no second key, so among rows with one seq the
\* cut is anywhere too.
InOrder(rows) ==
    \A i \in rows, k \in Listed : log[k].seq < log[i].seq => k \in rows

\* Mutant: the cursor jumps to GetLatestSeq, whatever was sent.
StreamToLatest(rows) ==
    /\ InOrder(rows)
    /\ delivered' = delivered \cup rows
    /\ cursor' = MaxSeq(log)
    /\ UNCHANGED vars

\* The catch-up batch, or what arrives of a batch of the loop: the cursor is
\* the seq of the last row.
Stream(rows) ==
    /\ InOrder(rows)
    /\ delivered' = delivered \cup rows
    /\ cursor' \in {log[i].seq : i \in rows}
    /\ \A i \in rows : log[i].seq <= cursor'
    /\ UNCHANGED vars

StreamStep == \E rows \in SUBSET Listed \ {{}} : Stream(rows)

StreamNext == (Next /\ UNCHANGED clientVars) \/ StreamStep

\* The handler polls at least every heartbeat; notifications only hurry it.
StreamSpec == StreamInit /\ [][StreamNext]_streamVars /\ WF_streamVars(StreamStep)
-----------------------------------------------------------------------------
\* What the client has passed it has received: after_seq loses nothing, across
\* batches and reconnects.
NoEventSkipped == \A i \in DOMAIN log : log[i].seq <= cursor => i \in delivered

\* The client eventually has every committed row, without any notification.
StreamCatchesUp == []<>(delivered = DOMAIN log)
=============================================================================

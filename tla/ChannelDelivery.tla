-------------------------- MODULE ChannelDelivery --------------------------
(***************************************************************************)
(* The outbox of the channel deliveries of one run.  What a run has to say *)
(* to a chat (its answer, or the notice of an attempt that failed) is      *)
(* written as a row of channel_delivery_outbox, sent at once by the worker *)
(* that ran it (the inline sender), and, when that does not settle the     *)
(* row, by the drainers: one loop per worker that leases the rows whose    *)
(* next_retry_at has passed and sends the rest of their segments.          *)
(*                                                                         *)
(* The row counts segments, the platform takes messages: a segment that is *)
(* longer than one message goes out as several, one call after the other,  *)
(* and a refusal of a later one leaves the earlier ones in the chat while  *)
(* the row knows nothing of them.                                          *)
(*                                                                         *)
(* The lease is a date in next_retry_at and nothing else: no write of a    *)
(* sender checks that it still has it, so a sender that overran its lease  *)
(* goes on sending and writing next to the one that took the row over.     *)
(***************************************************************************)
EXTENDS Naturals, FiniteSets

CONSTANTS
    Drainers,       \* the drain loops
    Inline,         \* the sender of the worker that executes the run
    Segments,       \* how many segments the answer of the run has
    Parts,          \* in how many messages the platform takes a segment
    OutboxMaxAttempts,
    MaxNotices,     \* bound: attempts of the run that fail with a notice
    MaxMishaps      \* bound: crashes, lost answers and writes, overrun leases

ASSUME DeliveryAssumption ==
    /\ Inline \notin Drainers
    /\ ({Inline} \cup Drainers) \cap {"nobody", "free"} = {}
    /\ IsFiniteSet(Drainers)
    /\ Segments \in Nat \ {0}
    /\ Parts \in Nat \ {0}
    /\ OutboxMaxAttempts \in Nat \ {0}
    /\ MaxNotices \in Nat
    /\ MaxMishaps \in Nat

Senders == Drainers \cup {Inline}

\* Every insertion but the last is that of a failing attempt's notice.
Rows == 1..(MaxNotices + 1)

VARIABLES
    run,        \* [ended, notices]: is the run over, how many attempts failed
    owed,       \* what the attempt's worker is about to hand over
    row,        \* the table: see RowStates
    at,         \* where each sender is: see SenderStates
    copies,     \* how often the chat got each message of the answer's segments
    cut,        \* history: refusals inside a segment of the answer
    failures,   \* history: failures a sender of the row has met
    mishaps     \* crashes, lost answers, lost writes and overrun leases

vars == <<run, owed, row, at, copies, cut, failures, mishaps>>

Contents == {"notice", "answer"}

\* A notice is one text.
Length(c) == IF c = "notice" THEN 1 ELSE Segments

\* lease: next_retry_at has passed ("free"), or has not ("nobody": a backoff or
\* the lease of a sender that is gone; otherwise the sender it was given to).
RowStates ==
    [status : {"none", "pending", "sent", "dead"}, content : Contents,
     sent : Nat, attempts : Nat, lease : Senders \cup {"nobody", "free"}]

\* A sender works from the row as it read it: the row, the content it sends,
\* the segments it takes as sent, and the attempts it will count from.  Of the
\* segment after those, part messages went out.
SenderStates ==
    [step : {"idle", "send", "note"}, row : Rows, content : Contents,
     next : Nat, part : 0..(Parts - 1), attempts : Nat]

NoRow == [status |-> "none", content |-> "answer", sent |-> 0, attempts |-> 0,
          lease |-> "nobody"]
AtRest == [step |-> "idle", row |-> 1, content |-> "answer", next |-> 0, part |-> 0,
           attempts |-> 0]

Init ==
    /\ run = [ended |-> FALSE, notices |-> 0]
    /\ owed = "none"
    /\ row = [r \in Rows |-> NoRow]
    /\ at = [s \in Senders |-> AtRest]
    /\ copies = [k \in 1..Segments |-> [p \in 1..Parts |-> 0]]
    /\ cut = [k \in 1..Segments |-> 0]
    /\ failures = [r \in Rows |-> 0]
    /\ mishaps = 0

----------------------------------------------------------------------------
(***************************************************************************)
(* The run and the hand-over                                               *)
(***************************************************************************)

InlineIsIdle == owed = "none" /\ at[Inline].step = "idle"

\* The executor returns an error without having ended the run: its text is the
\* notice to deliver, and the job is retried once that was tried.
AttemptFails ==
    /\ InlineIsIdle
    /\ ~run.ended
    /\ run.notices < MaxNotices
    /\ run' = [run EXCEPT !.notices = @ + 1]
    /\ owed' = "notice"
    /\ UNCHANGED <<row, at, copies, cut, failures, mishaps>>

\* The run's end is committed; its output is handed over only after that.
RunEnds ==
    /\ InlineIsIdle
    /\ ~run.ended
    /\ run' = [run EXCEPT !.ended = TRUE]
    /\ owed' = "answer"
    /\ UNCHANGED <<row, at, copies, cut, failures, mishaps>>

Live(r) == row[r].status \in {"pending", "sent"}

\* Mutant: a retry starts one segment before the one that is due.
ReadingFromLast(r, c) ==
    [step |-> "send", row |-> r, content |-> c,
     next |-> row[r].sent - 1, part |-> 0, attempts |-> row[r].attempts]

\* Mutant: the lease counts as an attempt, and so does the failure.
ReadingCountsLease(r, c) ==
    [step |-> "send", row |-> r, content |-> c,
     next |-> row[r].sent, part |-> 0, attempts |-> row[r].attempts + 1]

\* A row as a sender reads it, to send content c.
Reading(r, c) ==
    [step |-> "send", row |-> r, content |-> c,
     next |-> row[r].sent, part |-> 0, attempts |-> row[r].attempts]

\* Mutant: next_retry_at is left to the column's default, now().
InsertsUnleased(r) ==
    /\ owed # "none"
    /\ row[r].status = "none"
    /\ \A q \in Rows : ~Live(q)
    /\ row' = [row EXCEPT ![r] = [status |-> "pending", content |-> owed, sent |-> 0,
                                  attempts |-> 0, lease |-> "free"]]
    /\ at' = [at EXCEPT ![Inline] = [step |-> "send", row |-> r, content |-> owed,
                                     next |-> 0, part |-> 0, attempts |-> 0]]
    /\ owed' = "none"
    /\ UNCHANGED <<run, copies, cut, failures, mishaps>>

\* InsertPending: the row is born leased to its inline sender.
Inserts(r) ==
    /\ owed # "none"
    /\ row[r].status = "none"
    /\ \A q \in Rows : ~Live(q)
    /\ row' = [row EXCEPT ![r] = [status |-> "pending", content |-> owed, sent |-> 0,
                                  attempts |-> 0, lease |-> Inline]]
    /\ at' = [at EXCEPT ![Inline] = [step |-> "send", row |-> r, content |-> owed,
                                     next |-> 0, part |-> 0, attempts |-> 0]]
    /\ owed' = "none"
    /\ UNCHANGED <<run, copies, cut, failures, mishaps>>

\* InsertPending when the run has a row that is not dead: it returns that row,
\* lease and status as they are, and the caller sends its own content from the
\* row's segments_sent on.
FindsRow(r) ==
    /\ owed # "none"
    /\ Live(r)
    /\ at' = [at EXCEPT ![Inline] = Reading(r, owed)]
    /\ owed' = "none"
    /\ UNCHANGED <<run, row, copies, cut, failures, mishaps>>

\* The worker crashes, or the insertion fails, which is only logged.
HandOverIsLost ==
    /\ owed # "none"
    /\ mishaps < MaxMishaps
    /\ mishaps' = mishaps + 1
    /\ owed' = "none"
    /\ UNCHANGED <<run, row, at, copies, cut, failures>>

----------------------------------------------------------------------------
(***************************************************************************)
(* The senders                                                             *)
(***************************************************************************)

\* Mutant: the query leaves out the rows that have one attempt left.
DrainsBelowLimit(d, r) ==
    /\ at[d].step = "idle"
    /\ row[r].status = "pending"
    /\ row[r].lease = "free"
    /\ row[r].attempts + 1 < OutboxMaxAttempts
    /\ row' = [row EXCEPT ![r].lease = d]
    /\ at' = [at EXCEPT ![d] = Reading(r, row[r].content)]
    /\ UNCHANGED <<run, owed, copies, cut, failures, mishaps>>

\* ListPendingForDrain: the row's next_retry_at is pushed back by one lease.
Drains(d, r) ==
    /\ at[d].step = "idle"
    /\ row[r].status = "pending"
    /\ row[r].lease = "free"
    /\ row' = [row EXCEPT ![r].lease = d]
    /\ at' = [at EXCEPT ![d] = Reading(r, row[r].content)]
    /\ UNCHANGED <<run, owed, copies, cut, failures, mishaps>>

HasMore(s) == at[s].next < Length(at[s].content)

\* What the chat gets of a notice is not counted.
Arrives(s) ==
    copies' = IF at[s].content = "answer"
                THEN [copies EXCEPT ![at[s].next + 1][at[s].part + 1] = @ + 1]
                ELSE copies

\* SendText, one call: the platform takes the next message of the segment.  Only
\* the last one of them ends SendText.
Sends(s) ==
    /\ at[s].step = "send"
    /\ HasMore(s)
    /\ Arrives(s)
    /\ at' = IF at[s].part + 1 = Parts
                THEN [at EXCEPT ![s].step = "note"]
                ELSE [at EXCEPT ![s].part = @ + 1]
    /\ UNCHANGED <<run, owed, row, cut, failures, mishaps>>

\* Mutant: the progress is counted up in the row.
NotesByCounting(s) ==
    /\ at[s].step = "note"
    /\ row' = [row EXCEPT ![at[s].row].sent = @ + 1]
    /\ at' = [at EXCEPT ![s].step = "send", ![s].next = @ + 1, ![s].part = 0]
    /\ UNCHANGED <<run, owed, copies, cut, failures, mishaps>>

\* The delivery is recorded and segments_sent is written, to the value the
\* sender counts for itself.
Notes(s) ==
    /\ at[s].step = "note"
    /\ row' = [row EXCEPT ![at[s].row].sent = at[s].next + 1]
    /\ at' = [at EXCEPT ![s].step = "send", ![s].next = @ + 1, ![s].part = 0]
    /\ UNCHANGED <<run, owed, copies, cut, failures, mishaps>>

\* Nothing is left to send: UpdateSent, whatever the row's status is; the
\* unique index refuses it when the run has got another row since.
Settles(s) ==
    /\ at[s].step = "send"
    /\ ~HasMore(s)
    /\ row' = IF \E q \in Rows \ {at[s].row} : Live(q)
                THEN row
                ELSE [row EXCEPT ![at[s].row].status = "sent"]
    /\ at' = [at EXCEPT ![s] = AtRest]
    /\ UNCHANGED <<run, owed, copies, cut, failures, mishaps>>

\* handleFailure: one attempt more than the sender read; the last one makes the
\* row dead, another one sets next_retry_at to the end of the backoff.
Fails(s) ==
    LET r == at[s].row
        n == at[s].attempts + 1
    IN  /\ row' = IF n >= OutboxMaxAttempts
                    THEN [row EXCEPT ![r].status = "dead"]
                    ELSE [row EXCEPT ![r].attempts = n, ![r].lease = "nobody"]
        /\ failures' = [failures EXCEPT ![r] = @ + 1]
        /\ at' = [at EXCEPT ![s] = AtRest]

\* The platform refuses a message or is out of reach: SendText returns the error
\* for the whole segment, also when it was not the segment's first message.
SendFails(s) ==
    /\ at[s].step = "send"
    /\ HasMore(s)
    /\ Fails(s)
    /\ cut' = IF at[s].part > 0 /\ at[s].content = "answer"
                 THEN [cut EXCEPT ![at[s].next + 1] = @ + 1]
                 ELSE cut
    /\ UNCHANGED <<run, owed, copies, mishaps>>

\* The message arrives but the platform's answer does not.
AnswerIsLost(s) ==
    /\ at[s].step = "send"
    /\ HasMore(s)
    /\ mishaps < MaxMishaps
    /\ mishaps' = mishaps + 1
    /\ Arrives(s)
    /\ Fails(s)
    /\ UNCHANGED <<run, owed, cut>>

\* The transaction that records the delivery fails: the segment counts as not
\* sent.
RecordFails(s) ==
    /\ at[s].step = "note"
    /\ mishaps < MaxMishaps
    /\ mishaps' = mishaps + 1
    /\ Fails(s)
    /\ UNCHANGED <<run, owed, copies, cut>>

\* The sender's worker crashes, or a write to the row fails: the sender gives up
\* and the row stays as it is until its lease runs out.
LetsGo(s) ==
    /\ at[s].step # "idle"
    /\ mishaps < MaxMishaps
    /\ mishaps' = mishaps + 1
    /\ at' = [at EXCEPT ![s] = AtRest]
    /\ row' = [r \in Rows |-> IF row[r].lease = s
                                THEN [row[r] EXCEPT !.lease = "nobody"]
                                ELSE row[r]]
    /\ UNCHANGED <<run, owed, copies, cut, failures>>

----------------------------------------------------------------------------
(***************************************************************************)
(* Time                                                                    *)
(***************************************************************************)

\* A backoff ends, or the lease of a sender that is gone.
WaitEnds(r) ==
    /\ row[r].status = "pending"
    /\ row[r].lease = "nobody"
    /\ row' = [row EXCEPT ![r].lease = "free"]
    /\ UNCHANGED <<run, owed, at, copies, cut, failures, mishaps>>

\* A sender is still at work after OutboxLeaseDuration: its segments are slow,
\* or it had other rows of its batch to send first.
LeaseIsOverrun(r) ==
    /\ row[r].status = "pending"
    /\ row[r].lease \in Senders
    /\ mishaps < MaxMishaps
    /\ mishaps' = mishaps + 1
    /\ row' = [row EXCEPT ![r].lease = "free"]
    /\ UNCHANGED <<run, owed, at, copies, cut, failures>>

SenderStep(s) == Sends(s) \/ Notes(s) \/ Settles(s) \/ SendFails(s)

SenderMishap(s) == AnswerIsLost(s) \/ RecordFails(s) \/ LetsGo(s)

HandsOver(r) == Inserts(r) \/ FindsRow(r)

Next ==
    \/ AttemptFails
    \/ RunEnds
    \/ HandOverIsLost
    \/ \E r \in Rows : HandsOver(r) \/ WaitEnds(r) \/ LeaseIsOverrun(r)
    \/ \E d \in Drainers, r \in Rows : Drains(d, r)
    \/ \E s \in Senders : SenderStep(s) \/ SenderMishap(s)

Spec == Init /\ [][Next]_vars

\* The run goes on and its output is handed over; a sender goes on (an HTTP call
\* ends by its timeout); deadlines pass; and a drainer that is at rest drains
\* every 10 s what it finds.
FairSpec ==
    /\ Spec
    /\ WF_vars(RunEnds)
    /\ \A r \in Rows : WF_vars(HandsOver(r)) /\ WF_vars(WaitEnds(r))
    /\ \A r \in Rows : WF_vars(\E d \in Drainers : Drains(d, r))
    /\ \A s \in Senders : WF_vars(SenderStep(s))

----------------------------------------------------------------------------
(***************************************************************************)
(* Properties                                                              *)
(***************************************************************************)

\* The state has the shape the declarations give it: a sender's progress never
\* leaves the naturals.
TypeOK ==
    /\ run \in [ended : BOOLEAN, notices : 0..MaxNotices]
    /\ owed \in Contents \cup {"none"}
    /\ row \in [Rows -> RowStates]
    /\ at \in [Senders -> SenderStates]
    /\ copies \in [1..Segments -> [1..Parts -> Nat]]
    /\ cut \in [1..Segments -> Nat]
    /\ failures \in [Rows -> Nat]
    /\ mishaps \in 0..MaxMishaps

AnswerHasArrived == \A k \in 1..Segments, p \in 1..Parts : copies[k][p] > 0

\* A row written for the answer says "sent" only when every message of the answer
\* has arrived, however many senders wrote their own idea of the progress to the
\* row, one after the other or at once.
SentIsDelivered ==
    \A r \in Rows :
        row[r].status = "sent" /\ row[r].content = "answer" => AnswerHasArrived

\* A row is given up only after OutboxMaxAttempts failures: senders that count
\* from a stale row forget failures, but never invent one.
DeadWasTried ==
    \A r \in Rows : row[r].status = "dead" => failures[r] >= OutboxMaxAttempts

\* Every copy of a message of the answer has its cause.  As long as no worker
\* crashes, no answer or write is lost and no lease is overrun, only a refusal
\* inside its own segment sends a message again: other refusals, retries and
\* several drainers alone repeat nothing.  And whatever happens, overrun leases
\* included, there is a row whose failures, with the mishaps, are as many as the
\* copies beyond the first: the senders cannot set each other going.  (It may get
\* a notice more often: the worker that finds its row uses it without leasing it,
\* and a failure it writes ends the lease of a drainer.)
CopiesHaveCauses ==
    \A k \in 1..Segments, p \in 1..Parts :
        /\ mishaps = 0 => copies[k][p] <= 1 + cut[k]
        /\ \E r \in Rows : copies[k][p] <= 1 + failures[r] + mishaps

\* Every row is settled in the end: sent, or given up.
RowsSettle == <>[](\A r \in Rows : row[r].status # "pending")

\* The package comment of the outbox: it guarantees at-least-once delivery.  When a
\* run has ended, its output was handed over, and all its rows say "sent", the
\* answer has arrived.
AnswerIsDelivered ==
    /\ run.ended
    /\ InlineIsIdle
    /\ \E r \in Rows : row[r].status = "sent"
    /\ \A r \in Rows : row[r].status \in {"none", "sent"}
    => AnswerHasArrived
=============================================================================

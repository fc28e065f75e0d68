----------------------- MODULE ChannelDeliveryProofs -----------------------
(***************************************************************************)
(* Proofs about ChannelDelivery, for any number of drainers, segments,     *)
(* messages, attempts and mishaps: its types, that a row that is sent was  *)
(* delivered, that a row that is dead was tried, and that every copy of a  *)
(* message of the answer has its cause.                                    *)
(*                                                                         *)
(* No sender checks what it writes over, so the argument cannot be that    *)
(* one of them owns the row.  It is that what each of them has in hand is  *)
(* true whenever it is written: a sender has seen what is behind it arrive *)
(* (Progress), as many failures as it counts happened (Tried), and every   *)
(* sender that starts on the answer's row after the first was let in by a  *)
(* failure or a mishap of its own (Counted).  Only while nothing but       *)
(* refusals happens does the lease keep the answer in one hand (OnceInv).  *)
(***************************************************************************)
EXTENDS ChannelDelivery, FiniteSetTheorems, TLAPS

IsUsed(r) == row[r].status # "none"

\* Nobody hands over an answer before the run has ended, or a notice afterwards.
NoticesComeFirst ==
    /\ owed = "notice" => ~run.ended
    /\ owed = "answer" => run.ended
    /\ at[Inline].step # "idle" /\ at[Inline].content = "notice" => ~run.ended
    /\ \A r \in Rows : IsUsed(r) /\ row[r].content = "answer" => run.ended

\* What a sender has sent or takes as sent: the messages up to its place.
Behind(s, k, p) ==
    \/ k <= at[s].next
    \/ k = at[s].next + 1 /\ (at[s].step = "note" \/ p <= at[s].part)

\* The first n segments of the answer have arrived.
ArrivedUpTo(n) == \A k \in 1..Segments, p \in 1..Parts : k <= n => copies[k][p] > 0

\* What is behind a sender has arrived.
ArrivedBehind(s) ==
    \A k \in 1..Segments, p \in 1..Parts : Behind(s, k, p) => copies[k][p] > 0

\* What the rows and the senders take as sent has arrived.
Progress ==
    /\ \A s \in Senders : at[s].step # "idle" => IsUsed(at[s].row)
    /\ \A s \in Senders :
          at[s].step # "idle" /\ row[at[s].row].content = "answer" =>
              at[s].content = "answer" /\ ArrivedBehind(s)
    /\ \A r \in Rows :
          IsUsed(r) /\ row[r].content = "answer" => ArrivedUpTo(row[r].sent)

\* The failures that a row or a sender counts have happened.
Tried ==
    /\ \A r \in Rows : row[r].attempts <= failures[r]
    /\ \A s \in Senders : at[s].attempts <= failures[at[s].row]

IInv == TypeOK /\ NoticesComeFirst /\ Progress /\ Tried /\ SentIsDelivered /\ DeadWasTried

-----------------------------------------------------------------------------
LEMMA Constants ==
    /\ Inline \in Senders
    /\ "nobody" \notin Senders
    /\ "free" \notin Senders
    /\ 1 \in Rows
    /\ AtRest \in SenderStates
    /\ NoRow \in RowStates
<1>1. 0 \in 0..(Parts - 1)
  BY DeliveryAssumption
<1> QED
  BY <1>1, DeliveryAssumption
  DEF Senders, Rows, AtRest, SenderStates, NoRow, RowStates, Contents

\* A mishap stays within its bound.
LEMMA MishapBound ==
  ASSUME mishaps \in 0..MaxMishaps, mishaps < MaxMishaps, mishaps' = mishaps + 1
  PROVE  mishaps' \in 0..MaxMishaps
  BY DeliveryAssumption

\* A message that is not the last of its segment has one after it.
LEMMA PartBound ==
  ASSUME NEW p \in 0..(Parts - 1), p + 1 # Parts
  PROVE  p + 1 \in 0..(Parts - 1)
<1>1. Parts \in Nat
  BY DeliveryAssumption
<1> QED
  BY <1>1

\* What a sender has before it is one of the answer's messages.
LEMMA NextMessage ==
  ASSUME TypeOK, NEW s \in Senders, HasMore(s)
  PROVE  at[s].next + 1 \in 1..Segments /\ at[s].part + 1 \in 1..Parts
<1>1. at[s].next \in Nat /\ at[s].content \in Contents /\ at[s].part \in 0..(Parts - 1)
  BY DEF TypeOK, SenderStates
<1>2. Length(at[s].content) \in Nat /\ Length(at[s].content) <= Segments
  BY DeliveryAssumption DEF Length
<1> QED
  BY <1>1, <1>2, DeliveryAssumption DEF HasMore

\* What the platform takes is counted, when it is of the answer.
LEMMA ArrivesCounts ==
  ASSUME TypeOK, NEW s \in Senders, HasMore(s), Arrives(s)
  PROVE  /\ copies' \in [1..Segments -> [1..Parts -> Nat]]
         /\ at[s].content # "answer" => copies' = copies
         /\ at[s].content = "answer" =>
               \A k \in 1..Segments, p \in 1..Parts :
                  copies'[k][p] = IF k = at[s].next + 1 /\ p = at[s].part + 1
                                    THEN copies[k][p] + 1
                                    ELSE copies[k][p]
<1> DEFINE n == at[s].next + 1
           j == at[s].part + 1
<1>1. n \in 1..Segments /\ j \in 1..Parts
  BY NextMessage
<1>2. copies' = IF at[s].content = "answer"
                  THEN [copies EXCEPT ![n] = [copies[n] EXCEPT ![j] = @ + 1]]
                  ELSE copies
  BY Zenon DEF Arrives
<1>3. copies \in [1..Segments -> [1..Parts -> Nat]]
  BY DEF TypeOK
<1> HIDE DEF n, j
<1>4. copies[n] \in [1..Parts -> Nat] /\ copies[n][j] \in Nat
  BY <1>1, <1>3
<1>5. [copies[n] EXCEPT ![j] = @ + 1] \in [1..Parts -> Nat]
  <2>1. copies[n][j] + 1 \in Nat
    BY <1>4
  <2> QED
    BY <1>1, <1>4, <2>1
<1>6. copies' \in [1..Segments -> [1..Parts -> Nat]]
  BY <1>1, <1>2, <1>3, <1>5
<1>7. ASSUME at[s].content = "answer", NEW k \in 1..Segments, NEW p \in 1..Parts
      PROVE  copies'[k][p] = IF k = n /\ p = j THEN copies[k][p] + 1 ELSE copies[k][p]
  <2>1. copies'[k] = IF k = n THEN [copies[n] EXCEPT ![j] = @ + 1] ELSE copies[k]
    BY <1>2, <1>3, <1>7
  <2> QED
    BY <1>4, <2>1
<1> QED
  BY <1>2, <1>6, <1>7 DEF n, j

LEMMA InitTypes == Init => TypeOK
  BY Constants, DeliveryAssumption DEF Init, TypeOK, NoRow

LEMMA StepTypes == TypeOK /\ [Next]_vars => TypeOK'
<1> SUFFICES ASSUME TypeOK, [Next]_vars
             PROVE  TypeOK'
  OBVIOUS
<1> USE Constants DEF TypeOK
<1>0. 0 \in 0..(Parts - 1)
  BY DeliveryAssumption
<1>1. CASE AttemptFails
  <2>1. run.ended \in BOOLEAN /\ run.notices + 1 \in 0..MaxNotices
    BY <1>1, DeliveryAssumption DEF AttemptFails
  <2>2. run' \in [ended : BOOLEAN, notices : 0..MaxNotices]
    BY <1>1, <2>1 DEF AttemptFails
  <2> QED
    BY <1>1, <2>2 DEF AttemptFails, Contents
<1>2. CASE RunEnds
  BY <1>2 DEF RunEnds, Contents
<1>3. CASE HandOverIsLost
  BY <1>3, MishapBound DEF HandOverIsLost
<1>4. ASSUME NEW r \in Rows, Inserts(r)
      PROVE  TypeOK'
  <2>1. owed \in Contents
    BY <1>4 DEF Inserts
  <2>2. [status |-> "pending", content |-> owed, sent |-> 0, attempts |-> 0,
         lease |-> Inline] \in RowStates
    BY <2>1 DEF RowStates
  <2>3. [step |-> "send", row |-> r, content |-> owed, next |-> 0, part |-> 0,
         attempts |-> 0] \in SenderStates
    BY <2>1, <1>0 DEF SenderStates
  <2> QED
    BY <1>4, <2>2, <2>3 DEF Inserts
<1>5. ASSUME NEW r \in Rows, NEW c \in Contents
      PROVE  Reading(r, c) \in SenderStates
  BY <1>0 DEF Reading, RowStates, SenderStates
<1>6. ASSUME NEW r \in Rows, FindsRow(r)
      PROVE  TypeOK'
  BY <1>5, <1>6 DEF FindsRow
<1>7. ASSUME NEW r \in Rows, WaitEnds(r)
      PROVE  TypeOK'
  BY <1>7 DEF WaitEnds, RowStates
<1>8. ASSUME NEW r \in Rows, LeaseIsOverrun(r)
      PROVE  TypeOK'
  <2>1. row' \in [Rows -> RowStates]
    BY <1>8 DEF LeaseIsOverrun, RowStates
  <2> QED
    BY <1>8, <2>1, MishapBound DEF LeaseIsOverrun
<1>9. ASSUME NEW d \in Drainers, NEW r \in Rows, Drains(d, r)
      PROVE  TypeOK'
  <2>1. row[r].content \in Contents
    BY DEF RowStates
  <2>2. row' \in [Rows -> RowStates]
    BY <1>9 DEF Drains, RowStates, Senders
  <2> QED
    BY <1>5, <1>9, <2>1, <2>2 DEF Drains
<1>12. ASSUME NEW s \in Senders, Fails(s)
       PROVE  /\ row' \in [Rows -> RowStates]
              /\ at' \in [Senders -> SenderStates]
              /\ failures' \in [Rows -> Nat]
  <2>1. at[s].row \in Rows /\ at[s].attempts + 1 \in Nat
    BY DEF SenderStates
  <2>2. row' \in [Rows -> RowStates]
    BY <1>12, <2>1 DEF Fails, RowStates
  <2>3. at' \in [Senders -> SenderStates]
    BY <1>12 DEF Fails
  <2>4. failures' \in [Rows -> Nat]
    BY <1>12, <2>1 DEF Fails
  <2> QED
    BY <2>2, <2>3, <2>4
<1>13. ASSUME NEW s \in Senders, SenderStep(s)
       PROVE  TypeOK'
  <2>1. CASE Sends(s)
    <3>0. at[s] \in SenderStates
      OBVIOUS
    <3>1. at[s].part \in 0..(Parts - 1)
      BY <3>0 DEF SenderStates
    <3>2. at[s].part + 1 # Parts => at[s].part + 1 \in 0..(Parts - 1)
      BY <3>1, PartBound
    <3>3. at' \in [Senders -> SenderStates]
      BY <2>1, <3>0, <3>1, <3>2 DEF Sends, SenderStates
    <3> QED
      BY <2>1, <3>3, ArrivesCounts DEF Sends
  <2>2. CASE Notes(s)
    <3>1. at[s].row \in Rows /\ at[s].next + 1 \in Nat
      BY DEF SenderStates
    <3>2. [at[s] EXCEPT !.step = "send", !.next = at[s].next + 1, !.part = 0]
          \in SenderStates
      BY <1>0, <3>1 DEF SenderStates
    <3>5. at' = [at EXCEPT ![s] = [at[s] EXCEPT !.step = "send", !.next = at[s].next + 1,
                                                !.part = 0]]
      BY <2>2 DEF Notes
    <3>7. at' \in [Senders -> SenderStates]
      BY <3>2, <3>5
    <3>3. [row[at[s].row] EXCEPT !.sent = at[s].next + 1] \in RowStates
      BY <3>1 DEF RowStates
    <3>4. row' \in [Rows -> RowStates]
      BY <2>2, <3>1, <3>3 DEF Notes
    <3> QED
      BY <2>2, <3>4, <3>7 DEF Notes
  <2>3. CASE Settles(s)
    <3>1. at[s].row \in Rows
      BY DEF SenderStates
    <3>2. [row EXCEPT ![at[s].row].status = "sent"] \in [Rows -> RowStates]
      BY <3>1 DEF RowStates
    <3>3. row' \in [Rows -> RowStates]
      BY <2>3, <3>2 DEF Settles
    <3> QED
      BY <2>3, <3>3 DEF Settles
  <2>4. CASE SendFails(s)
    <3>1. at[s].next + 1 \in 1..Segments
      BY <2>4, NextMessage DEF SendFails
    <3>2. cut' \in [1..Segments -> Nat]
      BY <2>4, <3>1 DEF SendFails
    <3> QED
      BY <1>12, <2>4, <3>2 DEF SendFails
  <2> QED
    BY <1>13, <2>1, <2>2, <2>3, <2>4 DEF SenderStep
<1>14. ASSUME NEW s \in Senders, SenderMishap(s)
       PROVE  TypeOK'
  <2>1. CASE AnswerIsLost(s)
    BY <1>12, <2>1, ArrivesCounts, MishapBound DEF AnswerIsLost
  <2>2. CASE RecordFails(s)
    BY <1>12, <2>2, MishapBound DEF RecordFails
  <2>3. CASE LetsGo(s)
    <3>1. row' \in [Rows -> RowStates]
      BY <2>3 DEF LetsGo, RowStates
    <3> QED
      BY <2>3, <3>1, MishapBound DEF LetsGo
  <2> QED
    BY <1>14, <2>1, <2>2, <2>3 DEF SenderMishap
<1>10. CASE UNCHANGED vars
  BY <1>10 DEF vars
<1> QED
  BY <1>1, <1>2, <1>3, <1>4, <1>6, <1>7, <1>8, <1>9, <1>10, <1>13, <1>14
  DEF Next, HandsOver

-----------------------------------------------------------------------------
\* What the steps change of a row.
Keeps(q) ==
    /\ row'[q].content = row[q].content
    /\ row'[q].sent = row[q].sent
    /\ row'[q].attempts = row[q].attempts
    /\ row'[q].status = row[q].status

LEMMA LeaseAlone ==
  ASSUME TypeOK, NEW r \in Rows, NEW l, row' = [row EXCEPT ![r].lease = l]
  PROVE  \A q \in Rows : Keeps(q)
  BY DEF TypeOK, RowStates, Keeps

LEMMA LetsGoKeeps ==
  ASSUME TypeOK, NEW s \in Senders, LetsGo(s)
  PROVE  \A q \in Rows : Keeps(q)
<1> SUFFICES ASSUME NEW q \in Rows
             PROVE  Keeps(q)
  OBVIOUS
<1>1. row[q] \in RowStates
  BY DEF TypeOK
<1>2. row'[q] = IF row[q].lease = s THEN [row[q] EXCEPT !.lease = "nobody"] ELSE row[q]
  BY DEF LetsGo
<1> QED
  BY <1>1, <1>2 DEF RowStates, Keeps

LEMMA NotesKeeps ==
  ASSUME TypeOK, NEW s \in Senders, Notes(s)
  PROVE  \A q \in Rows :
            /\ row'[q].content = row[q].content
            /\ row'[q].attempts = row[q].attempts
            /\ row'[q].status = row[q].status
            /\ row'[q].sent \in {row[q].sent, at[s].next + 1}
            /\ row'[q].sent # row[q].sent => q = at[s].row
<1> SUFFICES ASSUME NEW q \in Rows
             PROVE  /\ row'[q].content = row[q].content
                    /\ row'[q].attempts = row[q].attempts
                    /\ row'[q].status = row[q].status
                    /\ row'[q].sent \in {row[q].sent, at[s].next + 1}
                    /\ row'[q].sent # row[q].sent => q = at[s].row
  OBVIOUS
<1>1. row[q] \in RowStates
  BY DEF TypeOK
<1>2. row'[q] = IF q = at[s].row THEN [row[q] EXCEPT !.sent = at[s].next + 1] ELSE row[q]
  BY DEF TypeOK, Notes
<1> QED
  BY <1>1, <1>2 DEF RowStates

LEMMA SettlesKeeps ==
  ASSUME TypeOK, NEW s \in Senders, Settles(s)
  PROVE  \A q \in Rows :
            /\ row'[q].content = row[q].content
            /\ row'[q].attempts = row[q].attempts
            /\ row'[q].sent = row[q].sent
            /\ row'[q].status \in {row[q].status, "sent"}
            /\ row'[q].status # row[q].status => q = at[s].row
<1> SUFFICES ASSUME NEW q \in Rows
             PROVE  /\ row'[q].content = row[q].content
                    /\ row'[q].attempts = row[q].attempts
                    /\ row'[q].sent = row[q].sent
                    /\ row'[q].status \in {row[q].status, "sent"}
                    /\ row'[q].status # row[q].status => q = at[s].row
  OBVIOUS
<1>1. row[q] \in RowStates
  BY DEF TypeOK
<1>2. \/ row'[q] = row[q]
      \/ q = at[s].row /\ row'[q] = [row[q] EXCEPT !.status = "sent"]
  BY DEF TypeOK, Settles
<1> QED
  BY <1>1, <1>2 DEF RowStates

LEMMA FailsKeeps ==
  ASSUME TypeOK, NEW s \in Senders, Fails(s)
  PROVE  \A q \in Rows :
            /\ row'[q].content = row[q].content
            /\ row'[q].sent = row[q].sent
            /\ \/ row'[q].attempts = row[q].attempts
               \/ q = at[s].row /\ row'[q].attempts = at[s].attempts + 1
            /\ \/ row'[q].status = row[q].status
               \/ /\ q = at[s].row
                  /\ row'[q].status = "dead"
                  /\ at[s].attempts + 1 >= OutboxMaxAttempts
<1> SUFFICES ASSUME NEW q \in Rows
             PROVE  /\ row'[q].content = row[q].content
                    /\ row'[q].sent = row[q].sent
                    /\ \/ row'[q].attempts = row[q].attempts
                       \/ q = at[s].row /\ row'[q].attempts = at[s].attempts + 1
                    /\ \/ row'[q].status = row[q].status
                       \/ /\ q = at[s].row
                          /\ row'[q].status = "dead"
                          /\ at[s].attempts + 1 >= OutboxMaxAttempts
  OBVIOUS
<1>1. row[q] \in RowStates
  BY DEF TypeOK
<1>2. CASE at[s].attempts + 1 >= OutboxMaxAttempts
  <2>1. row'[q] = IF q = at[s].row THEN [row[q] EXCEPT !.status = "dead"] ELSE row[q]
    BY <1>2 DEF TypeOK, Fails
  <2> QED
    BY <1>1, <1>2, <2>1 DEF RowStates
<1>3. CASE ~(at[s].attempts + 1 >= OutboxMaxAttempts)
  <2>1. row' = [row EXCEPT ![at[s].row].attempts = at[s].attempts + 1,
                           ![at[s].row].lease = "nobody"]
    BY <1>3 DEF Fails
  <2>2. row'[q] = IF q = at[s].row
                    THEN [row[q] EXCEPT !.attempts = at[s].attempts + 1,
                                        !.lease = "nobody"]
                    ELSE row[q]
    BY <2>1 DEF TypeOK
  <2> QED
    BY <1>1, <2>2 DEF RowStates
<1> QED
  BY <1>2, <1>3

\* What every step of the senders leaves alone: which rows are used and what they
\* were written for.
SameRows ==
    \A r \in Rows : row'[r].content = row[r].content /\ (IsUsed(r)' <=> IsUsed(r))

LEMMA SendersKeepRows ==
  ASSUME TypeOK, NEW s \in Senders, SenderStep(s) \/ SenderMishap(s),
         at[s].step # "idle" => IsUsed(at[s].row)
  PROVE  SameRows
<1>1. at[s].row \in Rows
  BY DEF TypeOK, SenderStates
<1>2. at[s].step # "idle"
  BY DEF SenderStep, SenderMishap, Sends, Notes, Settles, SendFails, AnswerIsLost,
         RecordFails, LetsGo
<1>3. row[at[s].row].status # "none"
  BY <1>2 DEF IsUsed
<1>4. ASSUME Fails(s)
      PROVE  SameRows
  BY <1>3, <1>4, FailsKeeps DEF SameRows, IsUsed
<1>5. CASE Notes(s)
  BY <1>3, <1>5, NotesKeeps DEF SameRows, IsUsed
<1>6. CASE Settles(s)
  BY <1>3, <1>6, SettlesKeeps DEF SameRows, IsUsed
<1>7. CASE Sends(s)
  BY <1>7 DEF Sends, SameRows, IsUsed
<1>8. CASE LetsGo(s)
  BY <1>8, LetsGoKeeps DEF SameRows, IsUsed, Keeps
<1> QED
  BY <1>4, <1>5, <1>6, <1>7, <1>8
  DEF SenderStep, SenderMishap, SendFails, AnswerIsLost, RecordFails

\* A step of the senders that does not go on with a row leaves its sender at rest.
LEMMA SendersGoOnOrRest ==
  ASSUME TypeOK, NEW s \in Senders, SenderStep(s) \/ SenderMishap(s)
  PROVE  /\ \A q \in Senders \ {s} : at'[q] = at[q]
         /\ \/ at'[s] = AtRest
            \/ at'[s].content = at[s].content /\ at'[s].row = at[s].row
               /\ at[s].step # "idle" /\ at'[s].attempts = at[s].attempts
         /\ run' = run /\ owed' = owed
<1>1. ASSUME Fails(s)
      PROVE  at'[s] = AtRest /\ \A q \in Senders \ {s} : at'[q] = at[q]
  BY <1>1 DEF Fails, TypeOK
<1>2. CASE Sends(s)
  BY <1>2 DEF Sends, TypeOK, SenderStates
<1>3. CASE Notes(s)
  BY <1>3 DEF Notes, TypeOK, SenderStates
<1>4. CASE Settles(s)
  BY <1>4 DEF Settles, TypeOK
<1>5. CASE LetsGo(s)
  BY <1>5 DEF LetsGo, TypeOK
<1> QED
  BY <1>1, <1>2, <1>3, <1>4, <1>5
  DEF SenderStep, SenderMishap, SendFails, AnswerIsLost, RecordFails

LEMMA StepComesFirst == IInv /\ [Next]_vars => NoticesComeFirst'
<1> SUFFICES ASSUME IInv, [Next]_vars
             PROVE  NoticesComeFirst'
  OBVIOUS
<1> USE Constants DEF IInv, NoticesComeFirst
<1>1. CASE AttemptFails
  BY <1>1 DEF AttemptFails, InlineIsIdle, IsUsed, TypeOK
<1>2. CASE RunEnds
  BY <1>2 DEF RunEnds, InlineIsIdle, IsUsed, TypeOK
<1>3. CASE HandOverIsLost
  BY <1>3 DEF HandOverIsLost, IsUsed
<1>4. ASSUME NEW r \in Rows, Inserts(r)
      PROVE  NoticesComeFirst'
  BY <1>4 DEF Inserts, IsUsed, TypeOK, RowStates, SenderStates, Contents
<1>5. ASSUME NEW r \in Rows, FindsRow(r)
      PROVE  NoticesComeFirst'
  BY <1>5 DEF FindsRow, Reading, IsUsed, TypeOK, SenderStates, Contents
<1>6. ASSUME NEW r \in Rows, WaitEnds(r) \/ LeaseIsOverrun(r)
      PROVE  NoticesComeFirst'
  <2>1. \A q \in Rows : Keeps(q)
    BY <1>6, LeaseAlone DEF WaitEnds, LeaseIsOverrun
  <2> QED
    BY <1>6, <2>1 DEF WaitEnds, LeaseIsOverrun, IsUsed, Keeps
<1>7. ASSUME NEW d \in Drainers, NEW r \in Rows, Drains(d, r)
      PROVE  NoticesComeFirst'
  <2>1. d # Inline /\ d \in Senders
    BY DeliveryAssumption DEF Senders
  <2> QED
    BY <1>7, <2>1 DEF Drains, IsUsed, TypeOK, RowStates
<1>8. ASSUME NEW s \in Senders, SenderStep(s) \/ SenderMishap(s)
      PROVE  NoticesComeFirst'
  <2>1. SameRows
    BY <1>8, SendersKeepRows DEF Progress
  <2>2. AtRest.step = "idle"
    BY DEF AtRest
  <2> QED
    BY <1>8, <2>1, <2>2, SendersGoOnOrRest DEF SameRows
<1>9. CASE UNCHANGED vars
  BY <1>9 DEF vars, IsUsed
<1> QED
  BY <1>1, <1>2, <1>3, <1>4, <1>5, <1>6, <1>7, <1>8, <1>9 DEF Next, HandsOver

LEMMA StepTried == IInv /\ [Next]_vars => Tried' /\ DeadWasTried'
<1> SUFFICES ASSUME TypeOK, Tried, DeadWasTried, [Next]_vars
             PROVE  Tried' /\ DeadWasTried'
  BY DEF IInv
<1> USE Constants
<1>1. CASE AttemptFails \/ RunEnds \/ HandOverIsLost
  BY <1>1 DEF Tried, DeadWasTried, AttemptFails, RunEnds, HandOverIsLost
<1>2. ASSUME NEW r \in Rows, Inserts(r)
      PROVE  Tried' /\ DeadWasTried'
  <2>1. /\ \A q \in Rows \ {r} : row'[q] = row[q]
        /\ row'[r].attempts = 0 /\ row'[r].status = "pending"
    BY <1>2 DEF Inserts, TypeOK
  <2>2. /\ \A q \in Senders \ {Inline} : at'[q] = at[q]
        /\ at'[Inline].attempts = 0 /\ at'[Inline].row = r
        /\ failures' = failures
    BY <1>2 DEF Inserts, TypeOK
  <2>3. failures[r] >= 0
    BY DEF TypeOK
  <2> QED
    BY <2>1, <2>2, <2>3 DEF Tried, DeadWasTried
<1>3. ASSUME NEW r \in Rows, FindsRow(r)
      PROVE  Tried' /\ DeadWasTried'
  BY <1>3 DEF Tried, DeadWasTried, FindsRow, Reading, TypeOK, RowStates, SenderStates
<1>4. ASSUME NEW r \in Rows, WaitEnds(r) \/ LeaseIsOverrun(r)
      PROVE  Tried' /\ DeadWasTried'
  <2>1. \A q \in Rows : Keeps(q)
    BY <1>4, LeaseAlone DEF WaitEnds, LeaseIsOverrun
  <2> QED
    BY <1>4, <2>1 DEF Tried, DeadWasTried, WaitEnds, LeaseIsOverrun, Keeps
<1>5. ASSUME NEW d \in Drainers, NEW r \in Rows, Drains(d, r)
      PROVE  Tried' /\ DeadWasTried'
  <2>1. d \in Senders
    BY DEF Senders
  <2> QED
    BY <1>5, <2>1 DEF Tried, DeadWasTried, Drains, Reading, TypeOK, RowStates, SenderStates
<1>6. AtRest.row = 1 /\ AtRest.attempts = 0
  BY DEF AtRest
<1>7. ASSUME NEW s \in Senders, Fails(s)
      PROVE  Tried' /\ DeadWasTried'
  <2> DEFINE r == at[s].row
  <2>1. r \in Rows /\ at[s].attempts \in Nat /\ at[s].attempts <= failures[r]
    BY DEF TypeOK, SenderStates, Tried
  <2>2. /\ failures[r] \in Nat
        /\ failures'[r] = failures[r] + 1
        /\ \A q \in Rows : /\ failures[q] \in Nat
                           /\ failures'[q] \in Nat
                           /\ failures'[q] >= failures[q]
    BY <1>7, <2>1 DEF Fails, TypeOK
  <2>3. \A q \in Rows : \/ row'[q].attempts = row[q].attempts
                        \/ q = r /\ row'[q].attempts = at[s].attempts + 1
    BY <1>7, <2>1, FailsKeeps
  <2>4. \A q \in Rows : \/ row'[q].status = row[q].status
                        \/ q = r /\ at[s].attempts + 1 >= OutboxMaxAttempts
    BY <1>7, <2>1, FailsKeeps
  <2>5. \A q \in Senders : at'[q] = at[q] \/ at'[q] = AtRest
    BY <1>7 DEF Fails, TypeOK
  <2>6. \A q \in Rows : row[q].attempts \in Nat
    BY DEF TypeOK, RowStates
  <2>7. \A q \in Senders : at[q].row \in Rows /\ at[q].attempts \in Nat
    BY DEF TypeOK, SenderStates
  <2> HIDE DEF r
  <2>8. \A q \in Rows : row'[q].attempts <= failures'[q]
    BY <2>1, <2>2, <2>3, <2>6 DEF Tried
  <2>9. \A q \in Senders : at'[q].attempts <= failures'[at'[q].row]
    <3> SUFFICES ASSUME NEW q \in Senders
                 PROVE  at'[q].attempts <= failures'[at'[q].row]
      OBVIOUS
    <3>1. CASE at'[q] = AtRest
      BY <1>6, <2>2, <3>1
    <3>2. CASE at'[q] = at[q]
      BY <2>2, <2>7, <3>2 DEF Tried
    <3> QED
      BY <2>5, <3>1, <3>2
  <2>10. DeadWasTried'
    BY <2>1, <2>2, <2>4, DeliveryAssumption DEF DeadWasTried
  <2> QED
    BY <2>8, <2>9, <2>10 DEF Tried
<1>8. ASSUME NEW s \in Senders, SenderStep(s) \/ SenderMishap(s), ~Fails(s)
      PROVE  Tried' /\ DeadWasTried'
  <2>1. failures' = failures
    BY <1>8 DEF SenderStep, SenderMishap, Sends, Notes, Settles, SendFails, AnswerIsLost,
                RecordFails, LetsGo
  <2>2. \A q \in Senders : \/ at'[q] = AtRest
                           \/ at'[q].row = at[q].row /\ at'[q].attempts = at[q].attempts
    BY <1>8, SendersGoOnOrRest
  <2>3. at[s].row \in Rows
    BY DEF TypeOK, SenderStates
  <2>4. \A q \in Rows : /\ row'[q].attempts = row[q].attempts
                        /\ row'[q].status = "dead" => row[q].status = "dead"
    <3>1. CASE Sends(s)
      BY <3>1 DEF Sends
    <3>2. CASE Notes(s)
      BY <3>2, NotesKeeps
    <3>3. CASE Settles(s)
      BY <3>3, SettlesKeeps
    <3>4. CASE LetsGo(s)
      BY <3>4, LetsGoKeeps DEF Keeps
    <3> QED
      BY <1>8, <3>1, <3>2, <3>3, <3>4 DEF SenderStep, SenderMishap, SendFails, AnswerIsLost,
                                    RecordFails
  <2>5. \A q \in Rows : row'[q].attempts <= failures'[q]
    BY <2>1, <2>4 DEF Tried
  <2>6. \A q \in Senders : at'[q].attempts <= failures'[at'[q].row]
    <3> SUFFICES ASSUME NEW q \in Senders
                 PROVE  at'[q].attempts <= failures'[at'[q].row]
      OBVIOUS
    <3>1. CASE at'[q] = AtRest
      BY <1>6, <2>1, <3>1 DEF TypeOK
    <3>2. CASE at'[q].row = at[q].row /\ at'[q].attempts = at[q].attempts
      BY <2>1, <3>2 DEF Tried
    <3> QED
      BY <2>2, <3>1, <3>2
  <2>7. DeadWasTried'
    BY <2>1, <2>4 DEF DeadWasTried
  <2> QED
    BY <2>5, <2>6, <2>7 DEF Tried
<1>9. CASE UNCHANGED vars
  BY <1>9 DEF vars, Tried, DeadWasTried
<1> QED
  BY <1>1, <1>2, <1>3, <1>4, <1>5, <1>7, <1>8, <1>9 DEF Next, HandsOver

-----------------------------------------------------------------------------
LEMMA CopiesAreCounts ==
  ASSUME TypeOK
  PROVE  \A k \in 1..Segments, p \in 1..Parts : copies[k][p] \in Nat
<1>1. copies \in [1..Segments -> [1..Parts -> Nat]]
  BY DEF TypeOK
<1>2. \A k \in 1..Segments : copies[k] \in [1..Parts -> Nat]
  BY <1>1
<1> QED
  BY <1>2

\* No step of the senders takes a message back.
LEMMA CopiesGrow ==
  ASSUME TypeOK, NEW s \in Senders, SenderStep(s) \/ SenderMishap(s)
  PROVE  \A k \in 1..Segments, p \in 1..Parts : copies'[k][p] >= copies[k][p]
<1>1. \A k \in 1..Segments, p \in 1..Parts : copies[k][p] \in Nat
  BY CopiesAreCounts
<1>2. CASE copies' = copies
  BY <1>1, <1>2
<1>3. CASE HasMore(s) /\ Arrives(s)
  BY <1>1, <1>3, ArrivesCounts
<1> QED
  BY <1>2, <1>3 DEF SenderStep, SenderMishap, Sends, Notes, Settles, SendFails,
                    AnswerIsLost, RecordFails, LetsGo

\* How a sender that goes on moves: one message further.
LEMMA Moves ==
  ASSUME TypeOK, NEW s \in Senders, SenderStep(s) \/ SenderMishap(s)
  PROVE  \/ at'[s] = AtRest
         \/ /\ Sends(s)
            /\ \A k \in 1..Segments, p \in 1..Parts :
                  Behind(s, k, p)' <=>
                      Behind(s, k, p) \/ (k = at[s].next + 1 /\ p = at[s].part + 1)
         \/ /\ Notes(s)
            /\ \A k \in 1..Segments, p \in 1..Parts :
                  Behind(s, k, p)' <=> Behind(s, k, p)
<1>1. at[s].next \in Nat /\ at[s].part \in 0..(Parts - 1) /\ at[s] \in SenderStates
  BY DEF TypeOK, SenderStates
<1>2. CASE Sends(s)
  <2>1. /\ at'[s].next = at[s].next /\ at[s].step = "send"
        /\ \/ at[s].part + 1 = Parts /\ at'[s].step = "note"
           \/ at[s].part + 1 # Parts /\ at'[s].step = "send"
              /\ at'[s].part = at[s].part + 1
    BY <1>1, <1>2 DEF Sends, TypeOK, SenderStates
  <2> QED
    BY <1>1, <1>2, <2>1, DeliveryAssumption DEF Behind
<1>3. CASE Notes(s)
  <2>1. at'[s].next = at[s].next + 1 /\ at'[s].step = "send" /\ at'[s].part = 0
        /\ at[s].step = "note"
    BY <1>1, <1>3 DEF Notes, TypeOK, SenderStates
  <2> QED
    BY <1>1, <1>3, <2>1 DEF Behind
<1> QED
  BY <1>2, <1>3 DEF SenderStep, SenderMishap, Settles, SendFails, AnswerIsLost,
                    RecordFails, LetsGo, Fails, TypeOK

\* A step of the senders makes no row used, and what it makes of a row's or of its
\* sender's progress has arrived.
LEMMA SendersProgress ==
  ASSUME TypeOK, TypeOK', Progress, SentIsDelivered,
         NEW s \in Senders, SenderStep(s) \/ SenderMishap(s)
  PROVE  Progress' /\ SentIsDelivered'
<1>1. SameRows
  BY SendersKeepRows DEF Progress
<1>3. \A k \in 1..Segments, p \in 1..Parts : copies[k][p] > 0 => copies'[k][p] > 0
  <2>1. copies' \in [1..Segments -> [1..Parts -> Nat]]
    BY DEF TypeOK
  <2>2. \A k \in 1..Segments : copies'[k] \in [1..Parts -> Nat]
    BY <2>1
  <2>3. \A k \in 1..Segments, p \in 1..Parts : copies[k][p] \in Nat /\ copies'[k][p] \in Nat
    BY <2>2, CopiesAreCounts
  <2> QED
    BY <2>3, CopiesGrow
<1>4. at[s].row \in Rows /\ at[s].next \in Nat
  BY DEF TypeOK, SenderStates
<1>5. AtRest.step = "idle"
  BY DEF AtRest
<1>6. at[s].step # "idle"
  BY DEF SenderStep, SenderMishap, Sends, Notes, Settles, SendFails, AnswerIsLost,
         RecordFails, LetsGo
<1> DEFINE mine == row[at[s].row].content = "answer"
<1>7. mine => at[s].content = "answer" /\ ArrivedBehind(s)
  BY <1>6 DEF Progress
<1>8. ASSUME mine, at'[s].step # "idle"
      PROVE  ArrivedBehind(s)'
  <2>1. CASE Sends(s)
    <3>1. copies'[at[s].next + 1][at[s].part + 1] > 0
      <4>1. /\ at[s].next + 1 \in 1..Segments /\ at[s].part + 1 \in 1..Parts
            /\ copies[at[s].next + 1][at[s].part + 1] \in Nat
        BY <2>1, NextMessage, CopiesAreCounts DEF Sends
      <4>2. copies'[at[s].next + 1][at[s].part + 1]
            = copies[at[s].next + 1][at[s].part + 1] + 1
        BY <1>7, <1>8, <2>1, <4>1, ArrivesCounts DEF Sends
      <4> QED
        BY <4>1, <4>2
    <3>2. \A k \in 1..Segments, p \in 1..Parts : Behind(s, k, p) => copies'[k][p] > 0
      BY <1>3, <1>7, <1>8 DEF ArrivedBehind
    <3>3. \A k \in 1..Segments, p \in 1..Parts :
             Behind(s, k, p)' =>
                 Behind(s, k, p) \/ (k = at[s].next + 1 /\ p = at[s].part + 1)
      BY <1>5, <1>8, <2>1, Moves DEF Notes, Sends
    <3> QED
      BY <3>1, <3>2, <3>3 DEF ArrivedBehind
  <2>2. CASE Notes(s)
    <3>1. \A k \in 1..Segments, p \in 1..Parts : Behind(s, k, p)' => Behind(s, k, p)
      BY <1>5, <1>8, <2>2, Moves DEF Notes, Sends
    <3> QED
      BY <1>3, <1>7, <1>8, <3>1 DEF ArrivedBehind
  <2>3. CASE at'[s] = AtRest
    BY <1>5, <1>8, <2>3
  <2> QED
    BY <2>1, <2>2, <2>3, Moves
<1>9. ASSUME NEW q \in Senders, q # s
      PROVE  at'[q] = at[q] /\ (ArrivedBehind(q) => ArrivedBehind(q)')
  <2>1. at'[q] = at[q]
    BY <1>9, SendersGoOnOrRest
  <2> QED
    BY <1>3, <2>1 DEF ArrivedBehind, Behind
<1>10. \/ at'[s] = AtRest
       \/ at'[s].row = at[s].row /\ at'[s].content = at[s].content
  BY SendersGoOnOrRest
<1>11. \A q \in Senders : at[q].row \in Rows
  BY DEF TypeOK, SenderStates
<1>12. ASSUME NEW q \in Senders, at'[q].step # "idle"
       PROVE  /\ IsUsed(at[q].row)' /\ at'[q].row = at[q].row
              /\ row'[at'[q].row].content = "answer" =>
                    at'[q].content = "answer" /\ ArrivedBehind(q)'
  <2>1. CASE q = s
    BY <1>1, <1>4, <1>5, <1>6, <1>7, <1>8, <1>10, <1>12, <2>1 DEF Progress, SameRows
  <2>2. CASE q # s
    BY <1>1, <1>9, <1>11, <1>12, <2>2 DEF Progress, SameRows
  <2> QED
    BY <2>1, <2>2
<1>13. ASSUME NEW r \in Rows, IsUsed(r)', row'[r].content = "answer"
       PROVE  ArrivedUpTo(row[r].sent)'
  <2>1. IsUsed(r) /\ row[r].content = "answer" /\ ArrivedUpTo(row[r].sent)
    BY <1>1, <1>13 DEF SameRows, Progress
  <2>2. CASE row'[r].sent = row[r].sent
    BY <1>3, <2>1, <2>2 DEF ArrivedUpTo
  <2>3. CASE row'[r].sent # row[r].sent
    <3>1. Notes(s)
      BY <1>13, <2>3, SettlesKeeps, FailsKeeps, LetsGoKeeps
      DEF SenderStep, SenderMishap, Sends, SendFails, AnswerIsLost, RecordFails, Keeps
    <3>2. r = at[s].row /\ row'[r].sent = at[s].next + 1
      BY <2>3, <3>1, NotesKeeps
    <3>3. ArrivedUpTo(at[s].next + 1) /\ copies' = copies
      BY <1>4, <1>7, <2>1, <3>1, <3>2 DEF ArrivedBehind, ArrivedUpTo, Behind, Notes
    <3> QED
      BY <3>2, <3>3 DEF ArrivedUpTo
  <2> QED
    BY <2>2, <2>3
<1>14. ASSUME NEW r \in Rows, row'[r].status = "sent", row'[r].content = "answer"
       PROVE  ArrivedUpTo(Segments)'
  <2>1. row[r].content = "answer"
    BY <1>1, <1>14 DEF SameRows
  <2>2. CASE row[r].status = "sent"
    BY <1>3, <2>1, <2>2 DEF SentIsDelivered, AnswerHasArrived, ArrivedUpTo
  <2>3. CASE row[r].status # "sent"
    <3>1. Settles(s)
      BY <1>14, <2>3, NotesKeeps, FailsKeeps, LetsGoKeeps
      DEF SenderStep, SenderMishap, Sends, SendFails, AnswerIsLost, RecordFails, Keeps
    <3>2. r = at[s].row
      BY <1>14, <2>3, <3>1, SettlesKeeps
    <3>3. at[s].content = "answer" /\ ArrivedUpTo(at[s].next) /\ copies' = copies
      BY <1>7, <2>1, <3>1, <3>2 DEF ArrivedBehind, ArrivedUpTo, Behind, Settles
    <3>4. at[s].next >= Segments
      BY <1>4, <3>1, <3>3, DeliveryAssumption DEF Settles, HasMore, Length
    <3> QED
      BY <1>4, <3>3, <3>4, DeliveryAssumption DEF ArrivedUpTo
  <2> QED
    BY <2>2, <2>3
<1>15. Progress'
  BY <1>12, <1>13 DEF Progress
<1>16. SentIsDelivered'
  <2>1. ArrivedUpTo(Segments)' => AnswerHasArrived'
    BY DeliveryAssumption DEF ArrivedUpTo, AnswerHasArrived
  <2> QED
    BY <1>14, <2>1 DEF SentIsDelivered
<1> QED
  BY <1>15, <1>16

\* A sender that reads a row takes as sent what has arrived, and reads an answer's
\* row to send the answer.
LEMMA ReadingProgress ==
  ASSUME TypeOK, Progress, NEW s \in Senders, NEW r \in Rows, IsUsed(r),
         NEW c \in Contents, row[r].content = "answer" => c = "answer",
         at' = [at EXCEPT ![s] = Reading(r, c)],
         \A q \in Rows : Keeps(q),
         copies' = copies
  PROVE  Progress'
<1>1. /\ at'[s].row = r /\ at'[s].content = c /\ at'[s].step = "send"
      /\ at'[s].next = row[r].sent /\ at'[s].part = 0 /\ row[r].sent \in Nat
      /\ \A q \in Senders \ {s} : at'[q] = at[q]
  BY DEF TypeOK, Reading, RowStates
<1>2. \A q \in Rows : IsUsed(q)' <=> IsUsed(q)
  BY DEF IsUsed, Keeps
<1>3. \A q \in Senders : at[q].row \in Rows
  BY DEF TypeOK, SenderStates
<1>4. ASSUME NEW q \in Senders, at'[q].step # "idle"
      PROVE  /\ IsUsed(at[q].row)'
             /\ row'[at'[q].row].content = "answer" =>
                   at'[q].content = "answer" /\ ArrivedBehind(q)'
  <2>1. CASE q = s
    BY <1>1, <1>2, <2>1 DEF Progress, Keeps, ArrivedUpTo, ArrivedBehind, Behind
  <2>2. CASE q # s
    BY <1>1, <1>2, <1>3, <1>4, <2>2 DEF Progress, Keeps, ArrivedBehind, Behind
  <2> QED
    BY <2>1, <2>2
<1>5. ASSUME NEW q \in Rows, IsUsed(q)', row'[q].content = "answer"
      PROVE  ArrivedUpTo(row[q].sent)'
  BY <1>2, <1>5 DEF Progress, Keeps, ArrivedUpTo
<1> QED
  BY <1>4, <1>5 DEF Progress

\* A change that is no sender's, but of the run, of what is owed or of a lease.
LEMMA IdleProgress ==
  ASSUME TypeOK, Progress, SentIsDelivered, \A q \in Rows : Keeps(q),
         at' = at, copies' = copies
  PROVE  Progress' /\ SentIsDelivered'
<1>1. \A q \in Senders : at[q].row \in Rows
  BY DEF TypeOK, SenderStates
<1>2. \A q \in Rows : IsUsed(q)' <=> IsUsed(q)
  BY DEF IsUsed, Keeps
<1>3. Progress'
  BY <1>1, <1>2 DEF Progress, Keeps, ArrivedUpTo, ArrivedBehind, Behind
<1>4. SentIsDelivered'
  BY DEF SentIsDelivered, Keeps, AnswerHasArrived
<1> QED
  BY <1>3, <1>4

LEMMA InsertsProgress ==
  ASSUME TypeOK, Progress, SentIsDelivered, NEW r \in Rows, Inserts(r)
  PROVE  Progress' /\ SentIsDelivered'
<1>1. /\ row'[r].status = "pending" /\ row'[r].content = owed /\ row'[r].sent = 0
      /\ \A q \in Rows \ {r} : row'[q] = row[q]
  BY DEF Inserts, TypeOK
<1>2. /\ at'[Inline].step = "send" /\ at'[Inline].row = r /\ at'[Inline].content = owed
      /\ at'[Inline].next = 0 /\ at'[Inline].part = 0
      /\ \A q \in Senders \ {Inline} : at'[q] = at[q]
  BY Constants DEF Inserts, TypeOK
<1>3. copies' = copies /\ ~IsUsed(r)
  BY DEF Inserts, IsUsed
<1>5. ASSUME NEW q \in Senders, at'[q].step # "idle"
      PROVE  /\ IsUsed(at[q].row)'
             /\ row'[at'[q].row].content = "answer" =>
                   at'[q].content = "answer" /\ ArrivedBehind(q)'
  <2>1. CASE q = Inline
    BY <1>1, <1>2, <1>3, <2>1 DEF IsUsed, ArrivedBehind, Behind
  <2>2. CASE q # Inline
    <3>1. at'[q] = at[q] /\ at[q].row \in Rows \ {r}
      BY <1>2, <1>3, <1>5, <2>2 DEF Progress, TypeOK, SenderStates
    <3> QED
      BY <1>1, <1>3, <1>5, <3>1 DEF Progress, IsUsed, ArrivedBehind, Behind
  <2> QED
    BY <2>1, <2>2
<1>6. ASSUME NEW q \in Rows, IsUsed(q)', row'[q].content = "answer"
      PROVE  ArrivedUpTo(row[q].sent)'
  <2>1. CASE q = r
    BY <1>1, <2>1 DEF ArrivedUpTo
  <2>2. CASE q # r
    BY <1>1, <1>3, <1>6, <2>2 DEF Progress, IsUsed, ArrivedUpTo
  <2> QED
    BY <2>1, <2>2
<1>7. Progress'
  BY <1>5, <1>6 DEF Progress
<1>8. SentIsDelivered'
  BY <1>1, <1>3 DEF SentIsDelivered, AnswerHasArrived
<1> QED
  BY <1>7, <1>8

LEMMA StepProgress == IInv /\ TypeOK' /\ [Next]_vars => Progress' /\ SentIsDelivered'
<1> SUFFICES ASSUME TypeOK, TypeOK', NoticesComeFirst, Progress, SentIsDelivered,
                    [Next]_vars
             PROVE  Progress' /\ SentIsDelivered'
  BY DEF IInv
<1>1. row' = row => \A q \in Rows : Keeps(q)
  BY DEF Keeps
<1>2. CASE AttemptFails \/ RunEnds \/ HandOverIsLost \/ UNCHANGED vars
  BY <1>1, <1>2, IdleProgress DEF AttemptFails, RunEnds, HandOverIsLost, vars
<1>3. ASSUME NEW r \in Rows, Inserts(r)
      PROVE  Progress' /\ SentIsDelivered'
  BY <1>3, InsertsProgress
<1>4. ASSUME NEW r \in Rows, FindsRow(r)
      PROVE  Progress' /\ SentIsDelivered'
  <2>1. owed \in Contents /\ IsUsed(r)
    BY <1>4 DEF FindsRow, Live, IsUsed, TypeOK
  <2>2. row[r].content = "answer" => owed = "answer"
    BY <2>1 DEF NoticesComeFirst, Contents
  <2>3. Progress'
    BY <1>1, <1>4, <2>1, <2>2, Constants, ReadingProgress DEF FindsRow
  <2> QED
    BY <1>4, <2>3 DEF FindsRow, SentIsDelivered, AnswerHasArrived
<1>5. ASSUME NEW r \in Rows, WaitEnds(r) \/ LeaseIsOverrun(r)
      PROVE  Progress' /\ SentIsDelivered'
  BY <1>5, LeaseAlone, IdleProgress DEF WaitEnds, LeaseIsOverrun
<1>6. ASSUME NEW d \in Drainers, NEW r \in Rows, Drains(d, r)
      PROVE  Progress' /\ SentIsDelivered'
  <2>1. d \in Senders /\ row[r].content \in Contents /\ IsUsed(r)
    BY <1>6 DEF Drains, Senders, TypeOK, RowStates, IsUsed
  <2>2. \A q \in Rows : Keeps(q)
    BY <1>6, LeaseAlone DEF Drains
  <2>3. Progress'
    BY <1>6, <2>1, <2>2, ReadingProgress DEF Drains
  <2> QED
    BY <1>6, <2>2, <2>3 DEF Drains, Keeps, SentIsDelivered, AnswerHasArrived
<1>7. ASSUME NEW s \in Senders, SenderStep(s) \/ SenderMishap(s)
      PROVE  Progress' /\ SentIsDelivered'
  BY <1>7, SendersProgress
<1> QED
  BY <1>2, <1>3, <1>4, <1>5, <1>6, <1>7 DEF Next, HandsOver

-----------------------------------------------------------------------------
LEMMA InitInv == Init => IInv
<1> SUFFICES ASSUME Init
             PROVE  IInv
  OBVIOUS
<1>1. TypeOK
  BY InitTypes
<1>2. NoticesComeFirst
  BY Constants DEF Init, NoticesComeFirst, IsUsed, NoRow, AtRest
<1>3. Progress
  BY DEF Init, Progress, IsUsed, NoRow, AtRest
<1>4. Tried
  BY Constants DEF Init, Tried, NoRow, AtRest
<1>5. SentIsDelivered /\ DeadWasTried
  BY DEF Init, SentIsDelivered, DeadWasTried, NoRow
<1> QED
  BY <1>1, <1>2, <1>3, <1>4, <1>5 DEF IInv

LEMMA StepInv == IInv /\ [Next]_vars => IInv'
  BY StepTypes, StepComesFirst, StepTried, StepProgress DEF IInv

\* The inductive invariant holds throughout.
THEOREM Invariant == Spec => []IInv
  BY InitInv, StepInv, PTL DEF Spec

\* The rows and the senders keep their types.
THEOREM DeliveryTypes == Spec => []TypeOK
<1>1. IInv => TypeOK
  BY DEF IInv
<1> QED
  BY <1>1, Invariant, PTL

\* However many senders write to the answer's row, it says "sent" only when the
\* whole answer has arrived.
THEOREM SentHasArrived == Spec => []SentIsDelivered
<1>1. IInv => SentIsDelivered
  BY DEF IInv
<1> QED
  BY <1>1, Invariant, PTL

\* No row is given up before OutboxMaxAttempts failures.
THEOREM DeadHasFailed == Spec => []DeadWasTried
<1>1. IInv => DeadWasTried
  BY DEF IInv
<1> QED
  BY <1>1, Invariant, PTL

-----------------------------------------------------------------------------
(* Where the answer is: in the hands of senders, in a row, or nowhere yet.  *)

Sending(s) == at[s].step # "idle" /\ at[s].content = "answer"

AnswerRow(r) == IsUsed(r) /\ row[r].content = "answer"

Unsent ==
    /\ \A k \in 1..Segments, p \in 1..Parts : copies[k][p] = 0
    /\ \A s \in Senders : ~Sending(s)
    /\ \A r \in Rows : ~AnswerRow(r)

\* Until the answer is handed over there is nothing of it, and then it gets one row
\* at most.
Begun ==
    /\ owed = "answer" \/ ~run.ended => Unsent
    /\ owed # "none" => at[Inline].step = "idle"
    /\ \A r, q \in Rows : AnswerRow(r) /\ AnswerRow(q) => r = q

\* What a step of one sender leaves alone.
LEMMA SenderFrame ==
  ASSUME TypeOK, Progress, NEW s \in Senders, SenderStep(s) \/ SenderMishap(s)
  PROVE  /\ at[s].step # "idle" /\ at[s].row \in Rows
         /\ \A q \in Senders \ {s} : at'[q] = at[q]
         /\ \A q \in Senders : Sending(q)' => Sending(q)
         /\ \A r \in Rows : AnswerRow(r)' <=> AnswerRow(r)
         /\ UNCHANGED <<run, owed>>
<1>1. at[s].row \in Rows
  BY DEF TypeOK, SenderStates
<1>2. \A q \in Senders \ {s} : at'[q] = at[q]
  BY SendersGoOnOrRest
<1>3. SameRows
  BY SendersKeepRows DEF Progress
<1>4. at[s].step # "idle"
  BY DEF SenderStep, SenderMishap, Sends, Notes, Settles, SendFails, AnswerIsLost,
         RecordFails, LetsGo
<1>5. Sending(s)' => Sending(s)
  BY <1>4, SendersGoOnOrRest DEF Sending, AtRest
<1>6. \A q \in Senders : Sending(q)' => Sending(q)
  BY <1>2, <1>5 DEF Sending
<1>7. \A r \in Rows : AnswerRow(r)' <=> AnswerRow(r)
  BY <1>3 DEF SameRows, AnswerRow
<1> QED
  BY <1>1, <1>2, <1>4, <1>6, <1>7, SendersGoOnOrRest

\* A sender that sends nothing of the answer changes nothing of it.
LEMMA OthersKeep ==
  ASSUME TypeOK, NEW s \in Senders, SenderStep(s) \/ SenderMishap(s), ~Sending(s)
  PROVE  copies' = copies /\ cut' = cut
<1>1. at[s].content # "answer"
  BY DEF Sending, SenderStep, SenderMishap, Sends, Notes, Settles, SendFails,
         AnswerIsLost, RecordFails, LetsGo
<1>2. copies' = copies
  BY <1>1 DEF SenderStep, SenderMishap, Sends, Notes, Settles, SendFails,
              AnswerIsLost, RecordFails, LetsGo, Arrives
<1>3. cut' = cut
  BY <1>1 DEF SenderStep, SenderMishap, Sends, Notes, Settles, SendFails,
              AnswerIsLost, RecordFails, LetsGo
<1> QED
  BY <1>2, <1>3

LEMMA StepBegun == IInv /\ Begun /\ [Next]_vars => Begun'
<1> SUFFICES ASSUME IInv, Begun, [Next]_vars
             PROVE  Begun'
  OBVIOUS
<1>0. TypeOK /\ NoticesComeFirst /\ Progress
  BY DEF IInv
<1>1. ASSUME row' = row, at' = at, copies' = copies
      PROVE  /\ Unsent => Unsent'
             /\ \A r \in Rows : AnswerRow(r)' <=> AnswerRow(r)
  BY <1>1 DEF Unsent, Sending, AnswerRow, IsUsed
<1>2. CASE AttemptFails \/ RunEnds
  BY <1>1, <1>2 DEF Begun, AttemptFails, RunEnds, InlineIsIdle
<1>3. CASE HandOverIsLost \/ UNCHANGED vars
  BY <1>1, <1>3 DEF Begun, HandOverIsLost, vars
<1>4. ASSUME NEW r \in Rows, Inserts(r)
      PROVE  Begun'
  <2>1. /\ row'[r].content = owed
        /\ \A q \in Rows \ {r} : row'[q] = row[q]
    BY <1>0, <1>4 DEF Inserts, TypeOK
  <2>2. /\ at'[Inline].content = owed
        /\ \A q \in Senders \ {Inline} : at'[q] = at[q]
    BY <1>0, <1>4, Constants DEF Inserts, TypeOK
  <2>3. copies' = copies /\ owed' = "none" /\ run' = run /\ owed \in Contents
    BY <1>0, <1>4 DEF Inserts, TypeOK
  <2>4. CASE owed = "answer"
    BY <1>0, <2>1, <2>3, <2>4 DEF Begun, Unsent, AnswerRow, IsUsed, NoticesComeFirst
  <2>5. CASE owed = "notice"
    <3>1. Unsent
      BY <1>0, <2>5 DEF Begun, NoticesComeFirst
    <3>2. Unsent'
      BY <2>1, <2>2, <2>3, <2>5, <3>1 DEF Unsent, Sending, AnswerRow, IsUsed
    <3> QED
      BY <2>3, <3>2 DEF Begun, Unsent
  <2> QED
    BY <2>3, <2>4, <2>5 DEF Contents
<1>5. ASSUME NEW r \in Rows, FindsRow(r)
      PROVE  Begun'
  <2>1. /\ at'[Inline].content = owed
        /\ \A q \in Senders \ {Inline} : at'[q] = at[q]
    BY <1>0, <1>5, Constants DEF FindsRow, Reading, TypeOK
  <2>2. /\ copies' = copies /\ row' = row /\ owed' = "none" /\ run' = run
        /\ owed \in Contents
    BY <1>0, <1>5 DEF FindsRow, TypeOK
  <2>3. CASE owed = "answer"
    BY <1>0, <2>2, <2>3 DEF Begun, AnswerRow, IsUsed, NoticesComeFirst
  <2>4. CASE owed = "notice"
    <3>1. Unsent
      BY <1>0, <2>4 DEF Begun, NoticesComeFirst
    <3>2. Unsent'
      BY <2>1, <2>2, <2>4, <3>1 DEF Unsent, Sending, AnswerRow, IsUsed
    <3> QED
      BY <2>2, <3>2 DEF Begun, Unsent
  <2> QED
    BY <2>2, <2>3, <2>4 DEF Contents
<1>6. ASSUME NEW d \in Drainers, NEW r \in Rows, Drains(d, r)
      PROVE  Begun'
  <2>1. d \in Senders /\ d # Inline
    BY DeliveryAssumption DEF Senders
  <2>2. /\ at'[d].content = row[r].content
        /\ \A q \in Senders \ {d} : at'[q] = at[q]
    BY <1>0, <1>6, <2>1 DEF Drains, Reading, TypeOK
  <2>3. \A q \in Rows : AnswerRow(q)' <=> AnswerRow(q)
    BY <1>0, <1>6, LeaseAlone DEF Drains, AnswerRow, IsUsed, Keeps
  <2>4. copies' = copies /\ UNCHANGED <<owed, run>> /\ IsUsed(r)
    BY <1>6 DEF Drains, IsUsed
  <2>5. Unsent => Unsent'
    BY <2>2, <2>3, <2>4 DEF Unsent, Sending, AnswerRow
  <2> QED
    BY <2>1, <2>2, <2>3, <2>4, <2>5, Constants DEF Begun
<1>7. ASSUME NEW r \in Rows, WaitEnds(r) \/ LeaseIsOverrun(r)
      PROVE  Begun'
  <2>1. \A q \in Rows : AnswerRow(q)' <=> AnswerRow(q)
    BY <1>0, <1>7, LeaseAlone DEF WaitEnds, LeaseIsOverrun, AnswerRow, IsUsed, Keeps
  <2>2. UNCHANGED <<owed, run, at, copies>>
    BY <1>7 DEF WaitEnds, LeaseIsOverrun
  <2> QED
    BY <2>1, <2>2 DEF Begun, Unsent, Sending
<1>8. ASSUME NEW s \in Senders, SenderStep(s) \/ SenderMishap(s)
      PROVE  Begun'
  <2>1. owed # "none" => s # Inline
    BY <1>0, <1>8, SenderFrame DEF Begun
  <2>2. owed # "none" => at'[Inline].step = "idle"
    BY <1>0, <1>8, <2>1, SenderFrame, Constants DEF Begun
  <2>3. Unsent => Unsent'
    BY <1>0, <1>8, SenderFrame, OthersKeep DEF Unsent
  <2> QED
    BY <1>0, <1>8, <2>2, <2>3, SenderFrame DEF Begun
<1> QED
  BY <1>2, <1>3, <1>4, <1>5, <1>6, <1>7, <1>8 DEF Next, HandsOver

-----------------------------------------------------------------------------
(* Every copy is of a sender of its own, and every sender that starts on    *)
(* the answer's row after the first found it free: a failure or a mishap    *)
(* ended the lease before.                                                  *)

\* The senders that have a message before them.
Ahead(k, p) == {s \in Senders : Sending(s) /\ ~Behind(s, k, p)}

\* One more sender may start on a row that is free or will be.
Waiting(r) == IF row[r].lease \in {"nobody", "free"} THEN 1 ELSE 0

Counted ==
    /\ \A r \in Rows : AnswerRow(r) =>
          \A k \in 1..Segments, p \in 1..Parts :
              copies[k][p] + Cardinality(Ahead(k, p)) + Waiting(r)
                  <= 1 + failures[r] + mishaps
    /\ (\A r \in Rows : ~AnswerRow(r)) =>
          \A k \in 1..Segments, p \in 1..Parts :
              copies[k][p] + Cardinality(Ahead(k, p)) <= 1

LEMMA AheadIsFinite ==
  ASSUME NEW k, NEW p
  PROVE  /\ IsFiniteSet(Ahead(k, p)) /\ Cardinality(Ahead(k, p)) \in Nat
         /\ IsFiniteSet(Ahead(k, p)') /\ Cardinality(Ahead(k, p)') \in Nat
<1>1. IsFiniteSet(Senders)
  BY DeliveryAssumption, FS_AddElement DEF Senders
<1>2. Ahead(k, p) \subseteq Senders /\ Ahead(k, p)' \subseteq Senders
  BY DEF Ahead
<1>3. IsFiniteSet(Ahead(k, p)) /\ IsFiniteSet(Ahead(k, p)')
  BY <1>1, <1>2, FS_Subset
<1> QED
  BY <1>3, FS_CardinalityType

LEMMA AheadShrinks ==
  ASSUME NEW k, NEW p, Ahead(k, p)' \subseteq Ahead(k, p)
  PROVE  Cardinality(Ahead(k, p)') <= Cardinality(Ahead(k, p))
  BY AheadIsFinite, FS_Subset

\* When one sender at most has a message before it, that is one.
LEMMA AheadIsOne ==
  ASSUME NEW k, NEW p, NEW s, Ahead(k, p)' \subseteq {s}
  PROVE  Cardinality(Ahead(k, p)') <= 1
<1>1. IsFiniteSet({s}) /\ Cardinality({s}) = 1
  BY FS_Singleton
<1> QED
  BY <1>1, AheadIsFinite, FS_Subset

\* A message that arrives is no longer before its sender.
LEMMA SendersCount ==
  ASSUME TypeOK, Progress, NEW s \in Senders, SenderStep(s) \/ SenderMishap(s),
         NEW k \in 1..Segments, NEW p \in 1..Parts
  PROVE  copies'[k][p] + Cardinality(Ahead(k, p)')
             <= copies[k][p] + Cardinality(Ahead(k, p))
<1>1. \A q \in Senders \ {s} :
         Sending(q)' /\ ~Behind(q, k, p)' => Sending(q) /\ ~Behind(q, k, p)
  BY SenderFrame DEF Behind, Sending
<1>2. ~Sending(s)' \/ (Behind(s, k, p) => Behind(s, k, p)')
  BY Moves DEF Sending, AtRest
<1>3. Ahead(k, p)' \subseteq Ahead(k, p)
  BY <1>1, <1>2, SenderFrame DEF Ahead
<1>4. copies[k][p] \in Nat
  BY CopiesAreCounts
<1>5. CASE copies'[k][p] = copies[k][p]
  BY <1>3, <1>4, <1>5, AheadShrinks, AheadIsFinite
<1>6. CASE copies'[k][p] # copies[k][p]
  <2>1. (Sends(s) \/ AnswerIsLost(s)) /\ HasMore(s) /\ Arrives(s) /\ at[s].step = "send"
    BY <1>6 DEF SenderStep, SenderMishap, Sends, Notes, Settles, SendFails,
                AnswerIsLost, RecordFails, LetsGo
  <2>2. at[s].content = "answer"
    BY <1>6, <2>1, ArrivesCounts
  <2>3. k = at[s].next + 1 /\ p = at[s].part + 1 /\ copies'[k][p] = copies[k][p] + 1
    BY <1>6, <2>1, <2>2, ArrivesCounts
  <2>4. at[s].next \in Nat /\ at[s].part \in Nat
    BY DeliveryAssumption DEF TypeOK, SenderStates
  <2>5. ~Behind(s, k, p)
    BY <2>1, <2>3, <2>4 DEF Behind
  <2>6. s \in Ahead(k, p)
    BY <2>1, <2>2, <2>5 DEF Ahead, Sending
  <2>7. s \notin Ahead(k, p)'
    <3>1. CASE Sends(s)
      <4>1. at'[s] = AtRest \/ Behind(s, k, p)'
        BY <2>3, <3>1, Moves DEF Sends, Notes
      <4> QED
        BY <4>1 DEF Ahead, Sending, AtRest
    <3>2. CASE AnswerIsLost(s)
      BY <3>2 DEF Ahead, Sending, AtRest, AnswerIsLost, Fails, TypeOK
    <3> QED
      BY <2>1, <3>1, <3>2
  <2>8. /\ Ahead(k, p)' \subseteq Ahead(k, p) \ {s}
        /\ IsFiniteSet(Ahead(k, p) \ {s})
        /\ Cardinality(Ahead(k, p) \ {s}) = Cardinality(Ahead(k, p)) - 1
    BY <1>3, <2>6, <2>7, AheadIsFinite, FS_RemoveElement
  <2>9. Cardinality(Ahead(k, p)') <= Cardinality(Ahead(k, p)) - 1
    BY <2>8, FS_Subset
  <2> QED
    BY <1>4, <2>3, <2>9, AheadIsFinite
<1> QED
  BY <1>5, <1>6

\* A set with at most one more element.
LEMMA OneMore ==
  ASSUME NEW S, NEW T, NEW x, IsFiniteSet(S), T \subseteq S \cup {x}
  PROVE  Cardinality(T) <= Cardinality(S) + 1
<1>1. /\ IsFiniteSet(S \cup {x}) /\ Cardinality(S) \in Nat
      /\ Cardinality(S \cup {x}) = IF x \in S THEN Cardinality(S) ELSE Cardinality(S) + 1
  BY FS_AddElement, FS_CardinalityType
<1>2. Cardinality(T) \in Nat /\ Cardinality(T) <= Cardinality(S \cup {x})
  BY <1>1, FS_Subset, FS_CardinalityType
<1> QED
  BY <1>1, <1>2

\* A sender's step that frees a row of its lease is a failure or a mishap.
LEMMA RowCounts ==
  ASSUME TypeOK, TypeOK', NEW s \in Senders, SenderStep(s) \/ SenderMishap(s),
         NEW r \in Rows
  PROVE  Waiting(r)' + failures[r] + mishaps <= Waiting(r) + failures'[r] + mishaps'
<1>1. /\ failures[r] \in Nat /\ failures'[r] \in Nat
      /\ mishaps \in Nat /\ mishaps' \in Nat
  BY DeliveryAssumption DEF TypeOK
<1>2. Waiting(r) \in 0..1 /\ Waiting(r)' \in 0..1
  BY DEF Waiting
<1>3. mishaps' = mishaps \/ mishaps' = mishaps + 1
  BY DEF SenderStep, SenderMishap, Sends, Notes, Settles, SendFails, AnswerIsLost,
         RecordFails, LetsGo
<1>4. ASSUME Fails(s)
      PROVE  Waiting(r)' + failures[r] <= Waiting(r) + failures'[r]
  <2>1. CASE r = at[s].row
    <3>1. failures'[r] = failures[r] + 1
      BY <1>4, <2>1 DEF Fails, TypeOK
    <3> QED
      BY <1>1, <1>2, <3>1
  <2>2. CASE r # at[s].row
    <3>1. failures'[r] = failures[r] /\ row'[r] = row[r]
      BY <1>4, <2>2 DEF Fails, TypeOK
    <3> QED
      BY <1>1, <1>2, <3>1 DEF Waiting
  <2> QED
    BY <2>1, <2>2
<1>5. ASSUME row'[r].lease = row[r].lease, failures' = failures
      PROVE  Waiting(r)' + failures[r] <= Waiting(r) + failures'[r]
  BY <1>1, <1>2, <1>5 DEF Waiting
<1>6. CASE Fails(s)
  BY <1>1, <1>2, <1>3, <1>4, <1>6
<1>7. CASE Sends(s) \/ Notes(s) \/ Settles(s)
  <2>1. failures' = failures
    BY <1>7 DEF Sends, Notes, Settles
  <2>2. row[r] \in RowStates /\ at[s].row \in Rows
    BY DEF TypeOK, SenderStates
  <2>3. \/ row'[r] = row[r]
        \/ row'[r] = [row[r] EXCEPT !.sent = at[s].next + 1]
        \/ row'[r] = [row[r] EXCEPT !.status = "sent"]
    BY <1>7, <2>2 DEF Sends, Notes, Settles, TypeOK
  <2>4. row'[r].lease = row[r].lease
    BY <2>2, <2>3 DEF RowStates
  <2> QED
    BY <1>1, <1>2, <1>3, <1>5, <2>1, <2>4
<1>8. CASE LetsGo(s)
  <2>1. failures' = failures /\ mishaps' = mishaps + 1
    BY <1>8 DEF LetsGo
  <2> QED
    BY <1>1, <1>2, <2>1
<1> QED
  BY <1>6, <1>7, <1>8 DEF SenderStep, SenderMishap, SendFails, AnswerIsLost, RecordFails

\* As long as there is nothing of the answer there is nothing to count.
LEMMA UnsentIsCounted ==
  ASSUME Unsent'
  PROVE  Counted'
<1>1. ASSUME NEW k \in 1..Segments, NEW p \in 1..Parts
      PROVE  copies'[k][p] = 0 /\ Cardinality(Ahead(k, p)') <= 1
  BY <1>1, AheadIsOne, Constants DEF Unsent, Ahead
<1>2. \A r \in Rows : ~AnswerRow(r)'
  BY DEF Unsent
<1> QED
  BY <1>1, <1>2, AheadIsFinite DEF Counted

\* The first sender of the answer is the inline one.
LEMMA HandOverCounts ==
  ASSUME IInv, IInv', Begun, Begun', NEW r \in Rows, HandsOver(r)
  PROVE  Counted'
<1>0. TypeOK /\ TypeOK' /\ NoticesComeFirst
  BY DEF IInv
<1>1. owed \in Contents
  BY <1>0 DEF HandsOver, Inserts, FindsRow, TypeOK
<1>2. CASE owed = "notice"
  <2>1. ~run'.ended
    BY <1>0, <1>2 DEF NoticesComeFirst, HandsOver, Inserts, FindsRow
  <2> QED
    BY <2>1, UnsentIsCounted DEF Begun
<1>3. CASE owed = "answer"
  <2>1. Unsent
    BY <1>3 DEF Begun
  <2>2. /\ \A q \in Senders \ {Inline} : at'[q] = at[q]
        /\ copies' = copies
    BY <1>0, Constants DEF HandsOver, Inserts, FindsRow, TypeOK
  <2>3. \A k \in 1..Segments, p \in 1..Parts :
           copies'[k][p] = 0 /\ Cardinality(Ahead(k, p)') <= 1
    <3>1. \A k, p : Ahead(k, p)' \subseteq {Inline}
      BY <2>1, <2>2 DEF Unsent, Ahead, Sending
    <3> QED
      BY <2>1, <2>2, <3>1, AheadIsOne DEF Unsent
  <2>4. CASE FindsRow(r)
    <3>1. \A q \in Rows : ~AnswerRow(q)'
      BY <2>1, <2>4 DEF FindsRow, Unsent, AnswerRow, IsUsed
    <3> QED
      BY <2>3, <3>1, AheadIsFinite DEF Counted
  <2>5. CASE Inserts(r)
    <3>1. /\ row'[r].lease = Inline /\ row'[r].content = "answer"
          /\ row'[r].status = "pending"
          /\ \A q \in Rows \ {r} : row'[q] = row[q]
      BY <1>0, <1>3, <2>5 DEF Inserts, TypeOK
    <3>2. AnswerRow(r)' /\ \A q \in Rows : AnswerRow(q)' => q = r
      BY <2>1, <3>1 DEF AnswerRow, IsUsed, Unsent
    <3>3. Waiting(r)' = 0
      BY <3>1, Constants DEF Waiting
    <3>4. failures'[r] \in Nat /\ mishaps' \in Nat
      BY <1>0, DeliveryAssumption DEF TypeOK
    <3>5. \A k \in 1..Segments, p \in 1..Parts :
             copies'[k][p] + Cardinality(Ahead(k, p)') + Waiting(r)'
                 <= 1 + failures'[r] + mishaps'
      BY <2>3, <3>3, <3>4, AheadIsFinite
    <3> QED
      BY <3>2, <3>5 DEF Counted
  <2> QED
    BY <2>4, <2>5 DEF HandsOver
<1> QED
  BY <1>1, <1>2, <1>3 DEF Contents

\* A drainer that starts on the answer's row uses up that the row was free.
LEMMA DrainsCounts ==
  ASSUME IInv, IInv', Begun, Counted, NEW d \in Drainers, NEW r \in Rows, Drains(d, r)
  PROVE  Counted'
<1>0. TypeOK /\ TypeOK'
  BY DEF IInv
<1>1. d \in Senders /\ at[d].step = "idle"
  BY DEF Senders, Drains
<1>2. /\ at'[d].content = row[r].content
      /\ \A q \in Senders \ {d} : at'[q] = at[q]
  BY <1>0, <1>1 DEF Drains, Reading, TypeOK
<1>3. \A q \in Rows : AnswerRow(q)' <=> AnswerRow(q)
  BY <1>0, LeaseAlone DEF Drains, AnswerRow, IsUsed, Keeps
<1>4. /\ copies' = copies /\ failures' = failures /\ mishaps' = mishaps
      /\ row[r].lease = "free" /\ IsUsed(r) /\ row'[r].lease = d
      /\ \A q \in Rows \ {r} : row'[q] = row[q]
  BY <1>0 DEF Drains, IsUsed, TypeOK, RowStates
<1>5. \A k \in 1..Segments, p \in 1..Parts : copies[k][p] \in Nat
  BY <1>0, CopiesAreCounts
<1>6. ASSUME NEW k \in 1..Segments, NEW p \in 1..Parts
      PROVE  /\ Cardinality(Ahead(k, p)') <= Cardinality(Ahead(k, p)) + 1
             /\ ~AnswerRow(r) => Cardinality(Ahead(k, p)') <= Cardinality(Ahead(k, p))
  <2>1. Ahead(k, p)' \subseteq Ahead(k, p) \cup {d}
    BY <1>2 DEF Ahead, Sending, Behind
  <2>3. Cardinality(Ahead(k, p)') <= Cardinality(Ahead(k, p)) + 1
    BY <2>1, AheadIsFinite, OneMore
  <2>4. ASSUME ~AnswerRow(r)
        PROVE  Cardinality(Ahead(k, p)') <= Cardinality(Ahead(k, p))
    <3>1. ~Sending(d)'
      BY <1>2, <1>4, <2>4 DEF Sending, AnswerRow
    <3>2. Ahead(k, p)' \subseteq Ahead(k, p)
      BY <2>1, <3>1 DEF Ahead
    <3> QED
      BY <3>2, AheadShrinks
  <2> QED
    BY <2>3, <2>4
<1>7. ASSUME NEW q \in Rows, AnswerRow(q)', NEW k \in 1..Segments, NEW p \in 1..Parts
      PROVE  copies'[k][p] + Cardinality(Ahead(k, p)') + Waiting(q)'
                 <= 1 + failures'[q] + mishaps'
  <2>1. copies[k][p] + Cardinality(Ahead(k, p)) + Waiting(q) <= 1 + failures[q] + mishaps
    BY <1>3, <1>7 DEF Counted
  <2>2. failures[q] \in Nat /\ mishaps \in Nat
    BY <1>0, DeliveryAssumption DEF TypeOK
  <2>3. CASE q = r
    <3>1. Waiting(q)' = 0 /\ Waiting(q) = 1
      BY <1>1, <1>4, <2>3, Constants DEF Waiting
    <3> QED
      BY <1>4, <1>5, <1>6, <2>1, <2>2, <3>1, AheadIsFinite
  <2>4. CASE q # r
    <3>1. ~AnswerRow(r) \/ Cardinality(Ahead(k, p)') <= Cardinality(Ahead(k, p))
      <4>1. AnswerRow(q) /\ AnswerRow(r) => q = r
        BY DEF Begun
      <4> QED
        BY <1>3, <1>7, <2>4, <4>1
    <3>2. Waiting(q)' = Waiting(q) /\ Waiting(q) \in 0..1
      BY <1>4, <2>4 DEF Waiting
    <3> QED
      BY <1>4, <1>5, <1>6, <2>1, <2>2, <3>1, <3>2, AheadIsFinite
  <2> QED
    BY <2>3, <2>4
<1>8. ASSUME \A q \in Rows : ~AnswerRow(q)', NEW k \in 1..Segments, NEW p \in 1..Parts
      PROVE  copies'[k][p] + Cardinality(Ahead(k, p)') <= 1
  <2>1. ~AnswerRow(r) /\ copies[k][p] + Cardinality(Ahead(k, p)) <= 1
    BY <1>3, <1>8 DEF Counted
  <2> QED
    BY <1>4, <1>5, <1>6, <2>1, AheadIsFinite
<1> QED
  BY <1>7, <1>8 DEF Counted

LEMMA StepCounted == IInv /\ IInv' /\ Begun /\ Begun' /\ Counted /\ [Next]_vars => Counted'
<1> SUFFICES ASSUME IInv, IInv', Begun, Begun', Counted, [Next]_vars
             PROVE  Counted'
  OBVIOUS
<1>0. TypeOK /\ TypeOK' /\ Progress
  BY DEF IInv
<1>1. \A k \in 1..Segments, p \in 1..Parts : copies[k][p] \in Nat
  BY <1>0, CopiesAreCounts
<1>2. \A r \in Rows : failures[r] \in Nat /\ failures'[r] \in Nat /\ mishaps \in Nat
                      /\ mishaps' \in Nat /\ Waiting(r) \in 0..1 /\ Waiting(r)' \in 0..1
  BY <1>0, DeliveryAssumption DEF TypeOK, Waiting
\* The answer's messages are no more than before, and the rows explain as many.
<1>3. ASSUME \A r \in Rows : AnswerRow(r)' <=> AnswerRow(r),
             \A k \in 1..Segments, p \in 1..Parts :
                copies'[k][p] + Cardinality(Ahead(k, p)')
                    <= copies[k][p] + Cardinality(Ahead(k, p)),
             \A r \in Rows :
                Waiting(r)' + failures[r] + mishaps <= Waiting(r) + failures'[r] + mishaps',
             \A k \in 1..Segments, p \in 1..Parts : copies'[k][p] \in Nat
      PROVE  Counted'
  <2>1. ASSUME NEW r \in Rows, AnswerRow(r)', NEW k \in 1..Segments, NEW p \in 1..Parts
        PROVE  copies'[k][p] + Cardinality(Ahead(k, p)') + Waiting(r)'
                   <= 1 + failures'[r] + mishaps'
    <3>1. copies[k][p] + Cardinality(Ahead(k, p)) + Waiting(r) <= 1 + failures[r] + mishaps
      BY <1>3, <2>1 DEF Counted
    <3> QED
      BY <1>1, <1>2, <1>3, <3>1, AheadIsFinite
  <2>2. ASSUME \A r \in Rows : ~AnswerRow(r)', NEW k \in 1..Segments, NEW p \in 1..Parts
        PROVE  copies'[k][p] + Cardinality(Ahead(k, p)') <= 1
    <3>1. copies[k][p] + Cardinality(Ahead(k, p)) <= 1
      BY <1>3, <2>2 DEF Counted
    <3> QED
      BY <1>1, <1>3, <3>1, AheadIsFinite
  <2> QED
    BY <2>1, <2>2 DEF Counted
<1>4. ASSUME at' = at, copies' = copies
      PROVE  \A k \in 1..Segments, p \in 1..Parts :
                copies'[k][p] + Cardinality(Ahead(k, p)')
                    <= copies[k][p] + Cardinality(Ahead(k, p))
  <2>1. \A k \in 1..Segments, p \in 1..Parts :
           Cardinality(Ahead(k, p)') <= Cardinality(Ahead(k, p))
    BY <1>4, AheadShrinks DEF Ahead, Sending, Behind
  <2> QED
    BY <1>1, <1>4, <2>1, AheadIsFinite
<1>5. CASE AttemptFails \/ RunEnds \/ HandOverIsLost \/ UNCHANGED vars
  <2>1. /\ UNCHANGED <<row, at, copies, failures>>
        /\ mishaps' = mishaps \/ mishaps' = mishaps + 1
    BY <1>5 DEF AttemptFails, RunEnds, HandOverIsLost, vars
  <2>2. \A r \in Rows : Waiting(r)' = Waiting(r) /\ (AnswerRow(r)' <=> AnswerRow(r))
    BY <2>1 DEF Waiting, AnswerRow, IsUsed
  <2>3. \A r \in Rows :
           Waiting(r)' + failures[r] + mishaps <= Waiting(r) + failures'[r] + mishaps'
    BY <1>2, <2>1, <2>2
  <2> QED
    BY <1>1, <1>3, <1>4, <2>1, <2>2, <2>3
<1>6. ASSUME NEW r \in Rows, HandsOver(r)
      PROVE  Counted'
  BY <1>6, HandOverCounts
<1>7. ASSUME NEW r \in Rows, WaitEnds(r) \/ LeaseIsOverrun(r)
      PROVE  Counted'
  <2>1. /\ UNCHANGED <<at, copies, failures>>
        /\ \A q \in Rows \ {r} : row'[q] = row[q]
        /\ \/ mishaps' = mishaps /\ row[r].lease = "nobody"
           \/ mishaps' = mishaps + 1
    BY <1>0, <1>7 DEF WaitEnds, LeaseIsOverrun, TypeOK
  <2>2. \A q \in Rows : AnswerRow(q)' <=> AnswerRow(q)
    BY <1>0, <1>7, LeaseAlone DEF WaitEnds, LeaseIsOverrun, AnswerRow, IsUsed, Keeps
  <2>3. ASSUME NEW q \in Rows
        PROVE  Waiting(q)' + failures[q] + mishaps <= Waiting(q) + failures'[q] + mishaps'
    <3>1. CASE q # r
      BY <1>2, <2>1, <3>1 DEF Waiting
    <3>2. CASE q = r
      BY <1>2, <2>1, <3>2 DEF Waiting
    <3> QED
      BY <3>1, <3>2
  <2> QED
    BY <1>1, <1>3, <1>4, <2>1, <2>2, <2>3
<1>8. ASSUME NEW d \in Drainers, NEW r \in Rows, Drains(d, r)
      PROVE  Counted'
  BY <1>8, DrainsCounts
<1>9. ASSUME NEW s \in Senders, SenderStep(s) \/ SenderMishap(s)
      PROVE  Counted'
  <2>1. \A k \in 1..Segments, p \in 1..Parts :
           copies'[k][p] + Cardinality(Ahead(k, p)')
               <= copies[k][p] + Cardinality(Ahead(k, p))
    BY <1>0, <1>9, SendersCount
  <2>2. \A r \in Rows :
           Waiting(r)' + failures[r] + mishaps <= Waiting(r) + failures'[r] + mishaps'
    BY <1>0, <1>9, RowCounts
  <2>3. copies' \in [1..Segments -> [1..Parts -> Nat]]
    BY <1>0 DEF TypeOK
  <2>4. \A k \in 1..Segments : copies'[k] \in [1..Parts -> Nat]
    BY <2>3
  <2>5. \A k \in 1..Segments, p \in 1..Parts : copies'[k][p] \in Nat
    BY <2>4
  <2> QED
    BY <1>0, <1>3, <1>9, <2>1, <2>2, <2>5, SenderFrame
<1> QED
  BY <1>5, <1>6, <1>7, <1>8, <1>9 DEF Next, HandsOver

-----------------------------------------------------------------------------
(* While nothing goes wrong but refusals, the answer is in one hand at a    *)
(* time: that of the sender that has the row's lease, or of the inline      *)
(* sender that sends it on the row of a notice.                             *)

\* Of what a sender has before it, only refusals inside the segment left copies.
CutAhead(s) ==
    \A k \in 1..Segments, p \in 1..Parts : ~Behind(s, k, p) => copies[k][p] <= cut[k]

\* So it is of the segments after the first n.
CutAfter(n) == \A k \in 1..Segments, p \in 1..Parts : n < k => copies[k][p] <= cut[k]

\* The sender that has the answer is the only one, and has the lease of the
\* answer's row if there is one and counts as the row does.
OneSender ==
    /\ \A s, q \in Senders : Sending(s) /\ Sending(q) => s = q
    /\ \A s \in Senders : Sending(s) => CutAhead(s)
    /\ \A s \in Senders, r \in Rows :
          Sending(s) /\ AnswerRow(r) =>
              at[s].row = r /\ row[r].lease = s /\ at[s].next = row[r].sent

\* Between senders the row says what is left.
RowSaysRest ==
    \A r \in Rows :
        AnswerRow(r) /\ row[r].status = "pending" /\ (\A s \in Senders : ~Sending(s)) =>
            CutAfter(row[r].sent)

CutOnce == \A k \in 1..Segments, p \in 1..Parts : copies[k][p] <= 1 + cut[k]

OnceInv == OneSender /\ RowSaysRest /\ CutOnce

LEMMA CutsAreCounts ==
  ASSUME TypeOK
  PROVE  \A k \in 1..Segments : cut[k] \in Nat
  BY DEF TypeOK

\* A step that touches neither the answer's sender nor the answer's row.
LEMMA AsideOnce ==
  ASSUME OnceInv,
         \A q \in Senders : Sending(q)' <=> Sending(q),
         \A q \in Senders : Sending(q) => at'[q] = at[q],
         \A r \in Rows : AnswerRow(r)' <=> AnswerRow(r),
         \A r \in Rows : AnswerRow(r) => row'[r] = row[r],
         copies' = copies, cut' = cut
  PROVE  OnceInv'
<1>1. \A q \in Senders : Sending(q) => (CutAhead(q) => CutAhead(q)')
  BY DEF CutAhead, Behind
<1>2. OneSender'
  BY <1>1 DEF OnceInv, OneSender
<1>3. RowSaysRest'
  BY DEF OnceInv, RowSaysRest, CutAfter
<1>4. CutOnce'
  BY DEF OnceInv, CutOnce
<1> QED
  BY <1>2, <1>3, <1>4 DEF OnceInv

\* Nothing of the answer was sent: whatever sender and row it is given to, they are
\* alone.
LEMMA FirstOnce ==
  ASSUME TypeOK, Unsent, copies' = copies, cut' = cut,
         NEW s \in Senders, \A q \in Senders : Sending(q)' => q = s, Sending(s)',
         \A r \in Rows : AnswerRow(r)' =>
             at'[s].row = r /\ row'[r].lease = s /\ at'[s].next = row'[r].sent
  PROVE  OnceInv'
<1>1. \A k \in 1..Segments, p \in 1..Parts :
         copies'[k][p] <= cut'[k] /\ copies'[k][p] <= 1 + cut'[k]
  BY CutsAreCounts DEF Unsent
<1>2. OneSender'
  BY <1>1 DEF OneSender, CutAhead
<1>3. RowSaysRest'
  BY <1>1 DEF RowSaysRest, CutAfter
<1>4. CutOnce'
  BY <1>1 DEF CutOnce
<1> QED
  BY <1>2, <1>3, <1>4 DEF OnceInv

LEMMA HandOverOnce ==
  ASSUME IInv, Begun, OnceInv, NEW r \in Rows, HandsOver(r)
  PROVE  OnceInv'
<1>0. TypeOK /\ NoticesComeFirst
  BY DEF IInv
<1>1. /\ at'[Inline].step = "send" /\ at'[Inline].row = r /\ at'[Inline].content = owed
      /\ at'[Inline].next = row'[r].sent
      /\ \A q \in Senders \ {Inline} : at'[q] = at[q]
  BY <1>0, Constants DEF HandsOver, Inserts, FindsRow, Reading, TypeOK
<1>2. /\ copies' = copies /\ cut' = cut /\ owed \in Contents /\ at[Inline].step = "idle"
      /\ \A q \in Rows \ {r} : row'[q] = row[q]
      /\ row' = row \/ (~IsUsed(r) /\ row'[r].content = owed /\ row'[r].lease = Inline)
  BY <1>0 DEF HandsOver, Inserts, FindsRow, TypeOK, Begun, IsUsed
<1>3. CASE owed = "answer"
  <2>1. Unsent
    BY <1>3 DEF Begun
  <2>2. Sending(Inline)' /\ \A q \in Senders : Sending(q)' => q = Inline
    BY <1>1, <1>3, <2>1 DEF Sending, Unsent
  <2>3. \A q \in Rows : AnswerRow(q)' => q = r /\ row'[q].lease = Inline
    BY <1>2, <2>1 DEF AnswerRow, IsUsed, Unsent
  <2> QED
    BY <1>0, <1>1, <1>2, <2>1, <2>2, <2>3, Constants, FirstOnce
<1>4. CASE owed = "notice"
  <2>1. \A q \in Senders : (Sending(q)' <=> Sending(q)) /\ (Sending(q) => at'[q] = at[q])
    BY <1>1, <1>2, <1>4 DEF Sending
  <2>2. \A q \in Rows : (AnswerRow(q)' <=> AnswerRow(q)) /\ (AnswerRow(q) => row'[q] = row[q])
    BY <1>2, <1>4 DEF AnswerRow, IsUsed
  <2> QED
    BY <1>2, <2>1, <2>2, AsideOnce
<1> QED
  BY <1>2, <1>3, <1>4 DEF Contents

\* A drainer takes the answer's row only when nobody sends the answer.
LEMMA DrainsOnce ==
  ASSUME IInv, Begun, OnceInv, NEW d \in Drainers, NEW r \in Rows, Drains(d, r)
  PROVE  OnceInv'
<1>0. TypeOK
  BY DEF IInv
<1>1. d \in Senders /\ row[r].sent \in Nat
  BY <1>0 DEF Senders, TypeOK, RowStates
<1>2. /\ at'[d].step = "send" /\ at'[d].content = row[r].content /\ at'[d].row = r
      /\ at'[d].next = row[r].sent /\ at'[d].part = 0
      /\ \A q \in Senders \ {d} : at'[q] = at[q]
  BY <1>0, <1>1 DEF Drains, Reading, TypeOK
<1>3. /\ copies' = copies /\ cut' = cut /\ at[d].step = "idle"
      /\ row[r].status = "pending" /\ row[r].lease = "free"
      /\ \A q \in Rows \ {r} : row'[q] = row[q]
  BY <1>0 DEF Drains, TypeOK
<1>4. \A q \in Rows : Keeps(q)
  BY <1>0, LeaseAlone DEF Drains
<1>5. \A q \in Rows : AnswerRow(q)' <=> AnswerRow(q)
  BY <1>4 DEF AnswerRow, IsUsed, Keeps
<1>6. CASE AnswerRow(r)
  <2>1. \A q \in Senders : ~Sending(q)
    BY <1>3, <1>6, Constants DEF OnceInv, OneSender
  <2>2. \A q \in Senders : Sending(q)' <=> q = d
    BY <1>1, <1>2, <1>6, <2>1 DEF Sending, AnswerRow
  <2>3. CutAfter(row[r].sent)
    BY <1>3, <1>6, <2>1 DEF OnceInv, RowSaysRest
  <2>4. CutAhead(d)'
    BY <1>1, <1>2, <1>3, <2>3 DEF CutAfter, CutAhead, Behind
  <2>5. \A q \in Rows : AnswerRow(q)' => q = r
    BY <1>5, <1>6 DEF Begun
  <2>6. row'[r].lease = d /\ row'[r].sent = row[r].sent
    BY <1>0, <1>4 DEF Drains, TypeOK, RowStates, Keeps
  <2>7. OneSender'
    BY <1>2, <2>2, <2>4, <2>5, <2>6 DEF OneSender
  <2>8. RowSaysRest'
    BY <1>1, <2>2 DEF RowSaysRest
  <2>9. CutOnce'
    BY <1>3 DEF OnceInv, CutOnce
  <2> QED
    BY <2>7, <2>8, <2>9 DEF OnceInv
<1>7. CASE ~AnswerRow(r)
  <2>1. row[r].content # "answer"
    BY <1>3, <1>7 DEF AnswerRow, IsUsed
  <2>2. \A q \in Senders : (Sending(q)' <=> Sending(q)) /\ (Sending(q) => at'[q] = at[q])
    BY <1>2, <1>3, <2>1 DEF Sending
  <2>3. \A q \in Rows : AnswerRow(q) => row'[q] = row[q]
    BY <1>3, <1>7
  <2> QED
    BY <1>3, <1>5, <2>2, <2>3, AsideOnce
<1> QED
  BY <1>6, <1>7

\* A lease that ends is nobody's: the answer's row has no sender then.
LEMMA WaitEndsOnce ==
  ASSUME IInv, OnceInv, NEW r \in Rows, WaitEnds(r)
  PROVE  OnceInv'
<1>0. TypeOK
  BY DEF IInv
<1>1. \A q \in Rows : Keeps(q)
  BY <1>0, LeaseAlone DEF WaitEnds
<1>2. \A q \in Rows : AnswerRow(q)' <=> AnswerRow(q)
  BY <1>1 DEF AnswerRow, IsUsed, Keeps
<1>3. /\ UNCHANGED <<at, copies, cut>> /\ row[r].lease = "nobody"
      /\ \A q \in Rows \ {r} : row'[q] = row[q]
  BY <1>0 DEF WaitEnds, TypeOK
<1>4. \A q \in Senders : (Sending(q)' <=> Sending(q)) /\ (CutAhead(q)' <=> CutAhead(q))
  BY <1>3 DEF Sending, CutAhead, Behind
<1>5. ASSUME NEW s \in Senders, NEW q \in Rows, Sending(s), AnswerRow(q)
      PROVE  at'[s].row = q /\ row'[q].lease = s /\ at'[s].next = row'[q].sent
  <2>1. at[s].row = q /\ row[q].lease = s /\ at[s].next = row[q].sent
    BY <1>5 DEF OnceInv, OneSender
  <2>2. q # r
    BY <1>3, <2>1, Constants
  <2> QED
    BY <1>3, <2>1, <2>2
<1>6. OneSender'
  BY <1>2, <1>4, <1>5 DEF OnceInv, OneSender
<1>7. RowSaysRest'
  BY <1>1, <1>2, <1>3, <1>4 DEF OnceInv, RowSaysRest, CutAfter, Keeps
<1> QED
  BY <1>3, <1>6, <1>7 DEF OnceInv, CutOnce

\* The answer goes on in the hand that has it, or goes back to its row.
LEMMA AnswerStepOnce ==
  ASSUME TypeOK, Progress, OnceInv, NEW s \in Senders, SenderStep(s), Sending(s)
  PROVE  OnceInv'
<1>1. \A q \in Senders \ {s} : ~Sending(q) /\ ~Sending(q)'
  BY SenderFrame DEF OnceInv, OneSender
<1>2. \A r \in Rows : AnswerRow(r)' <=> AnswerRow(r)
  BY SenderFrame
<1>3. \A r \in Rows :
         AnswerRow(r) => at[s].row = r /\ row[r].lease = s /\ at[s].next = row[r].sent
  BY DEF OnceInv, OneSender
<1>4. /\ CutAhead(s) /\ CutOnce /\ at[s] \in SenderStates
      /\ at[s].next \in Nat /\ at[s].part \in 0..(Parts - 1)
  BY DEF OnceInv, OneSender, TypeOK, SenderStates
<1>5. \A k \in 1..Segments : cut[k] \in Nat /\ \A p \in 1..Parts : copies[k][p] \in Nat
  BY CutsAreCounts, CopiesAreCounts
<1>6. CASE Sends(s)
  <2>1. /\ row' = row /\ cut' = cut /\ at'[s].row = at[s].row /\ at'[s].next = at[s].next
        /\ at'[s].content = "answer" /\ at'[s].step # "idle"
    BY <1>4, <1>6 DEF Sends, TypeOK, Sending, SenderStates
  <2>2. \A k \in 1..Segments, p \in 1..Parts :
           copies'[k][p] = IF k = at[s].next + 1 /\ p = at[s].part + 1
                             THEN copies[k][p] + 1
                             ELSE copies[k][p]
    BY <1>6, ArrivesCounts DEF Sends, Sending
  <2>3. \A k \in 1..Segments, p \in 1..Parts :
           Behind(s, k, p)' <=>
               Behind(s, k, p) \/ (k = at[s].next + 1 /\ p = at[s].part + 1)
    <3>1. at'[s] # AtRest /\ ~Notes(s)
      BY <1>6, <2>1 DEF AtRest, Sends, Notes
    <3> QED
      BY <3>1, Moves
  <2>4. ~Behind(s, at[s].next + 1, at[s].part + 1)
    BY <1>4, <1>6, DeliveryAssumption DEF Behind, Sends
  <2>5. CutAhead(s)'
    BY <1>4, <2>1, <2>2, <2>3 DEF CutAhead
  <2>6. CutOnce'
    BY <1>4, <1>5, <2>1, <2>2, <2>4 DEF CutAhead, CutOnce
  <2>7. OneSender'
    BY <1>1, <1>2, <1>3, <2>1, <2>5 DEF OneSender
  <2>8. Sending(s)'
    BY <2>1 DEF Sending
  <2> QED
    BY <2>6, <2>7, <2>8 DEF OnceInv, RowSaysRest
<1>7. CASE Notes(s)
  <2>1. /\ copies' = copies /\ cut' = cut /\ at'[s].row = at[s].row
        /\ at'[s].next = at[s].next + 1 /\ at'[s].content = "answer"
        /\ at'[s].step = "send"
    BY <1>4, <1>7 DEF Notes, TypeOK, Sending, SenderStates
  <2>2. \A k \in 1..Segments, p \in 1..Parts : Behind(s, k, p)' <=> Behind(s, k, p)
    <3>1. at'[s] # AtRest
      BY <2>1 DEF AtRest
    <3>2. ~Sends(s)
      BY <1>7 DEF Sends, Notes
    <3> QED
      BY <3>1, <3>2, Moves
  <2>3. CutAhead(s)' /\ CutOnce'
    BY <1>4, <2>1, <2>2 DEF CutAhead, CutOnce
  <2>4. ASSUME NEW r \in Rows, AnswerRow(r)
        PROVE  row'[r].lease = s /\ row'[r].sent = at[s].next + 1
    <3>1. row' = [row EXCEPT ![r] = [row[r] EXCEPT !.sent = at[s].next + 1]]
      BY <1>3, <1>7, <2>4 DEF Notes
    <3>2. row[r] \in RowStates /\ row'[r] = [row[r] EXCEPT !.sent = at[s].next + 1]
      BY <3>1 DEF TypeOK
    <3> QED
      BY <1>3, <2>4, <3>2 DEF RowStates
  <2>5. OneSender'
    BY <1>1, <1>2, <1>3, <2>1, <2>3, <2>4 DEF OneSender
  <2>6. Sending(s)'
    BY <2>1 DEF Sending
  <2> QED
    BY <2>3, <2>5, <2>6 DEF OnceInv, RowSaysRest
\* The sender leaves, and nobody sends the answer.
<1>8. ASSUME at'[s] = AtRest, copies' = copies,
             \A k \in 1..Segments : cut'[k] >= cut[k] /\ cut'[k] \in Nat,
             \A r \in Rows : AnswerRow(r) /\ row'[r].status = "pending" =>
                 CutAfter(row[r].sent)'
      PROVE  OnceInv'
  <2>1. \A q \in Senders : ~Sending(q)'
    BY <1>1, <1>8 DEF Sending, AtRest
  <2>2. OneSender' /\ RowSaysRest'
    BY <1>2, <1>8, <2>1 DEF OneSender, RowSaysRest
  <2>3. CutOnce'
    BY <1>4, <1>5, <1>8 DEF CutOnce
  <2> QED
    BY <2>2, <2>3 DEF OnceInv
<1>9. CASE Settles(s)
  <2>1. at'[s] = AtRest /\ copies' = copies /\ cut' = cut
    BY <1>9 DEF Settles, TypeOK
  <2>2. ASSUME NEW r \in Rows, AnswerRow(r)
        PROVE  CutAfter(row[r].sent)'
    <3>1. row'[r].sent = at[s].next
      BY <1>3, <1>9, <2>2, SettlesKeeps
    <3>2. at[s].next >= Segments
      BY <1>4, <1>9, DeliveryAssumption DEF Settles, HasMore, Length, Sending
    <3> QED
      BY <1>4, <3>1, <3>2, DeliveryAssumption DEF CutAfter
  <2> QED
    BY <1>5, <1>8, <2>1, <2>2
<1>10. CASE SendFails(s)
  <2> DEFINE n == at[s].next + 1
  <2>1. /\ at'[s] = AtRest /\ copies' = copies /\ at[s].step = "send"
        /\ n \in 1..Segments
    BY <1>10, NextMessage DEF SendFails, Fails, TypeOK
  <2>2. cut \in [1..Segments -> Nat] /\ at[s].content = "answer"
    BY DEF TypeOK, Sending
  <2>3. cut' = IF at[s].part > 0 THEN [cut EXCEPT ![n] = @ + 1] ELSE cut
    BY <1>10, <2>2 DEF SendFails
  <2>4. \A k \in 1..Segments : /\ cut'[k] >= cut[k] /\ cut'[k] \in Nat
                               /\ k = n /\ at[s].part > 0 => cut'[k] = cut[k] + 1
    <3> HIDE DEF n
    <3> QED
      BY <1>5, <2>1, <2>2, <2>3
  <2>5. \A k \in 1..Segments, p \in 1..Parts :
           at[s].next < k => copies[k][p] <= cut'[k]
    <3> SUFFICES ASSUME NEW k \in 1..Segments, NEW p \in 1..Parts, at[s].next < k
                 PROVE  copies[k][p] <= cut'[k]
      OBVIOUS
    <3>1. CASE k = n /\ at[s].part > 0
      BY <1>4, <1>5, <2>4, <3>1 DEF CutOnce
    <3>2. CASE ~(k = n /\ at[s].part > 0)
      <4>1. ~Behind(s, k, p)
        BY <1>4, <2>1, <3>2 DEF Behind
      <4> QED
        BY <1>4, <1>5, <2>4, <4>1 DEF CutAhead
    <3> QED
      BY <3>1, <3>2
  <2>6. ASSUME NEW r \in Rows, AnswerRow(r)
        PROVE  CutAfter(row[r].sent)'
    <3>1. row'[r].sent = at[s].next
      BY <1>3, <1>10, <2>6, FailsKeeps DEF SendFails
    <3> QED
      BY <2>1, <2>5, <3>1 DEF CutAfter
  <2> QED
    BY <1>8, <2>1, <2>4, <2>6
<1> QED
  BY <1>6, <1>7, <1>9, <1>10 DEF SenderStep

\* A sender that has nothing of the answer touches nothing of the answer.
LEMMA OthersStepOnce ==
  ASSUME TypeOK, Progress, OnceInv, NEW s \in Senders, SenderStep(s), ~Sending(s)
  PROVE  OnceInv'
<1>1. \A q \in Senders : (Sending(q)' <=> Sending(q)) /\ (Sending(q) => at'[q] = at[q])
  BY SenderFrame DEF Sending
<1>2. \A r \in Rows : AnswerRow(r) => r # at[s].row
  BY SenderFrame DEF AnswerRow, Progress, Sending
<1>3. \A r \in Rows : AnswerRow(r) => row'[r] = row[r]
  BY <1>2 DEF SenderStep, Sends, Notes, Settles, SendFails, Fails, TypeOK
<1> QED
  BY <1>1, <1>3, SenderFrame, OthersKeep, AsideOnce

\* OnceInv is kept by every step without a mishap, and mishaps are counted.
LEMMA StepOnce ==
  ASSUME IInv, IInv', Begun, [Next]_vars, mishaps = 0 => OnceInv, mishaps' = 0
  PROVE  OnceInv'
<1>0. TypeOK /\ Progress
  BY DEF IInv
<1>1. TypeOK /\ Progress /\ mishaps \in Nat
  BY <1>0, DeliveryAssumption DEF TypeOK
<1>2. ASSUME mishaps' = mishaps + 1
      PROVE  FALSE
  BY <1>1, <1>2
<1>3. mishaps' = mishaps
  BY <1>2 DEF Next, AttemptFails, RunEnds, HandOverIsLost, HandsOver, Inserts, FindsRow,
              WaitEnds, LeaseIsOverrun, Drains, SenderStep, Sends, Notes, Settles,
              SendFails, SenderMishap, AnswerIsLost, RecordFails, LetsGo, vars
<1>4. OnceInv
  BY <1>3
<1>5. CASE AttemptFails \/ RunEnds \/ UNCHANGED vars
  <2>1. UNCHANGED <<row, at, copies, cut>>
    BY <1>5 DEF AttemptFails, RunEnds, vars
  <2>2. \A q \in Senders : (Sending(q)' <=> Sending(q)) /\ at'[q] = at[q]
    BY <2>1 DEF Sending
  <2>3. \A r \in Rows : (AnswerRow(r)' <=> AnswerRow(r)) /\ row'[r] = row[r]
    BY <2>1 DEF AnswerRow, IsUsed
  <2> QED
    BY <1>4, <2>1, <2>2, <2>3, AsideOnce
<1>6. ASSUME NEW r \in Rows, HandsOver(r) \/ WaitEnds(r)
      PROVE  OnceInv'
  BY <1>4, <1>6, HandOverOnce, WaitEndsOnce
<1>7. ASSUME NEW d \in Drainers, NEW r \in Rows, Drains(d, r)
      PROVE  OnceInv'
  BY <1>4, <1>7, DrainsOnce
<1>8. ASSUME NEW s \in Senders, SenderStep(s)
      PROVE  OnceInv'
  BY <1>1, <1>4, <1>8, AnswerStepOnce, OthersStepOnce
<1>9. ~HandOverIsLost /\ (\A r \in Rows : ~LeaseIsOverrun(r))
      /\ (\A s \in Senders : ~SenderMishap(s))
  BY <1>2 DEF HandOverIsLost, LeaseIsOverrun, SenderMishap, AnswerIsLost, RecordFails, LetsGo
<1> QED
  BY <1>5, <1>6, <1>7, <1>8, <1>9 DEF Next

LEMMA CountedHasCauses ==
  ASSUME TypeOK, Counted, mishaps = 0 => CutOnce
  PROVE  CopiesHaveCauses
<1> SUFFICES ASSUME NEW k \in 1..Segments, NEW p \in 1..Parts
             PROVE  /\ mishaps = 0 => copies[k][p] <= 1 + cut[k]
                    /\ \E r \in Rows : copies[k][p] <= 1 + failures[r] + mishaps
  BY DEF CopiesHaveCauses
<1>1. mishaps = 0 => copies[k][p] <= 1 + cut[k]
  BY DEF CutOnce
<1>2. copies[k][p] \in Nat /\ Cardinality(Ahead(k, p)) \in Nat /\ mishaps \in Nat
  <2>1. mishaps \in Nat
    BY DeliveryAssumption DEF TypeOK
  <2> QED
    BY <2>1, CopiesAreCounts, AheadIsFinite
<1>3. \A r \in Rows : failures[r] \in Nat /\ Waiting(r) \in 0..1
  BY DEF TypeOK, Waiting
<1>4. ASSUME NEW r \in Rows, AnswerRow(r)
      PROVE  copies[k][p] <= 1 + failures[r] + mishaps
  <2>1. copies[k][p] + Cardinality(Ahead(k, p)) + Waiting(r) <= 1 + failures[r] + mishaps
    BY <1>4 DEF Counted
  <2>2. failures[r] \in Nat /\ Waiting(r) \in 0..1
    BY <1>3
  <2> QED
    BY <1>2, <2>1, <2>2
<1>5. ASSUME \A r \in Rows : ~AnswerRow(r)
      PROVE  copies[k][p] <= 1 + failures[1] + mishaps
  <2>1. copies[k][p] + Cardinality(Ahead(k, p)) <= 1
    BY <1>5 DEF Counted
  <2>2. failures[1] \in Nat
    BY <1>3, Constants
  <2> QED
    BY <1>2, <2>1, <2>2
<1> QED
  BY <1>1, <1>4, <1>5, Constants

\* Every copy of a message of the answer has its cause, for any number of drainers,
\* though no write of a sender checks the lease: while nothing goes wrong but
\* refusals, one inside the message's own segment; and whatever goes wrong, a
\* failure or a mishap for each copy beyond the first.
THEOREM AnswerCopiesHaveCauses == Spec => []CopiesHaveCauses
<1> DEFINE I == Begun /\ Counted /\ (mishaps = 0 => OnceInv)
<1>1. Init => I
  <2> SUFFICES ASSUME Init
               PROVE  I
    OBVIOUS
  <2>1. Unsent
    BY DEF Init, Unsent, Sending, AnswerRow, IsUsed, AtRest, NoRow
  <2>2. Begun
    BY <2>1, Constants DEF Init, Begun, Unsent, AtRest
  <2>3. \A k, p : Ahead(k, p) = {}
    BY <2>1 DEF Ahead, Unsent
  <2>4. Counted
    <3>1. \A k, p : Cardinality(Ahead(k, p)) = 0
      BY <2>3, FS_EmptySet
    <3> QED
      BY <2>1, <3>1 DEF Counted, Unsent
  <2>5. OneSender /\ RowSaysRest
    BY <2>1 DEF Unsent, OneSender, RowSaysRest
  <2>6. CutOnce
    BY <2>1 DEF Init, Unsent, CutOnce
  <2> QED
    BY <2>2, <2>4, <2>5, <2>6 DEF OnceInv
<1>2. IInv /\ IInv' /\ [Next]_vars /\ I => I'
  BY StepBegun, StepCounted, StepOnce
<1>3. IInv /\ I => CopiesHaveCauses
  BY CountedHasCauses DEF IInv, OnceInv
<1> QED
  BY <1>1, <1>2, <1>3, Invariant, PTL DEF Spec

-----------------------------------------------------------------------------
\* What the outbox has is the answer, as long as no attempt handed over a notice.
AnswerOnly ==
    run.notices = 0 => owed # "notice" /\ \A r \in Rows : row[r].content = "answer"

LEMMA StepAnswerOnly == IInv /\ AnswerOnly /\ [Next]_vars => AnswerOnly'
<1> SUFFICES ASSUME IInv, AnswerOnly, [Next]_vars, run'.notices = 0
             PROVE  owed' # "notice" /\ \A r \in Rows : row'[r].content = "answer"
  BY DEF AnswerOnly
<1>1. TypeOK /\ Progress
  BY DEF IInv
<1>2. ~AttemptFails
  <2>1. run.notices \in Nat
    BY <1>1, DeliveryAssumption DEF TypeOK
  <2>2. AttemptFails => run'.notices = run.notices + 1
    BY <1>1 DEF AttemptFails, TypeOK
  <2> QED
    BY <2>1, <2>2
<1>3. run'.notices = run.notices
  BY <1>1, <1>2, SendersGoOnOrRest
  DEF Next, RunEnds, HandOverIsLost, HandsOver, Inserts, FindsRow, WaitEnds,
      LeaseIsOverrun, Drains, TypeOK, vars
<1>4. owed # "notice" /\ \A r \in Rows : row[r].content = "answer"
  BY <1>3 DEF AnswerOnly
<1>5. CASE RunEnds \/ HandOverIsLost \/ UNCHANGED vars
  BY <1>4, <1>5 DEF RunEnds, HandOverIsLost, vars
<1>6. ASSUME NEW r \in Rows, HandsOver(r)
      PROVE  owed' # "notice" /\ \A q \in Rows : row'[q].content = "answer"
  <2>1. CASE Inserts(r)
    <3>1. owed = "answer"
      BY <1>1, <1>4, <2>1 DEF Inserts, TypeOK, Contents
    <3> QED
      BY <1>1, <1>4, <2>1, <3>1 DEF Inserts, TypeOK
  <2>2. CASE FindsRow(r)
    BY <1>4, <2>2 DEF FindsRow
  <2> QED
    BY <1>6, <2>1, <2>2 DEF HandsOver
<1>7. ASSUME NEW r \in Rows, NEW l, row' = [row EXCEPT ![r].lease = l]
      PROVE  \A q \in Rows : row'[q].content = "answer"
  BY <1>1, <1>4, <1>7, LeaseAlone DEF Keeps
<1>8. ASSUME NEW r \in Rows, WaitEnds(r) \/ LeaseIsOverrun(r)
      PROVE  owed' # "notice" /\ \A q \in Rows : row'[q].content = "answer"
  BY <1>4, <1>7, <1>8 DEF WaitEnds, LeaseIsOverrun
<1>9. ASSUME NEW d \in Drainers, NEW r \in Rows, Drains(d, r)
      PROVE  owed' # "notice" /\ \A q \in Rows : row'[q].content = "answer"
  BY <1>4, <1>7, <1>9 DEF Drains
<1>10. ASSUME NEW s \in Senders, SenderStep(s) \/ SenderMishap(s)
       PROVE  owed' # "notice" /\ \A q \in Rows : row'[q].content = "answer"
  <2>1. SameRows
    BY <1>1, <1>10, SendersKeepRows DEF Progress
  <2> QED
    BY <1>1, <1>4, <1>10, <2>1, SendersGoOnOrRest DEF SameRows
<1> QED
  BY <1>2, <1>5, <1>6, <1>8, <1>9, <1>10 DEF Next

\* The outbox's own promise holds for a run whose attempts handed over no notice,
\* whatever else goes wrong: it is the notice's row, used for the answer, that
\* lets a row say "sent" for an answer that did not arrive.
THEOREM DeliveredWithoutNotices == Spec => [](run.notices = 0 => AnswerIsDelivered)
<1>1. Init => AnswerOnly
  BY DEF Init, AnswerOnly, NoRow
<1>2. IInv /\ AnswerOnly => (run.notices = 0 => AnswerIsDelivered)
  BY DEF IInv, AnswerOnly, SentIsDelivered, AnswerIsDelivered
<1> QED
  BY <1>1, <1>2, StepAnswerOnly, Invariant, PTL DEF Spec
=============================================================================

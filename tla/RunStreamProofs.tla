-------------------------- MODULE RunStreamProofs --------------------------
(***************************************************************************)
(* What the cursor of RunStream promises: the composition takes the steps  *)
(* of RunLifecycle, whose invariants it inherits, and while the places of  *)
(* the rows are their numbers, what the client has passed it has received. *)
(***************************************************************************)
EXTENDS RunStream, RunLifecycleProofs

USE DEF attemptVars, vars, clientVars, streamVars

\* The client only looks.
LEMMA StreamTakesSteps ==
    /\ StreamInit => Init
    /\ [StreamNext]_streamVars => [Next]_vars
BY DEF StreamInit, StreamNext, StreamStep, Stream

LEMMA StreamIsRun == StreamSpec => Spec
<1>1. (StreamInit => Init) /\ ([StreamNext]_streamVars => [Next]_vars)
  BY StreamTakesSteps
<1> QED BY <1>1, PTL DEF StreamSpec, Spec

LEMMA StreamShaped ==
    ASSUME Forcers = {}
    PROVE  StreamSpec => [](ShapeInv /\ PlacesInv)
<1> QED BY StreamIsRun, PlacesKept, PTL

\* The cursor stays within the log, and the rows up to it have arrived.
CursorInv ==
    /\ cursor \in Nat
    /\ cursor = 0 \/ cursor \in DOMAIN log
    /\ \A i \in DOMAIN log : i <= cursor => i \in delivered

LEMMA RowsHavePlaces ==
    ASSUME ShapeInv, PlacesInv
    PROVE  /\ DOMAIN log = 1 .. Len(log) /\ Len(log) \in Nat
           /\ \A i \in DOMAIN log : log[i].seq = i
BY LogPlaces, LenProperties DEF ShapeInv, TypeOK

\* Rows that are committed meanwhile come after the cursor.
LEMMA CursorBehind ==
    ASSUME ShapeInv, PlacesInv, [Next]_vars, UNCHANGED clientVars, CursorInv
    PROVE  CursorInv'
<1>1. CASE log' = log
  BY <1>1 DEF CursorInv
<1>2. ASSUME NEW e \in Rows, Commits(e) PROVE CursorInv'
  <2>1. /\ DOMAIN log \subseteq DOMAIN log'
        /\ \A i \in DOMAIN log' \ DOMAIN log : \A k \in DOMAIN log : k < i
    BY <1>2, CommitRows
  <2>2. log' \in Seq(Rows) /\ DOMAIN log' \subseteq Nat \ {0}
    <3>1. log' \in Seq(Rows)
      BY StepKinds, RowsNext
    <3>2. DOMAIN log' = 1 .. Len(log') /\ Len(log') \in Nat
      BY <3>1, LenProperties
    <3> QED BY <3>1, <3>2
  <2>3. ASSUME NEW i \in DOMAIN log', i <= cursor PROVE i \in delivered
    <3>1. cursor \in DOMAIN log
      BY <2>2, <2>3 DEF CursorInv
    <3>2. i \in DOMAIN log
      BY <2>1, <2>2, <2>3, <3>1
    <3> QED BY <2>3, <3>2 DEF CursorInv
  <2> QED BY <2>1, <2>3 DEF CursorInv
<1> QED
  BY <1>1, <1>2, StepKinds DEF StepKind, WritesNothing, Streams, CommitsPermitted

LEMMA CursorAdvances ==
    ASSUME ShapeInv, PlacesInv, StreamStep, CursorInv
    PROVE  CursorInv'
<1>1. PICK rows \in SUBSET Listed \ {{}} : Stream(rows)
  BY DEF StreamStep
<1>2. DOMAIN log = 1 .. Len(log) /\ Len(log) \in Nat /\ \A i \in DOMAIN log : log[i].seq = i
  BY RowsHavePlaces
<1>3. /\ delivered' = delivered \cup rows /\ UNCHANGED log
      /\ InOrder(rows)
      /\ cursor' \in {log[i].seq : i \in rows}
  BY <1>1 DEF Stream, vars
<1>4. rows \subseteq DOMAIN log
  BY DEF Listed
<1>5. cursor' \in rows
  BY <1>2, <1>3, <1>4
<1>6. ASSUME NEW i \in DOMAIN log, i <= cursor' PROVE i \in delivered'
  <2>1. CASE i <= cursor
    BY <1>3, <2>1 DEF CursorInv
  <2>2. CASE cursor < i
    <3>1. i \in Listed
      BY <1>2, <2>2 DEF Listed, CursorInv
    <3>2. i \in rows
      BY <1>2, <1>3, <1>4, <1>5, <1>6, <3>1 DEF InOrder
    <3> QED BY <1>3, <3>2
  <2> QED BY <1>2, <2>1, <2>2 DEF CursorInv
<1> QED BY <1>2, <1>3, <1>4, <1>5, <1>6 DEF CursorInv

\* after_seq loses nothing across batches and reconnects: while nobody forces
\* the run, a row that is committed later has a number behind every cursor.
THEOREM NothingSkipped ==
    ASSUME Forcers = {}
    PROVE  StreamSpec => []NoEventSkipped
<1>1. StreamInit => CursorInv
  <2> SUFFICES ASSUME StreamInit PROVE CursorInv
    OBVIOUS
  <2>1. cursor = 0 /\ DOMAIN log = {1}
    BY InitialRow DEF StreamInit
  <2> QED BY <2>1 DEF CursorInv
<1>2. ShapeInv /\ PlacesInv /\ CursorInv /\ [StreamNext]_streamVars => CursorInv'
  <2> SUFFICES ASSUME ShapeInv, PlacesInv, CursorInv, [StreamNext]_streamVars
               PROVE  CursorInv'
    OBVIOUS
  <2>1. CASE UNCHANGED streamVars
    BY <2>1 DEF CursorInv
  <2>2. CASE Next /\ UNCHANGED clientVars
    BY <2>2, CursorBehind
  <2>3. CASE StreamStep
    BY <2>3, CursorAdvances
  <2> QED BY <2>1, <2>2, <2>3 DEF StreamNext
<1>3. ShapeInv /\ PlacesInv /\ CursorInv => NoEventSkipped
  BY RowsHavePlaces DEF CursorInv, NoEventSkipped
<1> QED BY <1>1, <1>2, <1>3, StreamShaped, PTL DEF StreamSpec

-----------------------------------------------------------------------------
(* With forced terminations: a forced end may take a number that another   *)
(* row has, and a page or a connection may end between the two.            *)

\* What a client has passed but not received has its number in common with
\* another row, and the later of the two is of a type that forced ends have: of
\* a number that one row has nothing is lost, whoever forces the run.
OnlySharedNumbersSkipped ==
    \A i \in DOMAIN log \ delivered :
        log[i].seq <= cursor =>
        \E k \in DOMAIN log \ {i} :
            /\ log[k].seq = log[i].seq
            /\ log[IF i < k THEN k ELSE i].type \in ForcedTypes

\* The cursor is the number of a row.
CursorBound ==
    /\ cursor = 0 \/ \E i \in DOMAIN log : cursor = log[i].seq
    /\ OnlySharedNumbersSkipped

\* Of two rows with one number the later is of a type that forced ends have.
LEMMA LaterIsForced ==
    ASSUME ShapeInv, UnforcedRowsGrow,
           NEW i \in DOMAIN log, NEW k \in DOMAIN log \ {i}, log[k].seq = log[i].seq
    PROVE  log[IF i < k THEN k ELSE i].type \in ForcedTypes
<1>1. i \in Nat /\ k \in Nat
  BY LenProperties DEF ShapeInv, TypeOK
<1>2. log[i].seq \in Nat
  BY SeqBounds DEF ShapeInv, NumbersInv
<1>3. CASE i < k
  BY <1>2, <1>3 DEF UnforcedRowsGrow
<1>4. CASE k < i
  BY <1>1, <1>2, <1>4 DEF UnforcedRowsGrow
<1> QED BY <1>1, <1>3, <1>4

LEMMA CursorInLog ==
    ASSUME ShapeInv, CursorBound
    PROVE  /\ cursor \in 0 .. MaxSeq(log)
           /\ \A i \in DOMAIN log : log[i].seq \in Nat \ {0}
<1>1. \A i \in DOMAIN log : log[i].seq \in 1 .. MaxSeq(log)
  BY SeqBounds DEF ShapeInv, NumbersInv
<1>2. MaxSeq(log) \in Nat
  BY FullMax
<1> QED BY <1>1, <1>2 DEF CursorBound

\* The client skips at most a row whose number it has seen on another.
LEMMA BoundAdvances ==
    ASSUME ShapeInv, UnforcedRowsGrow, StreamStep, CursorBound
    PROVE  CursorBound'
<1>1. PICK rows \in SUBSET Listed \ {{}} : Stream(rows)
  BY DEF StreamStep
<1>2. /\ delivered' = delivered \cup rows /\ UNCHANGED log
      /\ InOrder(rows)
      /\ cursor' \in {log[i].seq : i \in rows}
  BY <1>1 DEF Stream, vars
<1>3. rows \subseteq DOMAIN log
  BY DEF Listed
<1>4. PICK last \in rows : cursor' = log[last].seq
  BY <1>2
<1>5. ASSUME NEW i \in DOMAIN log \ delivered', log[i].seq <= cursor'
      PROVE  \E k \in DOMAIN log \ {i} :
                /\ log[k].seq = log[i].seq
                /\ log[IF i < k THEN k ELSE i].type \in ForcedTypes
  <2>1. CASE log[i].seq <= cursor
    BY <1>2, <2>1 DEF CursorBound, OnlySharedNumbersSkipped
  <2>2. CASE log[i].seq > cursor
    <3>1. i \in Listed /\ i \notin rows
      BY <1>2, <2>2 DEF Listed
    <3>2. ~(log[i].seq < log[last].seq)
      BY <1>2, <3>1 DEF InOrder
    <3>3. log[last].seq = log[i].seq
      BY <1>3, <1>4, <1>5, <3>2, CursorInLog
    <3> QED BY <1>3, <3>1, <3>3, LaterIsForced
  <2> QED BY <2>1, <2>2, CursorInLog
<1> QED BY <1>2, <1>3, <1>4, <1>5 DEF CursorBound, OnlySharedNumbersSkipped

\* Rows that are committed meanwhile come after the cursor, but for a forced
\* end whose number is taken.
LEMMA BoundBehind ==
    ASSUME ShapeInv, ShapeInv', UnforcedRowsGrow', CursorBound, UNCHANGED clientVars,
           NEW e \in Rows, Commits(e)
    PROVE  CursorBound'
<1>1. /\ DOMAIN log \subseteq DOMAIN log' /\ \A i \in DOMAIN log : log'[i] = log[i]
      /\ \A i \in DOMAIN log' \ DOMAIN log : \A k \in DOMAIN log : k < i
  BY CommitRows
<1>2. \A i \in DOMAIN log' : log'[i].seq \in Nat \ {0} /\ i \in Nat
  <2>1. \A i \in DOMAIN log' : log'[i].seq \in 1 .. MaxSeq(log')
    BY SeqBounds DEF ShapeInv, NumbersInv
  <2>2. log' \in Seq(Rows)
    BY DEF ShapeInv, TypeOK
  <2> QED BY <2>1, <2>2, LenProperties
<1>3. ASSUME NEW i \in DOMAIN log' \ delivered, log'[i].seq <= cursor
      PROVE  \E k \in DOMAIN log' \ {i} :
                /\ log'[k].seq = log'[i].seq
                /\ log'[IF i < k THEN k ELSE i].type \in ForcedTypes
  <2>1. CASE i \in DOMAIN log
    <3>1. PICK k \in DOMAIN log \ {i} :
            /\ log[k].seq = log[i].seq
            /\ log[IF i < k THEN k ELSE i].type \in ForcedTypes
      BY <1>1, <1>3, <2>1 DEF CursorBound, OnlySharedNumbersSkipped
    <3>2. /\ k \in DOMAIN log' \ {i} /\ log'[k] = log[k] /\ log'[i] = log[i]
          /\ log'[IF i < k THEN k ELSE i] = log[IF i < k THEN k ELSE i]
      BY <1>1, <2>1, <3>1
    <3> QED BY <3>1, <3>2
  <2>2. CASE i \notin DOMAIN log
    <3>1. /\ cursor \in 1 .. MaxSeq(log) /\ Seqs(log) = 1 .. MaxSeq(log)
          /\ MaxSeq(log) \in Nat
      BY <1>2, <1>3, CursorInLog, FullMax, NumberedMax DEF ShapeInv, NumbersInv
    <3>2. log'[i].seq \in Seqs(log)
      BY <1>2, <1>3, <3>1
    <3>3. PICK k \in DOMAIN log : log[k].seq = log'[i].seq
      BY <3>2 DEF Seqs
    <3>4. k \in DOMAIN log' /\ k < i /\ log'[k].seq = log'[i].seq /\ k # i
      BY <1>1, <1>2, <2>2, <3>3
    <3>5. log'[i].type \in ForcedTypes
      BY <1>2, <3>4 DEF UnforcedRowsGrow
    <3>6. ~(i < k)
      BY <1>2, <3>4
    <3> QED BY <3>4, <3>5, <3>6
  <2> QED BY <2>1, <2>2
<1>4. cursor = 0 \/ \E i \in DOMAIN log' : cursor = log'[i].seq
  BY <1>1 DEF CursorBound
<1> QED BY <1>3, <1>4 DEF CursorBound, OnlySharedNumbersSkipped

LEMMA BoundNext ==
    ASSUME ShapeInv, ShapeInv', UnforcedRowsGrow, UnforcedRowsGrow',
           [StreamNext]_streamVars, CursorBound
    PROVE  CursorBound'
<1>1. CASE UNCHANGED <<log, clientVars>>
  BY <1>1 DEF CursorBound, OnlySharedNumbersSkipped
<1>2. CASE StreamStep
  BY <1>2, BoundAdvances
<1>3. ASSUME NEW e \in Rows, Commits(e), UNCHANGED clientVars
      PROVE  CursorBound'
  BY <1>3, BoundBehind
<1> QED
  BY <1>1, <1>2, <1>3, StepKinds
     DEF StreamNext, StepKind, WritesNothing, Streams, CommitsPermitted

\* Whoever forces the run, and wherever pages and connections end: a client
\* misses a row only if a forced end's row, or that of another writer, has the
\* same seq.
THEOREM OnlySharedNumbersLost == StreamSpec => []OnlySharedNumbersSkipped
<1>1. StreamInit => CursorBound
  <2> SUFFICES ASSUME StreamInit PROVE CursorBound
    OBVIOUS
  <2>1. cursor = 0 /\ DOMAIN log = {1} /\ log[1].seq = 1
    BY InitialRow DEF StreamInit
  <2> QED BY <2>1 DEF CursorBound, OnlySharedNumbersSkipped
<1>2. /\ ShapeInv /\ ShapeInv' /\ UnforcedRowsGrow /\ UnforcedRowsGrow'
      /\ [StreamNext]_streamVars /\ CursorBound
      => CursorBound'
  BY BoundNext
<1>3. StreamSpec => Spec
  BY StreamIsRun
<1>4. CursorBound => OnlySharedNumbersSkipped
  BY DEF CursorBound
<1> QED
  BY <1>1, <1>2, <1>3, <1>4, Shaped, OnlyForcedEndsCollide, PTL DEF StreamSpec
=============================================================================

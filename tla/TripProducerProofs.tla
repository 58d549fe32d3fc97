-------------------------- MODULE TripProducerProofs --------------------------
(***************************************************************************)
(* Theorems about one producer run, for any partition, any rows that go to *)
(* quarantine and any size of the queue.  The invariant says how far each  *)
(* row can be at each point of the driver, and what that means for the     *)
(* topic.                                                                  *)
(***************************************************************************)
EXTENDS TopicSetup, FiniteSetTheorems, TLAPS

\* What the status of a row says of its messages and of the topic.
OnTopic(r, row) ==
  /\ produced[r][row] = IF status[r][row] \in {"none", "unread"} THEN 0 ELSE 1
  /\ written[r][row] \subseteq 1 .. produced[r][row]
  /\ status[r][row] \in {"acked", "delivered"} => 1 \in written[r][row]

\* The ends of a run whose result was validated.
Validated == {"done", "invalid_result"}

\* What the point the driver has reached says of the status of a row.
Reached(r, row) ==
  /\ pc[r] = "idle" => status[r][row] = "none"
  /\ pc[r] \in {"flush", "check"} \cup Validated => status[r][row] # "unread"
  /\ pc[r] \in {"check"} \cup Validated =>
       status[r][row] \notin {"queued", "acked", "nacked"}
  /\ pc[r] \in Validated => status[r][row] # "failed"
  /\ pc[r] \in Active \cup Validated => status[r][row] # "discarded"

\* The rows counted so far are those that were read.
Counted(r) ==
  pc[r] \in Active =>
    emitted[r] + quarantined[r] + Cardinality(InStatus(r, {"unread"}))
      = Cardinality(source[r])

RunInv(r) ==
  /\ \A row \in Row : OnTopic(r, row) /\ Reached(r, row)
  /\ Counted(r)
  /\ pc[r] = "invalid_result" => unfit[r] # {}

IInv ==
  /\ TypeOK
  /\ \A r \in Run : RunInv(r)

-----------------------------------------------------------------------------
\* A partition has finitely many rows.
LEMMA FiniteRows ==
  ASSUME NEW rows \in SUBSET Row
  PROVE  IsFiniteSet(rows) /\ Cardinality(rows) \in Nat
BY TripProducerAssumption, FS_Subset, FS_CardinalityType

\* The initial state is well-typed.
LEMMA InitType == Init => TypeOK
<1> SUFFICES ASSUME Init PROVE TypeOK
  OBVIOUS
<1>1. ASSUME NEW r \in Run PROVE InStatus(r, {"none"}) = Row \ source[r]
  BY DEF Init, InStatus
<1>2. status \in [Run -> [Row -> Status]]
  BY DEF Init, Status
<1> QED
  BY <1>1, <1>2 DEF Init, TypeOK

\* The reports served change no row outside the partition.
LEMMA ServeType ==
  ASSUME TypeOK, NEW r \in Run, ServeReports(r)
  PROVE  /\ status' \in [Run -> [Row -> Status]]
         /\ \A row \in Row : status'[r][row] = Callback(status[r][row])
         /\ \A q \in Run : q # r => status'[q] = status[q]
<1>1. \A st \in Status : Callback(st) \in Status
  BY DEF Callback, Status
<1>2. status \in [Run -> [Row -> Status]]
  BY DEF TypeOK
<1>3. status' = [status EXCEPT ![r] = [row \in Row |-> Callback(status[r][row])]]
  BY DEF ServeReports
<1>4. [row \in Row |-> Callback(status[r][row])] \in [Row -> Status]
  BY <1>1, <1>2
<1> QED
  BY <1>2, <1>3, <1>4

\* A new run keeps the types.
LEMMA StartType ==
  ASSUME TypeOK, NEW r \in Run, NEW rows \in Content, NEW bad \in SUBSET {"slice"},
         Start(r, rows, bad)
  PROVE  TypeOK'
<1>1. /\ pc' \in [Run -> {"idle"} \cup Active \cup Ended]
      /\ source' \in [Run -> SUBSET Row]
      /\ unfit' \in [Run -> SUBSET Argument]
      /\ produced' \in [Run -> [Row -> Nat]]
      /\ written' \in [Run -> [Row -> SUBSET Nat]]
      /\ emitted' \in [Run -> Nat]
      /\ quarantined' \in [Run -> Nat]
  BY TripProducerAssumption DEF Start, Goto, TypeOK, Active, Argument
<1>2. status' \in [Run -> [Row -> Status]]
  BY DEF Start, TypeOK, Status
<1>3. ASSUME NEW q \in Run PROVE InStatus(q, {"none"})' = Row \ source'[q]
  <2>1. CASE q = r
    BY <2>1 DEF Start, InStatus, TypeOK
  <2>2. CASE q # r
    BY <2>2 DEF Start, InStatus, TypeOK
  <2> QED
    BY <2>1, <2>2
<1> QED
  BY <1>1, <1>2, <1>3 DEF TypeOK

\* A step that gives one row of the partition another status.
LEMMA RowType ==
  ASSUME TypeOK, NEW r \in Run, NEW row \in Row, NEW st \in Status \ {"none"},
         status[r][row] # "none",
         status' = [status EXCEPT ![r][row] = st],
         UNCHANGED source
  PROVE  /\ status' \in [Run -> [Row -> Status]]
         /\ \A q \in Run : InStatus(q, {"none"})' = Row \ source'[q]
BY DEF TypeOK, InStatus

\* Each step of the driver keeps the types.
LEMMA DriveType ==
  ASSUME TypeOK, NEW r \in Run, Drive(r)
  PROVE  TypeOK'
<1> USE DEF Goto, Active, Ended
<1>1. ASSUME NEW row \in Row, Produce(r, row) PROVE TypeOK'
  <2>1. /\ status[r][row] = "unread"
        /\ status' = [status EXCEPT ![r][row] = "queued"]
        /\ UNCHANGED <<source, unfit, written>>
        /\ produced' \in [Run -> [Row -> Nat]]
    BY <1>1 DEF Produce, TypeOK
  <2>2. pc' \in [Run -> {"idle"} \cup Active \cup Ended]
    BY <1>1 DEF Produce, TypeOK
  <2>3. /\ emitted' \in [Run -> Nat]
        /\ quarantined' \in [Run -> Nat]
    <3>1. TallyRow(r, row)
      BY <1>1 DEF Produce
    <3>2. /\ emitted \in [Run -> Nat]
          /\ quarantined \in [Run -> Nat]
      BY DEF TypeOK
    <3>3. CASE Quarantined(r, row)
      BY <3>1, <3>2, <3>3 DEF TallyRow
    <3>4. CASE ~Quarantined(r, row)
      BY <3>1, <3>2, <3>4 DEF TallyRow
    <3> QED
      BY <3>3, <3>4
  <2>4. /\ status' \in [Run -> [Row -> Status]]
        /\ \A q \in Run : InStatus(q, {"none"})' = Row \ source'[q]
    BY <2>1, RowType DEF Status
  <2> QED
    BY <2>1, <2>2, <2>3, <2>4 DEF TypeOK
<1>2. CASE Overrun(r)
  BY <1>2 DEF Overrun, TypeOK, InStatus
<1>3. ASSUME ServeReports(r), UNCHANGED <<source, unfit, produced, written, emitted, quarantined>>,
             pc' \in [Run -> {"idle"} \cup Active \cup Ended]
      PROVE  TypeOK'
  <2>1. ASSUME NEW q \in Run PROVE InStatus(q, {"none"})' = InStatus(q, {"none"})
    <3>1. \A st \in Status : Callback(st) = "none" <=> st = "none"
      BY DEF Callback, Status
    <3>2. \A row \in Row : status[q][row] \in Status
      BY DEF TypeOK
    <3>3. \A row \in Row : status'[q][row] = "none" <=> status[q][row] = "none"
      BY <1>3, <3>1, <3>2, ServeType
    <3> QED
      BY <3>3 DEF InStatus
  <2> QED
    BY <1>3, <2>1, ServeType DEF TypeOK
<1>4. CASE Drain(r)
  BY <1>3, <1>4 DEF Drain, TypeOK
<1>5. CASE EndOfRows(r)
  BY <1>5 DEF EndOfRows, TypeOK, InStatus
<1>6. CASE Flush(r)
  BY <1>3, <1>6 DEF Flush, TypeOK
<1>7. CASE RaiseFailures(r)
  BY <1>7 DEF RaiseFailures, TypeOK, InStatus
<1>8. ASSUME NEW path \in SUBSET {"path"}, Return(r, unfit[r] \cup path)
      PROVE  TypeOK'
  <2>1. unfit' \in [Run -> SUBSET Argument]
    BY <1>8 DEF Return, TypeOK, Argument
  <2> QED
    BY <1>8, <2>1 DEF Return, TypeOK, InStatus
<1> QED
  BY <1>1, <1>2, <1>4, <1>5, <1>6, <1>7, <1>8 DEF Drive

\* librdkafka and the broker keep the types.
LEMMA BackgroundType ==
  ASSUME TypeOK, NEW r \in Run, Background(r)
  PROVE  TypeOK'
<1>1. ASSUME NEW row \in Row, Send(r, row) PROVE TypeOK'
  <2>1. written' \in [Run -> [Row -> SUBSET Nat]]
    BY <1>1 DEF Send, TypeOK
  <2> QED
    BY <1>1, <2>1 DEF Send, TypeOK, InStatus
<1>2. ASSUME NEW row \in Row, Ack(r, row) PROVE TypeOK'
  BY <1>2, RowType DEF Ack, TypeOK, Status
<1>3. ASSUME NEW row \in Row, Nack(r, row) PROVE TypeOK'
  BY <1>3, RowType DEF Nack, TypeOK, Status
<1>4. CASE Discard(r)
  BY <1>4 DEF Discard, TypeOK, InStatus, Status
<1> QED
  BY <1>1, <1>2, <1>3, <1>4 DEF Background

\* The type invariant is inductive.
LEMMA NextType == TypeOK /\ [Next]_vars => TypeOK'
<1> SUFFICES ASSUME TypeOK, [Next]_vars PROVE TypeOK'
  OBVIOUS
<1>1. CASE UNCHANGED vars
  BY <1>1 DEF TypeOK, vars, InStatus
<1>2. ASSUME NEW r \in Run, Abort(r) PROVE TypeOK'
  BY <1>2 DEF Abort, Goto, TypeOK, InStatus, Ended
<1> QED
  BY <1>1, <1>2, StartType, DriveType, BackgroundType DEF Next

\* Every run stays within its type, and exactly the rows of its partition
\* have a status.
THEOREM TypeCorrect == Spec => []TypeOK
BY InitType, NextType, PTL DEF Spec

-----------------------------------------------------------------------------
(* Runs do not disturb each other.                                         *)

SameRun(q) ==
  /\ pc'[q] = pc[q]
  /\ source'[q] = source[q]
  /\ status'[q] = status[q]
  /\ unfit'[q] = unfit[q]
  /\ produced'[q] = produced[q]
  /\ written'[q] = written[q]
  /\ emitted'[q] = emitted[q]
  /\ quarantined'[q] = quarantined[q]

\* A run that is left alone keeps its invariant.
LEMMA SameInv ==
  ASSUME NEW q \in Run, RunInv(q), SameRun(q)
  PROVE  RunInv(q)'
BY DEF RunInv, OnTopic, Reached, Counted, InStatus, SameRun

\* A step of one run leaves every other run alone.
LEMMA OthersUntouched ==
  ASSUME TypeOK, NEW r \in Run, NEW q \in Run, q # r,
         \/ \E rows \in Content, bad \in SUBSET {"slice"} : Start(r, rows, bad)
         \/ Drive(r)
         \/ Abort(r)
         \/ Background(r)
  PROVE  SameRun(q)
<1> USE DEF SameRun, TypeOK, Goto
<1>1. ASSUME NEW rows \in Content, NEW bad \in SUBSET {"slice"}, Start(r, rows, bad)
      PROVE  SameRun(q)
  BY <1>1 DEF Start
<1>2. CASE Drive(r)
  <2>1. ASSUME NEW row \in Row, Produce(r, row) PROVE SameRun(q)
    BY <2>1 DEF Produce, TallyRow
  <2> QED
    BY <1>2, <2>1
    DEF Drive, Overrun, Drain, EndOfRows, Flush, RaiseFailures, Return, ServeReports
<1>3. CASE Abort(r)
  BY <1>3 DEF Abort
<1>4. CASE Background(r)
  BY <1>4 DEF Background, Send, Ack, Nack, Discard
<1> QED
  BY <1>1, <1>2, <1>3, <1>4

-----------------------------------------------------------------------------
(* The steps of one run.                                                   *)

\* Only the driver's own steps change what was counted.
LEMMA UnreadSame ==
  ASSUME NEW r \in Run, Counted(r),
         pc'[r] \in Active => pc[r] \in Active,
         source'[r] = source[r],
         emitted'[r] = emitted[r],
         quarantined'[r] = quarantined[r],
         \A row \in Row : status'[r][row] = "unread" <=> status[r][row] = "unread"
  PROVE  Counted(r)'
<1>1. InStatus(r, {"unread"})' = InStatus(r, {"unread"})
  BY DEF InStatus
<1> QED
  BY <1>1 DEF Counted

\* A new run has sent and counted nothing.
LEMMA StartInv ==
  ASSUME TypeOK, NEW r \in Run, NEW rows \in Content, NEW bad \in SUBSET {"slice"},
         Start(r, rows, bad)
  PROVE  RunInv(r)'
<1>1. /\ pc'[r] = "iterate"
      /\ source'[r] = rows
      /\ status'[r] = [row \in Row |-> IF row \in rows THEN "unread" ELSE "none"]
      /\ produced'[r] = [row \in Row |-> 0]
      /\ written'[r] = [row \in Row |-> {}]
      /\ emitted'[r] = 0
      /\ quarantined'[r] = 0
  BY DEF Start, Goto, TypeOK
<1>2. InStatus(r, {"unread"})' = rows
  BY <1>1, TripProducerAssumption DEF InStatus
<1>3. Counted(r)'
  BY <1>1, <1>2, FiniteRows, TripProducerAssumption DEF Counted
<1>4. ASSUME NEW row \in Row PROVE (OnTopic(r, row) /\ Reached(r, row))'
  BY <1>1 DEF OnTopic, Reached, Validated
<1> QED
  BY <1>1, <1>3, <1>4 DEF RunInv

\* A row handed to librdkafka is counted once, as an event or as quarantined.
LEMMA ProduceInv ==
  ASSUME TypeOK, NEW r \in Run, NEW row \in Row, RunInv(r), Produce(r, row)
  PROVE  RunInv(r)'
<1>1. /\ pc[r] = "iterate" /\ pc'[r] = "drain"
      /\ status[r][row] = "unread"
      /\ status'[r] = [status[r] EXCEPT ![row] = "queued"]
      /\ source'[r] = source[r]
      /\ produced'[r] = [produced[r] EXCEPT ![row] = produced[r][row] + 1]
      /\ written'[r] = written[r]
  BY DEF Produce, Goto, TypeOK
<1>2. emitted'[r] + quarantined'[r] = emitted[r] + quarantined[r] + 1
  <2>1. TallyRow(r, row)
    BY DEF Produce
  <2>2. /\ emitted \in [Run -> Nat]
        /\ quarantined \in [Run -> Nat]
    BY DEF TypeOK
  <2>3. CASE Quarantined(r, row)
    BY <2>1, <2>2, <2>3 DEF TallyRow
  <2>4. CASE ~Quarantined(r, row)
    BY <2>1, <2>2, <2>4 DEF TallyRow
  <2> QED
    BY <2>3, <2>4
<1>3. Counted(r)'
  <2> DEFINE U == InStatus(r, {"unread"})
  <2>1. InStatus(r, {"unread"})' = U \ {row}
    BY <1>1 DEF InStatus, TypeOK
  <2>2. U \in SUBSET Row /\ row \in U
    BY <1>1 DEF InStatus
  <2>3. /\ IsFiniteSet(U)
        /\ Cardinality(U) \in Nat
        /\ Cardinality(U \ {row}) = Cardinality(U) - 1
    BY <2>2, FiniteRows, FS_RemoveElement
  <2>4. emitted[r] + quarantined[r] + Cardinality(U) = Cardinality(source[r])
    BY <1>1 DEF RunInv, Counted, Active
  <2>5. /\ emitted[r] \in Nat /\ quarantined[r] \in Nat
        /\ emitted'[r] + quarantined'[r] + (Cardinality(U) - 1)
             = emitted[r] + quarantined[r] + Cardinality(U)
    BY <1>2, <2>3 DEF TypeOK
  <2> QED
    BY <1>1, <2>1, <2>3, <2>4, <2>5 DEF Counted
<1>4. ASSUME NEW x \in Row PROVE (OnTopic(r, x) /\ Reached(r, x))'
  <2>1. /\ status[r] \in [Row -> Status]
        /\ produced[r] \in [Row -> Nat]
    BY DEF TypeOK
  <2>2. CASE x = row
    <3>1. produced[r][row] = 0 /\ written[r][row] = {}
      BY <1>1 DEF RunInv, OnTopic
    <3> QED
      BY <1>1, <2>1, <2>2, <3>1 DEF OnTopic, Reached, Active, Validated
  <2>3. CASE x # row
    BY <1>1, <2>1, <2>3 DEF RunInv, OnTopic, Reached, Active, Validated
  <2> QED
    BY <2>2, <2>3
<1> QED
  BY <1>1, <1>3, <1>4 DEF RunInv

\* Serving the reports moves a row on, and never back.
LEMMA ServeInv ==
  ASSUME TypeOK, NEW r \in Run, RunInv(r), ServeReports(r), pc[r] \in Active,
         UNCHANGED <<source, unfit, produced, written, emitted, quarantined>>
  PROVE  /\ \A row \in Row : OnTopic(r, row)'
         /\ \A row \in Row : /\ status'[r][row] \notin {"acked", "nacked", "discarded"}
                             /\ status'[r][row] = "unread" <=> status[r][row] = "unread"
                             /\ status'[r][row] = "queued" <=> status[r][row] = "queued"
<1> SUFFICES ASSUME NEW row \in Row
             PROVE  /\ OnTopic(r, row)'
                    /\ status'[r][row] \notin {"acked", "nacked", "discarded"}
                    /\ status'[r][row] = "unread" <=> status[r][row] = "unread"
                    /\ status'[r][row] = "queued" <=> status[r][row] = "queued"
  OBVIOUS
<1>1. /\ OnTopic(r, row)
      /\ status[r][row] # "discarded"
  BY DEF RunInv, Reached
<1>2. status'[r][row] = Callback(status[r][row])
  BY ServeType
<1>3. produced'[r][row] = produced[r][row] /\ written'[r][row] = written[r][row]
  OBVIOUS
<1>4. status[r][row] \in Status
  BY DEF TypeOK
<1> QED
  BY <1>1, <1>2, <1>3, <1>4 DEF OnTopic, Callback, Status

\* Each step of the driver keeps the invariant of its run.
LEMMA DriveInv ==
  ASSUME TypeOK, NEW r \in Run, RunInv(r), Drive(r)
  PROVE  RunInv(r)'
<1>1. ASSUME NEW row \in Row, Produce(r, row) PROVE RunInv(r)'
  BY <1>1, ProduceInv
<1>2. CASE Overrun(r)
  <2>1. /\ pc[r] = "iterate" /\ pc'[r] = "overrun"
        /\ UNCHANGED <<source, unfit, status, produced, written, emitted, quarantined>>
    BY <1>2 DEF Overrun, Goto, TypeOK
  <2> QED
    BY <2>1 DEF RunInv, OnTopic, Reached, Counted, Active, Validated
<1>3. CASE Drain(r)
  <2>1. /\ pc[r] = "drain" /\ pc'[r] = "iterate"
        /\ ServeReports(r)
        /\ UNCHANGED <<source, unfit, produced, written, emitted, quarantined>>
    BY <1>3 DEF Drain, Goto, TypeOK
  <2>2. \A row \in Row : OnTopic(r, row)' /\ Reached(r, row)'
    BY <2>1, ServeInv DEF Reached, Active, Validated
  <2>3. Counted(r)'
    BY <2>1, ServeInv, UnreadSame DEF RunInv, Active
  <2> QED
    BY <2>1, <2>2, <2>3 DEF RunInv
<1>4. CASE EndOfRows(r)
  <2>1. /\ pc[r] = "iterate" /\ pc'[r] = "flush"
        /\ InStatus(r, {"unread"}) = {}
        /\ UNCHANGED <<source, unfit, status, produced, written, emitted, quarantined>>
    BY <1>4 DEF EndOfRows, IterationDone, Goto, TypeOK
  <2>2. \A row \in Row : OnTopic(r, row)' /\ Reached(r, row)'
    BY <2>1 DEF RunInv, OnTopic, Reached, InStatus, Active, Validated
  <2>3. Counted(r)'
    BY <2>1, UnreadSame DEF RunInv, Active
  <2> QED
    BY <2>1, <2>2, <2>3 DEF RunInv
<1>5. CASE Flush(r)
  <2>1. /\ pc[r] = "flush"
        /\ pc'[r] = IF Remaining(r) THEN "failed" ELSE "check"
        /\ ServeReports(r)
        /\ UNCHANGED <<source, unfit, produced, written, emitted, quarantined>>
    BY <1>5 DEF Flush, Goto, TypeOK
  <2>2. \A row \in Row : OnTopic(r, row)'
    BY <2>1, ServeInv DEF Active
  <2>3. \A row \in Row : Reached(r, row)'
    <3>1. \A row \in Row : status[r][row] # "unread"
      BY <2>1 DEF RunInv, Reached
    <3>2. pc'[r] = "check" => \A row \in Row : status[r][row] # "queued"
      BY <2>1 DEF Remaining, InStatus
    <3> QED
      BY <2>1, <3>1, <3>2, ServeInv DEF Reached, Active, Validated
  <2>4. Counted(r)'
    BY <2>1, ServeInv, UnreadSame DEF RunInv, Active
  <2> QED
    BY <2>1, <2>2, <2>3, <2>4 DEF RunInv
<1>6. CASE RaiseFailures(r)
  <2>1. /\ pc[r] = "check" /\ pc'[r] = "failed"
        /\ UNCHANGED <<source, unfit, status, produced, written, emitted, quarantined>>
    BY <1>6 DEF RaiseFailures, Goto, TypeOK
  <2> QED
    BY <2>1 DEF RunInv, OnTopic, Reached, Counted, Active, Validated
<1>7. ASSUME NEW path \in SUBSET {"path"}, Return(r, unfit[r] \cup path)
      PROVE  RunInv(r)'
  <2> DEFINE bad == unfit[r] \cup path
  <2>1. /\ pc[r] = "check"
        /\ pc'[r] = IF ResultAccepted(r, bad) THEN "done" ELSE "invalid_result"
        /\ unfit'[r] = bad
        /\ InStatus(r, {"failed"}) = {}
        /\ UNCHANGED <<source, status, produced, written, emitted, quarantined>>
    BY <1>7 DEF Return, Goto, TypeOK
  <2>2. bad = {} => ResultAccepted(r, bad)
    <3>1. InStatus(r, {"unread"}) = {}
      BY <2>1 DEF RunInv, Reached, InStatus
    <3>2. Cardinality(InStatus(r, {"unread"})) = 0
      BY <3>1, FS_EmptySet
    <3>3. emitted[r] \in Nat /\ quarantined[r] \in Nat
      BY DEF TypeOK
    <3> QED
      BY <2>1, <3>2, <3>3 DEF RunInv, Counted, ResultAccepted, Active
  <2>3. \A row \in Row : OnTopic(r, row)' /\ Reached(r, row)'
    BY <2>1 DEF RunInv, OnTopic, Reached, InStatus, Active, Validated
  <2>4. Counted(r)'
    BY <2>1 DEF Counted, Active
  <2>5. pc'[r] = "invalid_result" => unfit'[r] # {}
    BY <2>1, <2>2
  <2> QED
    BY <2>3, <2>4, <2>5 DEF RunInv
<1> QED
  BY <1>1, <1>2, <1>3, <1>4, <1>5, <1>6, <1>7 DEF Drive

\* A message is reported as delivered after it is on its topic, and is appended
\* at most once.
LEMMA BackgroundInv ==
  ASSUME TypeOK, NEW r \in Run, RunInv(r), Background(r)
  PROVE  RunInv(r)'
<1>1. ASSUME NEW row \in Row, Send(r, row) PROVE RunInv(r)'
  <2>1. /\ UNCHANGED <<pc, source, unfit, status, produced, emitted, quarantined>>
        /\ written'[r][row] \subseteq written[r][row] \cup (1 .. produced[r][row])
        /\ written[r][row] \subseteq written'[r][row]
        /\ \A x \in Row : x # row => written'[r][x] = written[r][x]
    BY <1>1 DEF Send, TypeOK
  <2>3. ASSUME NEW x \in Row PROVE OnTopic(r, x)' /\ Reached(r, x)'
    <3>1. OnTopic(r, x) /\ Reached(r, x)
      BY DEF RunInv
    <3>2. CASE x = row
      BY <2>1, <3>1, <3>2 DEF OnTopic, Reached
    <3>3. CASE x # row
      BY <2>1, <3>1, <3>3 DEF OnTopic, Reached
    <3> QED
      BY <3>2, <3>3
  <2>4. Counted(r)'
    BY <2>1, UnreadSame DEF RunInv
  <2> QED
    BY <2>1, <2>3, <2>4 DEF RunInv
<1>2. ASSUME NEW row \in Row, NEW st \in {"acked", "nacked"},
             status[r][row] = "queued",
             status' = [status EXCEPT ![r][row] = st],
             st = "acked" => produced[r][row] \in written[r][row],
             UNCHANGED <<pc, source, unfit, produced, written, emitted, quarantined>>
      PROVE  RunInv(r)'
  <2>1. status'[r] = [status[r] EXCEPT ![row] = st]
    BY <1>2 DEF TypeOK
  <2>2. status[r] \in [Row -> Status]
    BY DEF TypeOK
  <2>3. ASSUME NEW x \in Row PROVE OnTopic(r, x)' /\ Reached(r, x)'
    BY <1>2, <2>1, <2>2 DEF RunInv, OnTopic, Reached
  <2>4. Counted(r)'
    BY <1>2, <2>1, <2>2, UnreadSame DEF RunInv
  <2> QED
    BY <1>2, <2>3, <2>4 DEF RunInv
<1>3. ASSUME NEW row \in Row, Ack(r, row) \/ Nack(r, row) PROVE RunInv(r)'
  BY <1>2, <1>3 DEF Ack, Nack, Replicated
<1>4. CASE Discard(r)
  <2>1. /\ pc[r] \in Ended
        /\ InStatus(r, {"queued"}) # {}
        /\ status'[r] = [row \in Row |-> IF status[r][row] = "queued"
                                         THEN "discarded" ELSE status[r][row]]
        /\ UNCHANGED <<pc, source, unfit, produced, written, emitted, quarantined>>
    BY <1>4 DEF Discard, TypeOK
  <2>2. pc[r] \notin Validated
    BY <2>1 DEF RunInv, Reached, InStatus
  <2>3. ASSUME NEW x \in Row PROVE OnTopic(r, x)' /\ Reached(r, x)'
    BY <2>1, <2>2 DEF RunInv, OnTopic, Reached, Active, Ended, Validated
  <2>4. Counted(r)'
    BY <2>1, UnreadSame DEF RunInv
  <2> QED
    BY <2>1, <2>3, <2>4 DEF RunInv
<1> QED
  BY <1>1, <1>3, <1>4 DEF Background

\* A run that is aborted keeps what it has sent.
LEMMA AbortInv ==
  ASSUME TypeOK, NEW r \in Run, RunInv(r), Abort(r)
  PROVE  RunInv(r)'
<1>1. /\ pc[r] \in Active /\ pc'[r] = "failed"
      /\ UNCHANGED <<source, unfit, status, produced, written, emitted, quarantined>>
  BY DEF Abort, Goto, TypeOK
<1> QED
  BY <1>1 DEF RunInv, OnTopic, Reached, Counted, Active, Validated

\* Every row of a run is counted and sent as far as its status says.
THEOREM Inductive == Spec => []IInv
<1>1. Init => IInv
  BY InitType DEF Init, IInv, RunInv, OnTopic, Reached, Counted, Active, Validated
<1>2. IInv /\ [Next]_vars => IInv'
  <2> SUFFICES ASSUME IInv, [Next]_vars PROVE IInv'
    OBVIOUS
  <2>1. TypeOK /\ TypeOK'
    BY NextType DEF IInv
  <2>2. CASE UNCHANGED vars
    <3>1. \A r \in Run : SameRun(r)
      BY <2>2 DEF SameRun, vars
    <3> QED
      BY <2>1, <3>1, SameInv DEF IInv
  <2>3. ASSUME NEW r \in Run,
               \/ \E rows \in Content, bad \in SUBSET {"slice"} : Start(r, rows, bad)
               \/ Drive(r)
               \/ Abort(r)
               \/ Background(r)
        PROVE  IInv'
    <3>1. RunInv(r)'
      BY <2>1, <2>3, StartInv, DriveInv, AbortInv, BackgroundInv DEF IInv
    <3>2. ASSUME NEW q \in Run, q # r PROVE RunInv(q)'
      BY <2>1, <2>3, <3>2, OthersUntouched, SameInv DEF IInv
    <3> QED
      BY <2>1, <3>1, <3>2 DEF IInv
  <2> QED
    BY <2>2, <2>3 DEF Next
<1> QED
  BY <1>1, <1>2, PTL DEF Spec

\* A run whose result was validated, accepted or not, has delivered its rows.
LEMMA ValidatedDelivered ==
  ASSUME IInv, NEW r \in Run, pc[r] \in Validated
  PROVE  AllDelivered(r)
<1> SUFFICES ASSUME NEW row \in Row
             PROVE  written[r][row] = IF row \in source[r] THEN {1} ELSE {}
  BY DEF AllDelivered
<1>1. /\ OnTopic(r, row) /\ Reached(r, row)
      /\ status[r][row] \in Status
      /\ status[r][row] = "none" <=> row \notin source[r]
  BY DEF IInv, RunInv, TypeOK, InStatus
<1>2. status[r][row] \in {"none", "delivered"}
  BY <1>1 DEF Reached, Status
<1>3. CASE row \in source[r]
  <2>1. produced[r][row] = 1 /\ 1 \in written[r][row]
    BY <1>1, <1>2, <1>3 DEF OnTopic
  <2>2. written[r][row] \subseteq 1 .. 1
    BY <1>1, <2>1 DEF OnTopic
  <2> QED
    BY <1>3, <2>1, <2>2
<1>4. CASE row \notin source[r]
  <2>1. written[r][row] \subseteq 1 .. 0
    BY <1>1, <1>4 DEF OnTopic
  <2> QED
    BY <1>4, <2>1
<1> QED
  BY <1>3, <1>4

\* A run that returns has put every row of its partition on its topic exactly
\* once.
THEOREM Delivered == Spec => []DoneMeansDelivered
<1>1. IInv => DoneMeansDelivered
  BY ValidatedDelivered DEF DoneMeansDelivered, Validated
<1> QED
  BY <1>1, Inductive, PTL

\* No row of a run has two records on a topic, during the run or after it: the
\* driver makes one message of a row, whatever becomes of it, and the broker keeps
\* one record of a message.
THEOREM AtMostOnce == Spec => []NeverTwice
<1>1. IInv => NeverTwice
  <2> SUFFICES ASSUME IInv, NEW r \in Run, NEW row \in Row,
                      NEW m \in written[r][row], NEW n \in written[r][row]
               PROVE  m = n
    BY DEF NeverTwice
  <2>1. produced[r][row] \in {0, 1} /\ written[r][row] \subseteq 1 .. produced[r][row]
    BY DEF IInv, RunInv, OnTopic
  <2> QED
    BY <2>1
<1> QED
  BY <1>1, Inductive, PTL

\* A result is refused for an argument of the call, and only when every message
\* has been delivered.
THEOREM RefusedForArguments == Spec => []RefusedOnlyForArguments
<1>1. IInv => RefusedOnlyForArguments
  BY ValidatedDelivered DEF IInv, RunInv, RefusedOnlyForArguments, Validated
<1> QED
  BY <1>1, Inductive, PTL

-----------------------------------------------------------------------------
(* The queue of librdkafka.                                                *)

\* A run that ended with the BufferError of a full queue had more rows than
\* librdkafka keeps messages.
OverrunNeedsRows ==
  \A r \in Run : pc[r] = "overrun" => Cardinality(source[r]) > QueueLimit

\* The rows at librdkafka and the row that is refused are rows of the partition.
LEMMA FullQueue ==
  ASSUME TypeOK, NEW r \in Run, Overrun(r)
  PROVE  Cardinality(source[r]) > QueueLimit
<1> DEFINE kept == InStatus(r, {"queued", "acked", "nacked"})
<1>1. PICK row \in Row : status[r][row] = "unread"
  BY DEF Overrun, InStatus
<1>2. \A x \in Row : status[r][x] # "none" => x \in source[r]
  BY DEF TypeOK, InStatus
<1>3. source[r] \in SUBSET Row /\ row \in source[r]
  BY <1>1, <1>2 DEF TypeOK
<1>4. kept \in SUBSET (source[r] \ {row})
  BY <1>1, <1>2 DEF InStatus
<1>5. Cardinality(kept) >= QueueLimit
  BY DEF Overrun, QueueFull
<1> HIDE DEF kept
<1>6. /\ IsFiniteSet(source[r]) /\ Cardinality(source[r]) \in Nat
      /\ IsFiniteSet(source[r] \ {row})
      /\ Cardinality(source[r] \ {row}) = Cardinality(source[r]) - 1
  BY <1>3, FiniteRows, FS_RemoveElement
<1>7. /\ Cardinality(kept) \in Nat
      /\ Cardinality(kept) <= Cardinality(source[r] \ {row})
  BY <1>4, <1>6, FS_Subset, FS_CardinalityType
<1> QED
  BY <1>5, <1>6, <1>7, TripProducerAssumption

\* A partition that fits the queue never overruns it, however slow the broker is:
\* what the run producer_overrun shows takes more than QueueLimit rows.
THEOREM OverrunsTakeRows == Spec => []OverrunNeedsRows
<1>1. Init => OverrunNeedsRows
  BY DEF Init, OverrunNeedsRows
<1>2. TypeOK /\ OverrunNeedsRows /\ [Next]_vars => OverrunNeedsRows'
  <2> SUFFICES ASSUME TypeOK, OverrunNeedsRows, [Next]_vars,
                      NEW q \in Run, pc'[q] = "overrun"
               PROVE  Cardinality(source'[q]) > QueueLimit
    BY DEF OverrunNeedsRows
  <2>1. CASE UNCHANGED vars
    BY <2>1 DEF vars, OverrunNeedsRows
  <2>2. ASSUME NEW r \in Run,
               \/ \E rows \in Content, bad \in SUBSET {"slice"} : Start(r, rows, bad)
               \/ Drive(r)
               \/ Abort(r)
               \/ Background(r)
        PROVE  Cardinality(source'[q]) > QueueLimit
    <3>1. CASE q # r
      <4>1. SameRun(q)
        BY <2>2, <3>1, OthersUntouched
      <4> QED
        BY <4>1 DEF SameRun, OverrunNeedsRows
    <3>2. CASE q = r /\ Overrun(r)
      BY <3>2, FullQueue DEF Overrun
    <3>3. CASE q = r /\ Background(r)
      BY <3>3 DEF Background, Send, Ack, Nack, Discard, OverrunNeedsRows
    <3>4. CASE q = r /\ Abort(r)
      BY <3>4 DEF Abort, Goto, TypeOK
    <3>5. CASE q = r /\ \E rows \in Content, bad \in SUBSET {"slice"} : Start(r, rows, bad)
      BY <3>5 DEF Start, Goto, TypeOK
    <3>6. ASSUME NEW row \in Row, q = r, Produce(r, row) PROVE FALSE
      BY <3>6 DEF Produce, Goto, TypeOK
    <3>7. CASE q = r /\ (Drain(r) \/ EndOfRows(r))
      BY <3>7 DEF Drain, EndOfRows, Goto, TypeOK
    <3>8. CASE q = r /\ (Flush(r) \/ RaiseFailures(r))
      BY <3>8 DEF Flush, RaiseFailures, Goto, TypeOK
    <3>9. ASSUME NEW bad, q = r, Return(r, bad) PROVE FALSE
      BY <3>9 DEF Return, Goto, TypeOK
    <3> QED
      BY <2>2, <3>1, <3>2, <3>3, <3>4, <3>5, <3>6, <3>7, <3>8, <3>9 DEF Drive
  <2> QED
    BY <2>1, <2>2 DEF Next
<1> QED
  BY <1>1, <1>2, TypeCorrect, PTL DEF Spec

\* Hence no run overruns a queue that holds every row a partition may have.
THEOREM QueueSuffices ==
  ASSUME Cardinality(Row) <= QueueLimit PROVE Spec => []NeverOverruns
<1>1. TypeOK /\ OverrunNeedsRows => NeverOverruns
  <2> SUFFICES ASSUME TypeOK, OverrunNeedsRows, NEW r \in Run, pc[r] = "overrun"
               PROVE  FALSE
    BY DEF NeverOverruns
  <2>1. source[r] \in SUBSET Row
    BY DEF TypeOK
  <2>2. /\ Cardinality(source[r]) \in Nat
        /\ Cardinality(Row) \in Nat
        /\ Cardinality(source[r]) <= Cardinality(Row)
    BY <2>1, TripProducerAssumption, FS_Subset, FS_CardinalityType
  <2> QED
    BY <2>2, TripProducerAssumption DEF OverrunNeedsRows
<1> QED
  BY <1>1, TypeCorrect, OverrunsTakeRows, PTL

-----------------------------------------------------------------------------
(* What the primary topic sees of a run.                                   *)

phase == [r \in Run |-> Phase(r)]

unsent == [r \in Run |->
             {row \in source[r] : ~Quarantined(r, row) /\ written[r][row] = {}}]

\* Only the driver and an exception move a run on, and they append nothing and
\* leave the slice as it is.
LEMMA DriverMoves ==
  ASSUME TypeOK, NEW r \in Run, Drive(r) \/ Abort(r)
  PROVE  /\ pc[r] \in Active
         /\ pc'[r] \in Active \cup Ended
         /\ \A q \in Run : q # r => pc'[q] = pc[q]
         /\ UNCHANGED <<source, written>>
         /\ \A q \in Run : "slice" \in unfit'[q] <=> "slice" \in unfit[q]
<1> USE DEF Goto, Active, Ended, TypeOK
<1>1. ASSUME NEW row \in Row, Produce(r, row)
      PROVE  /\ pc[r] = "iterate" /\ pc'[r] = "drain"
             /\ \A q \in Run : q # r => pc'[q] = pc[q]
             /\ UNCHANGED <<source, unfit, written>>
  BY <1>1 DEF Produce
<1>2. CASE Overrun(r) \/ Drain(r) \/ EndOfRows(r) \/ Abort(r)
  BY <1>2 DEF Overrun, Drain, EndOfRows, Abort
<1>3. CASE Flush(r)
  BY <1>3 DEF Flush
<1>4. CASE RaiseFailures(r)
  BY <1>4 DEF RaiseFailures
<1>5. ASSUME NEW path \in SUBSET {"path"}, Return(r, unfit[r] \cup path)
      PROVE  /\ pc[r] = "check" /\ pc'[r] \in Ended
             /\ \A q \in Run : q # r => pc'[q] = pc[q]
             /\ UNCHANGED <<source, written>>
             /\ \A q \in Run : "slice" \in unfit'[q] <=> "slice" \in unfit[q]
  <2>1. \A q \in Run : unfit'[q] = IF q = r THEN unfit[r] \cup path ELSE unfit[q]
    BY <1>5 DEF Return
  <2>2. "slice" \notin path
    OBVIOUS
  <2>3. \A q \in Run : "slice" \in unfit'[q] <=> "slice" \in unfit[q]
    BY <2>1, <2>2
  <2> QED
    BY <1>5, <2>3 DEF Return
<1> QED
  BY <1>1, <1>2, <1>3, <1>4, <1>5 DEF Drive

\* The run returns, fails, or goes on.
LEMMA DriverMaps ==
  ASSUME IInv, IInv', NEW r \in Run, Drive(r) \/ Abort(r)
  PROVE  Delivery!Next \/ UNCHANGED <<phase, unsent>>
<1>1. /\ pc[r] \in Active
      /\ pc'[r] \in Active \cup Ended
      /\ \A q \in Run : q # r => pc'[q] = pc[q]
      /\ UNCHANGED <<source, written>>
      /\ \A q \in Run : "slice" \in unfit'[q] <=> "slice" \in unfit[q]
  BY DriverMoves DEF IInv
<1>2. /\ Phase(r) = "sending"
      /\ \A q \in Run : q # r => Phase(q)' = Phase(q)
      /\ phase' = [phase EXCEPT ![r] = Phase(r)']
      /\ UNCHANGED unsent
  <2>1. \A q \in Run : q # r => Phase(q)' = Phase(q)
    BY <1>1 DEF Phase
  <2>2. Phase(r) = "sending"
    BY <1>1 DEF Phase, Active
  <2>3. \A q \in Run, row \in Row : Quarantined(q, row)' <=> Quarantined(q, row)
    BY <1>1 DEF Quarantined
  <2>4. \A q \in Run : source[q] \subseteq Row
    BY DEF IInv, TypeOK
  <2>5. unsent' = unsent
    BY <1>1, <2>3, <2>4 DEF unsent
  <2> QED
    BY <1>1, <2>1, <2>2, <2>5 DEF phase
<1>3. CASE pc'[r] \in Active
  <2>1. Phase(r)' = "sending"
    BY <1>3 DEF Phase, Active
  <2>2. phase' = phase
    BY <1>2, <2>1 DEF phase
  <2> QED
    BY <1>2, <2>2
<1>4. CASE pc'[r] = "done"
  <2>1. Phase(r)' = "done"
    BY <1>4 DEF Phase, Active
  <2>2. unsent[r] = {}
    <3> SUFFICES ASSUME NEW row \in source[r], written[r][row] = {}
                 PROVE  FALSE
      BY DEF unsent
    <3>1. /\ row \in Row
          /\ OnTopic(r, row)' /\ Reached(r, row)'
          /\ status'[r][row] \in Status
          /\ status'[r][row] # "none"
      BY <1>1 DEF IInv, RunInv, TypeOK, InStatus
    <3>2. status'[r][row] = "delivered"
      BY <1>4, <3>1 DEF Reached, Status, Validated
    <3> QED
      BY <1>1, <3>1, <3>2 DEF OnTopic
  <2>3. Delivery!Return(r)
    BY <1>2, <2>1, <2>2 DEF Delivery!Return, phase, unsent
  <2> QED
    BY <2>3 DEF Delivery!Next
<1>5. CASE pc'[r] \in {"failed", "overrun", "invalid_result"}
  <2>1. Phase(r)' = "failed"
    BY <1>5 DEF Phase, Active
  <2>2. Delivery!Fail(r)
    BY <1>2, <2>1 DEF Delivery!Fail, phase, unsent
  <2> QED
    BY <2>2 DEF Delivery!Next
<1> QED
  BY <1>1, <1>3, <1>4, <1>5 DEF Ended

\* A new run owes the topic the messages of its rows.
LEMMA StartMaps ==
  ASSUME TypeOK, NEW r \in Run, NEW rows \in Content, NEW bad \in SUBSET {"slice"},
         Start(r, rows, bad)
  PROVE  Delivery!Next
<1> DEFINE owed == {row \in rows \ Quarantine : "slice" \notin bad}
<1>1. /\ pc[r] \in {"idle"} \cup Ended /\ pc'[r] = "iterate"
      /\ source' = [source EXCEPT ![r] = rows]
      /\ unfit' = [unfit EXCEPT ![r] = bad]
      /\ written' = [written EXCEPT ![r] = [row \in Row |-> {}]]
      /\ \A q \in Run : q # r => pc'[q] = pc[q]
      /\ rows \subseteq Row
  BY TripProducerAssumption DEF Start, Goto, TypeOK
<1>2. /\ source \in [Run -> SUBSET Row]
      /\ unfit \in [Run -> SUBSET Argument]
      /\ written \in [Run -> [Row -> SUBSET Nat]]
  BY DEF TypeOK
<1>3. /\ Phase(r) # "sending"
      /\ phase' = [phase EXCEPT ![r] = "sending"]
  BY <1>1 DEF Phase, phase, Active, Ended
<1>4. ASSUME NEW q \in Run
      PROVE  {row \in source'[q] : ~Quarantined(q, row)' /\ written'[q][row] = {}}
               = IF q = r THEN owed ELSE unsent[q]
  <2>1. CASE q = r
    BY <1>1, <1>2, <2>1 DEF Quarantined
  <2>2. CASE q # r
    BY <1>1, <1>2, <2>2 DEF unsent, Quarantined
  <2> QED
    BY <2>1, <2>2
<1>5. unsent' = [unsent EXCEPT ![r] = owed]
  BY <1>4 DEF unsent
<1>6. Delivery!Start(r, owed)
  BY <1>3, <1>5 DEF Delivery!Start, phase, unsent
<1>7. owed \in SUBSET (Row \ Quarantine)
  BY <1>1
<1> QED
  BY <1>6, <1>7 DEF Delivery!Next

\* The broker appends a message of a run that has not returned, or it holds the
\* message already.
LEMMA BackgroundMaps ==
  ASSUME IInv, NEW r \in Run, Background(r)
  PROVE  Delivery!Next \/ UNCHANGED <<phase, unsent>>
<1>1. UNCHANGED <<pc, source, unfit>>
  BY DEF Background, Send, Ack, Nack, Discard
<1>2. UNCHANGED phase
  BY <1>1 DEF phase, Phase
<1>3. CASE UNCHANGED written
  BY <1>1, <1>2, <1>3 DEF unsent, Quarantined
<1>4. ASSUME NEW row \in Row, Send(r, row)
      PROVE  Delivery!Next \/ UNCHANGED <<phase, unsent>>
  <2>1. PICK n \in (1 .. produced[r][row]) \ written[r][row] :
          written' = [written EXCEPT ![r][row] = written[r][row] \cup {n}]
    BY <1>4 DEF Send
  <2>2. /\ OnTopic(r, row) /\ Reached(r, row)
        /\ written \in [Run -> [Row -> SUBSET Nat]]
        /\ source \in [Run -> SUBSET Row]
        /\ status[r][row] \in Status
        /\ status[r][row] = "none" <=> row \notin source[r]
    BY DEF IInv, RunInv, TypeOK, InStatus
  <2>3. /\ status[r][row] \in {"queued", "nacked", "failed", "discarded"}
        /\ written[r][row] = {}
    <3>1. produced[r][row] = 1 /\ status[r][row] \notin {"none", "unread"}
      BY <2>1, <2>2 DEF OnTopic
    <3>2. n = 1 /\ written[r][row] \subseteq 1 .. 1
      BY <2>1, <2>2, <3>1 DEF OnTopic
    <3>3. status[r][row] \notin {"acked", "delivered"}
      BY <2>1, <2>2, <3>2 DEF OnTopic
    <3> QED
      BY <2>1, <2>2, <3>1, <3>2, <3>3 DEF Status
  <2>4. Phase(r) \in {"sending", "failed"}
    <3>1. pc[r] \notin {"idle", "done"}
      BY <2>2, <2>3 DEF Reached, Validated
    <3> QED
      BY <3>1 DEF Phase
  <2>5. row \in source[r]
    BY <2>2, <2>3
  <2>6. ASSUME NEW q \in Run, NEW x \in Row
        PROVE  written'[q][x] = {} <=> written[q][x] = {} /\ ~(q = r /\ x = row)
    BY <2>1, <2>2
  <2>7. \A q \in Run, x \in Row : Quarantined(q, x)' <=> Quarantined(q, x)
    BY <1>1 DEF Quarantined
  <2>8. CASE Quarantined(r, row)
    <3>1. ASSUME NEW q \in Run
          PROVE  {x \in source'[q] : ~Quarantined(q, x)' /\ written'[q][x] = {}}
                   = unsent[q]
      BY <1>1, <2>2, <2>6, <2>7, <2>8 DEF unsent
    <3>2. unsent' = unsent
      BY <3>1 DEF unsent
    <3> QED
      BY <1>2, <3>2
  <2>9. CASE ~Quarantined(r, row)
    <3>1. ASSUME NEW q \in Run
          PROVE  {x \in source'[q] : ~Quarantined(q, x)' /\ written'[q][x] = {}}
                   = IF q = r THEN unsent[q] \ {row} ELSE unsent[q]
      BY <1>1, <2>2, <2>6, <2>7, <2>9 DEF unsent
    <3>2. unsent' = [unsent EXCEPT ![r] = unsent[r] \ {row}]
      BY <3>1 DEF unsent
    <3>3. row \in unsent[r] /\ row \in Row \ Quarantine
      BY <2>3, <2>5, <2>9 DEF unsent, Quarantined
    <3>4. Delivery!Arrive(r, row)
      BY <1>2, <2>4, <3>2, <3>3 DEF Delivery!Arrive, phase, unsent
    <3> QED
      BY <3>3, <3>4 DEF Delivery!Next
  <2> QED
    BY <2>8, <2>9
<1> QED
  BY <1>3, <1>4 DEF Background, Ack, Nack, Discard

\* The producer implements PartitionDelivery on the primary topic, for any rows,
\* any queue and any number of runs: the driver, librdkafka and the broker
\* interleave as they like, and a run that returns owes the topic nothing.
THEOREM Refinement == Spec => RunsDeliver
<1>1. Init => Delivery!Init
  BY DEF Init, Delivery!Init, Phase, Active
<1>2. IInv /\ IInv' /\ [Next]_vars => [Delivery!Next]_<<phase, unsent>>
  <2> SUFFICES ASSUME IInv, IInv', [Next]_vars
               PROVE  Delivery!Next \/ UNCHANGED <<phase, unsent>>
    OBVIOUS
  <2>1. CASE UNCHANGED vars
    BY <2>1 DEF vars, phase, unsent, Phase, Quarantined
  <2>2. CASE Next
    BY <2>2, StartMaps, DriverMaps, BackgroundMaps DEF Next, IInv
  <2> QED
    BY <2>1, <2>2
<1>3. Delivery!vars = <<phase, unsent>>
  BY DEF Delivery!vars, phase, unsent
<1>4. IInv /\ IInv' /\ [Next]_vars => [Delivery!Next]_Delivery!vars
  BY <1>2, <1>3 DEF Delivery!vars, phase, unsent
<1> QED
  BY <1>1, <1>4, Inductive, PTL DEF Spec, RunsDeliver, Delivery!Spec

-----------------------------------------------------------------------------
(* The producer among its topics.                                          *)

\* Whatever topics there are and whoever creates them, a producer run takes
\* only steps of TripProducer: all that is shown of it holds here too.
THEOREM SetupRefinesProducer == SetupSpec => Spec
<1>1. SetupInit => Init
  BY DEF SetupInit
<1>2. [SetupNext]_<<vars, setupVars>> => [Next]_vars
  BY DEF SetupNext, ProducerStep, Next, Background
<1> QED
  BY <1>1, <1>2, PTL DEF SetupSpec, Spec

\* An answer without an error means that the topic is there, and the driver goes
\* on only after such an answer.
AnswerMeansTopic(r) ==
  /\ Awaiting(r) => \A t \in Topic : creation[r][t] # "none"
  /\ \A t \in Topic : creation[r][t] \in {"created", "exists"} => t \in topics
  /\ setup[r] = "await_quarantine" => "primary" \in topics
  /\ setup[r] = "returned" => topics = Topic

SetupInv ==
  /\ SetupTypeOK
  /\ \A r \in Run : AnswerMeansTopic(r)

\* An answer is to one request.
LEMMA AnswerChanges ==
  ASSUME SetupTypeOK, NEW r \in Run, NEW t \in Topic,
         NEW answer \in {"created", "exists", "refused"}, Answer(r, t, answer)
  PROVE  /\ creation' \in [Run -> [Topic -> {"none", "pending", "created", "exists",
                                            "refused"}]]
         /\ \A q \in Run, u \in Topic :
              creation'[q][u] = IF q = r /\ u = t THEN answer ELSE creation[q][u]
         /\ setup' = setup
BY DEF SetupTypeOK, Answer

\* A step of ensure_topics keeps the types.
LEMMA SetupType == SetupTypeOK /\ SetupStep => SetupTypeOK'
<1> SUFFICES ASSUME SetupTypeOK, SetupStep PROVE SetupTypeOK'
  OBVIOUS
<1> USE DEF SetupTypeOK, Topic
<1>1. ASSUME NEW r \in Run, EnsureTopics(r) PROVE SetupTypeOK'
  BY <1>1 DEF EnsureTopics
<1>2. ASSUME NEW r \in Run, TakeAnswer(r) PROVE SetupTypeOK'
  BY <1>2 DEF TakeAnswer
<1>3. ASSUME NEW r \in Run, Die(r) PROVE SetupTypeOK'
  BY <1>3 DEF Die
<1>4. ASSUME NEW r \in Run, Broker(r) PROVE SetupTypeOK'
  <2>1. PICK t \in Topic : Create(r, t) \/ Refuse(r, t)
    BY <1>4 DEF Broker
  <2>2. PICK answer \in {"created", "exists", "refused"} : Answer(r, t, answer)
    BY <2>1 DEF Create, Refuse
  <2>3. topics' \subseteq Topic
    BY <2>1 DEF Create, Refuse
  <2> QED
    BY <2>2, <2>3, AnswerChanges
<1>5. ASSUME NEW t \in Topic, CreateElsewhere(t) PROVE SetupTypeOK'
  BY <1>5 DEF CreateElsewhere
<1> QED
  BY <1>1, <1>2, <1>3, <1>4, <1>5 DEF SetupStep

\* A step of ensure_topics or of the broker keeps what the answers mean.
LEMMA SetupStepInv ==
  ASSUME SetupInv, SetupStep, NEW q \in Run
  PROVE  AnswerMeansTopic(q)'
<1> USE DEF SetupInv, SetupTypeOK, AnswerMeansTopic, Topic, Awaiting, Awaited
<1>1. ASSUME NEW r \in Run, EnsureTopics(r) PROVE AnswerMeansTopic(q)'
  BY <1>1 DEF EnsureTopics
<1>2. ASSUME NEW r \in Run, TakeAnswer(r) PROVE AnswerMeansTopic(q)'
  <2>1. /\ setup'[r] = IF Raises(creation[r][Awaited[setup[r]]]) THEN "raised"
                       ELSE IF setup[r] = "await_primary" THEN "await_quarantine"
                       ELSE "returned"
        /\ q # r => setup'[q] = setup[q]
        /\ setup[r] \in {"await_primary", "await_quarantine"}
        /\ creation[r][Awaited[setup[r]]] # "pending"
        /\ UNCHANGED <<topics, creation>>
    BY <1>2 DEF TakeAnswer
  <2>2. CASE q # r
    BY <2>1, <2>2
  <2>3. CASE q = r /\ setup[r] = "await_primary"
    <3>1. Awaited[setup[r]] = "primary"
      BY <2>3
    <3> QED
      BY <2>1, <2>3, <3>1 DEF Raises
  <2>4. CASE q = r /\ setup[r] = "await_quarantine"
    <3>1. Awaited[setup[r]] = "quarantine"
      BY <2>4
    <3>2. /\ "primary" \in topics
          /\ creation[r]["quarantine"] \in {"created", "exists", "refused"}
      BY <2>1, <2>4, <3>1
    <3>3. CASE creation[r]["quarantine"] = "refused"
      BY <2>1, <2>4, <3>1, <3>3 DEF Raises
    <3>4. CASE creation[r]["quarantine"] # "refused"
      <4>1. topics = Topic
        <5>1. AnswerMeansTopic(r)
          BY DEF SetupInv
        <5>2. "quarantine" \in topics
          BY <3>2, <3>4, <5>1
        <5>3. \A t \in Topic : t \in topics
          BY <3>2, <5>2
        <5>4. topics \subseteq Topic
          OBVIOUS
        <5> HIDE DEF Topic
        <5> QED
          BY <5>3, <5>4
      <4>2. setup'[r] = "returned"
        BY <2>1, <2>4, <3>1, <3>4 DEF Raises
      <4> QED
        BY <2>1, <2>4, <4>1, <4>2
    <3> QED
      BY <3>3, <3>4
  <2> QED
    BY <2>1, <2>2, <2>3, <2>4
<1>3. ASSUME NEW r \in Run, Die(r) PROVE AnswerMeansTopic(q)'
  BY <1>3 DEF Die
<1>4. ASSUME NEW r \in Run, Broker(r) PROVE AnswerMeansTopic(q)'
  <2>1. PICK t \in Topic : Create(r, t) \/ Refuse(r, t)
    BY <1>4 DEF Broker
  <2>2. PICK answer \in {"created", "exists", "refused"} :
          Answer(r, t, answer) /\ (answer # "refused" => t \in topics')
    BY <2>1 DEF Create, Refuse
  <2>3. topics \subseteq topics' /\ topics' \subseteq Topic
    BY <2>1 DEF Create, Refuse
  <2>4. /\ setup' = setup
        /\ \A u \in Topic :
             creation'[q][u] = IF q = r /\ u = t THEN answer ELSE creation[q][u]
    BY <2>2, AnswerChanges
  <2>5. Awaiting(q)' => \A u \in Topic : creation'[q][u] # "none"
    BY <2>4
  <2>6. \A u \in Topic : creation'[q][u] \in {"created", "exists"} => u \in topics'
    BY <2>2, <2>3, <2>4
  <2> QED
    BY <2>3, <2>4, <2>5, <2>6
<1>5. ASSUME NEW t \in Topic, CreateElsewhere(t) PROVE AnswerMeansTopic(q)'
  BY <1>5 DEF CreateElsewhere
<1> QED
  BY <1>1, <1>2, <1>3, <1>4, <1>5 DEF SetupStep

\* After ensure_topics has returned both topics are there.
THEOREM TopicsExist == SetupSpec => []EnsuredMeansTopicsExist
<1>1. SetupInit => SetupInv
  BY DEF SetupInit, SetupInv, SetupTypeOK, AnswerMeansTopic, Awaiting, Awaited
<1>2. SetupInv /\ [SetupNext]_<<vars, setupVars>> => SetupInv'
  <2> SUFFICES ASSUME SetupInv, [SetupNext]_<<vars, setupVars>> PROVE SetupInv'
    OBVIOUS
  <2>1. CASE SetupStep
    BY <2>1, SetupType, SetupStepInv DEF SetupInv
  <2>2. CASE UNCHANGED setupVars
    BY <2>2 DEF SetupInv, SetupTypeOK, AnswerMeansTopic, Awaiting, setupVars
  <2> QED
    BY <2>1, <2>2 DEF SetupNext
<1>3. SetupInv => EnsuredMeansTopicsExist
  BY DEF SetupInv, AnswerMeansTopic, EnsuredMeansTopicsExist
<1> QED
  BY <1>1, <1>2, <1>3, PTL DEF SetupSpec

=============================================================================

----------------------------- MODULE TripProducer -----------------------------
(***************************************************************************)
(* The trip-completed producer (nyc_cab_events/producer/trip_completed.py, *)
(* produce_trip_completed_events): one pass over the rows of a Silver      *)
(* accepted partition, one message per row, to the primary topic or to the *)
(* quarantine topic, then a flush with a timeout.                          *)
(*                                                                         *)
(* The driver and librdkafka's background thread interleave.  librdkafka   *)
(* keeps a message from produce() until its delivery report is served by   *)
(* poll() or flush(), refuses produce() with BufferError while it keeps    *)
(* QueueLimit of them (queue.buffering.max.messages), resends when an      *)
(* acknowledgement is lost, and gives up on a message after a timeout or a *)
(* rejection.  A message it gave up on may be on the topic all the same.   *)
(*                                                                         *)
(* The topic a row goes to is a pure function of the row and of the slice  *)
(* the run was called for (_route_silver_row).  A message is one call of   *)
(* produce(): the n-th message of a row is told apart from the others, so  *)
(* that a row produced again would be a second record.                     *)
(***************************************************************************)
EXTENDS Integers, FiniteSets

CONSTANTS
  Row,         \* the rows a Silver partition may hold
  Content,     \* what a Silver partition may hold
  Quarantine,  \* the rows that fail the event contract, a NaN fare for one
  Run,         \* the producer processes
  QueueLimit   \* the messages librdkafka keeps at most

ASSUME TripProducerAssumption ==
  /\ IsFiniteSet(Row)
  /\ Content \subseteq SUBSET Row
  /\ Quarantine \subseteq Row
  /\ QueueLimit \in Nat \ {0}

VARIABLES
  pc,           \* where the run is
  source,       \* the rows of the partition, as listed when it was opened
  unfit,        \* the arguments of the call that no result can have
  status,       \* how far each row has come
  produced,     \* history: messages the run has made of each row
  written,      \* history: those of them that are on their topic
  emitted,      \* events_emitted
  quarantined   \* events_quarantined

vars == <<pc, source, unfit, status, produced, written, emitted, quarantined>>

Active == {"iterate", "drain", "flush", "check"}
Ended  == {"done", "failed", "overrun", "invalid_result"}

\* unread: not yet reached.  queued: handed to produce(), no report yet.
\* acked, nacked: reported, the report not yet served.  delivered, failed: the
\* callback has run, and delivery_failures holds the failed ones.
Status == {"none", "unread", "queued", "acked", "nacked", "delivered",
           "failed", "discarded"}

InStatus(r, st) == {row \in Row : status[r][row] \in st}

\* "slice": a blank cab type, or a year or a month out of range.  "path": the
\* partition path is a single file, which Spark reads like a directory.
Argument == {"slice", "path"}

TypeOK ==
  /\ pc \in [Run -> {"idle"} \cup Active \cup Ended]
  /\ source \in [Run -> SUBSET Row]
  /\ unfit \in [Run -> SUBSET Argument]
  /\ status \in [Run -> [Row -> Status]]
  /\ \A r \in Run : InStatus(r, {"none"}) = Row \ source[r]
  /\ produced \in [Run -> [Row -> Nat]]
  /\ written \in [Run -> [Row -> SUBSET Nat]]
  /\ emitted \in [Run -> Nat]
  /\ quarantined \in [Run -> Nat]

Init ==
  /\ pc = [r \in Run |-> "idle"]
  /\ source = [r \in Run |-> {}]
  /\ unfit = [r \in Run |-> {}]
  /\ status = [r \in Run |-> [row \in Row |-> "none"]]
  /\ produced = [r \in Run |-> [row \in Row |-> 0]]
  /\ written = [r \in Run |-> [row \in Row |-> {}]]
  /\ emitted = [r \in Run |-> 0]
  /\ quarantined = [r \in Run |-> 0]

Goto(r, where) == pc' = [pc EXCEPT ![r] = where]

-----------------------------------------------------------------------------
(* The driver.                                                             *)

\* The partition is opened and counted.  Its files are listed once: a later
\* rewrite of the partition can make a read fail, never return other rows.  No
\* argument is checked here.  The producer of an earlier run of the process is
\* gone.
Start(r, rows, bad) ==
  /\ pc[r] \in {"idle"} \cup Ended
  /\ InStatus(r, {"queued"}) = {}
  /\ Goto(r, "iterate")
  /\ source' = [source EXCEPT ![r] = rows]
  /\ unfit' = [unfit EXCEPT ![r] = bad]
  /\ status' = [status EXCEPT ![r] =
                  [row \in Row |-> IF row \in rows THEN "unread" ELSE "none"]]
  /\ produced' = [produced EXCEPT ![r] = [row \in Row |-> 0]]
  /\ written' = [written EXCEPT ![r] = [row \in Row |-> {}]]
  /\ emitted' = [emitted EXCEPT ![r] = 0]
  /\ quarantined' = [quarantined EXCEPT ![r] = 0]

QueueFull(r) ==
  Cardinality(InStatus(r, {"queued", "acked", "nacked"})) >= QueueLimit

\* No event of a slice that is out of range passes the event contract either, so
\* such a run sends every row to quarantine.
Quarantined(r, row) == row \in Quarantine \/ "slice" \in unfit[r]

\* Fault: an event is counted whether or not its row goes to quarantine.
TallyEvery(r, row) ==
  /\ emitted' = [emitted EXCEPT ![r] = @ + 1]
  /\ quarantined' = [quarantined EXCEPT
                       ![r] = IF Quarantined(r, row) THEN @ + 1 ELSE @]

TallyRow(r, row) ==
  IF Quarantined(r, row)
  THEN /\ quarantined' = [quarantined EXCEPT ![r] = @ + 1]
       /\ UNCHANGED emitted
  ELSE /\ emitted' = [emitted EXCEPT ![r] = @ + 1]
       /\ UNCHANGED quarantined

\* The next row is routed, handed to librdkafka and counted.
Produce(r, row) ==
  /\ pc[r] = "iterate"
  /\ status[r][row] = "unread"
  /\ ~QueueFull(r)
  /\ status' = [status EXCEPT ![r][row] = "queued"]
  /\ produced' = [produced EXCEPT ![r][row] = @ + 1]
  /\ TallyRow(r, row)
  /\ Goto(r, "drain")
  /\ UNCHANGED <<source, unfit, written>>

\* produce() raises BufferError, which nothing catches.
Overrun(r) ==
  /\ pc[r] = "iterate"
  /\ InStatus(r, {"unread"}) # {}
  /\ QueueFull(r)
  /\ Goto(r, "overrun")
  /\ UNCHANGED <<source, unfit, status, produced, written, emitted, quarantined>>

\* Fault: a poll takes every message without an error for a delivered one.
NoErrorMeansDelivered(st) ==
  CASE st \in {"queued", "acked"} -> "delivered"
    [] st = "nacked" -> "failed"
    [] OTHER -> st

\* Fault: the callback hands a row whose delivery failed to the loop again.
ProducedAgain(st) ==
  CASE st = "acked"  -> "delivered"
    [] st = "nacked" -> "unread"
    [] OTHER         -> st

\* What _delivery_callback makes of a report.
Callback(st) ==
  CASE st = "acked"  -> "delivered"
    [] st = "nacked" -> "failed"
    [] OTHER         -> st

\* poll() and flush() run the callback of every report at hand.
ServeReports(r) ==
  status' = [status EXCEPT ![r] = [row \in Row |-> Callback(@[row])]]

\* producer.poll(0) after every row: it serves and does not wait.
Drain(r) ==
  /\ pc[r] = "drain"
  /\ ServeReports(r)
  /\ Goto(r, "iterate")
  /\ UNCHANGED <<source, unfit, produced, written, emitted, quarantined>>

IterationDone(r) == InStatus(r, {"unread"}) = {}

EndOfRows(r) ==
  /\ pc[r] = "iterate"
  /\ IterationDone(r)
  /\ Goto(r, "flush")
  /\ UNCHANGED <<source, unfit, status, produced, written, emitted, quarantined>>

\* Fault: the number flush() returns is not looked at.
IgnoreRemaining(r) == FALSE

\* flush() returned with messages left after its timeout.
Remaining(r) == InStatus(r, {"queued"}) # {}

\* Fault: flush() without a timeout.
FlushWithoutTimeout(r) == InStatus(r, {"queued"}) = {}

\* flush(timeout=30) returns when nothing is left or when its time is up.
FlushReturns(r) == TRUE

Flush(r) ==
  /\ pc[r] = "flush"
  /\ FlushReturns(r)
  /\ ServeReports(r)
  /\ Goto(r, IF Remaining(r) THEN "failed" ELSE "check")
  /\ UNCHANGED <<source, unfit, produced, written, emitted, quarantined>>

\* The structural checks of TripCompletedProducerResult, for a call with these
\* unfit arguments.  The counts are never negative.  A path that does not exist
\* locally, an object store's for one, is accepted.
ResultAccepted(r, bad) ==
  /\ bad = {}
  /\ Cardinality(source[r]) = emitted[r] + quarantined[r]

\* delivery_failures is looked at first.
RaiseFailures(r) ==
  /\ pc[r] = "check"
  /\ InStatus(r, {"failed"}) # {}
  /\ Goto(r, "failed")
  /\ UNCHANGED <<source, unfit, status, produced, written, emitted, quarantined>>

\* The result is validated, and with it what the path is by now.
Return(r, bad) ==
  /\ pc[r] = "check"
  /\ InStatus(r, {"failed"}) = {}
  /\ unfit' = [unfit EXCEPT ![r] = bad]
  /\ Goto(r, IF ResultAccepted(r, bad) THEN "done" ELSE "invalid_result")
  /\ UNCHANGED <<source, status, produced, written, emitted, quarantined>>

\* Spark cannot read on (the partition was rewritten, a task failed), or
\* another exception leaves the driver.
Abort(r) ==
  /\ pc[r] \in Active
  /\ Goto(r, "failed")
  /\ UNCHANGED <<source, unfit, status, produced, written, emitted, quarantined>>

-----------------------------------------------------------------------------
(* librdkafka and the broker, in the background until the producer of an   *)
(* ended run is destroyed or its process exits.                            *)

\* The broker receives a message of the row, not always the last one made.  A
\* request on its way arrives even when librdkafka has given up on the message or
\* is gone.  With enable.idempotence the broker drops a message it already holds,
\* which librdkafka sends again when an acknowledgement was lost, so that changes
\* nothing; a message made by another produce() is another record.
Send(r, row) ==
  \E n \in (1 .. produced[r][row]) \ written[r][row] :
    /\ written' = [written EXCEPT ![r][row] = @ \cup {n}]
    /\ UNCHANGED <<pc, source, unfit, status, produced, emitted, quarantined>>

\* acks=all: a message is reported as delivered once every in-sync replica
\* has it.
Replicated(r, row) == produced[r][row] \in written[r][row]

Ack(r, row) ==
  /\ status[r][row] = "queued"
  /\ Replicated(r, row)
  /\ status' = [status EXCEPT ![r][row] = "acked"]
  /\ UNCHANGED <<pc, source, unfit, produced, written, emitted, quarantined>>

\* Delivery times out or is rejected, the message appended or not.
Nack(r, row) ==
  /\ status[r][row] = "queued"
  /\ status' = [status EXCEPT ![r][row] = "nacked"]
  /\ UNCHANGED <<pc, source, unfit, produced, written, emitted, quarantined>>

\* The producer of a failed run goes away with what it still has queued.
Discard(r) ==
  /\ pc[r] \in Ended
  /\ InStatus(r, {"queued"}) # {}
  /\ status' = [status EXCEPT ![r] =
       [row \in Row |-> IF @[row] = "queued" THEN "discarded" ELSE @[row]]]
  /\ UNCHANGED <<pc, source, unfit, produced, written, emitted, quarantined>>

-----------------------------------------------------------------------------
Drive(r) ==
  \/ \E row \in Row : Produce(r, row)
  \/ Overrun(r)
  \/ Drain(r)
  \/ EndOfRows(r)
  \/ Flush(r)
  \/ RaiseFailures(r)
  \/ \E path \in SUBSET {"path"} : Return(r, unfit[r] \cup path)

Background(r) ==
  \/ \E row \in Row : Send(r, row) \/ Ack(r, row) \/ Nack(r, row)
  \/ Discard(r)

Next ==
  \E r \in Run :
    \/ \E rows \in Content, bad \in SUBSET {"slice"} : Start(r, rows, bad)
    \/ Drive(r)
    \/ Abort(r)
    \/ Background(r)

Spec == Init /\ [][Next]_vars

\* The driver keeps executing; flush() has a timeout of its own, so nothing is
\* assumed of the broker.
FairSpec == Spec /\ \A r \in Run : WF_vars(Drive(r))

-----------------------------------------------------------------------------
(* What a run promises.                                                    *)

\* The message of every row of the partition is on its topic once, and nothing
\* else of this run is.
AllDelivered(r) ==
  \A row \in Row : written[r][row] = IF row \in source[r] THEN {1} ELSE {}

\* A run that returns has put the message of every row of the partition on its
\* topic exactly once, and nothing else.
DoneMeansDelivered == \A r \in Run : pc[r] = "done" => AllDelivered(r)

Phase(r) ==
  CASE pc[r] \in Active -> "sending"
    [] pc[r] \in {"idle", "done"} -> pc[r]
    [] OTHER -> "failed"

Delivery == INSTANCE PartitionDelivery
  WITH Row <- Row \ Quarantine,
       phase <- [r \in Run |-> Phase(r)],
       unsent <- [r \in Run |->
                    {row \in source[r] :
                       ~Quarantined(r, row) /\ written[r][row] = {}}]

\* On the primary topic, librdkafka and the driver together implement
\* PartitionDelivery, however they interleave, whatever times out and whoever
\* goes away: this is what the event bridge takes a producer for.
RunsDeliver == Delivery!Spec

\* No row of one run has two records on a topic, whatever is resent, delayed or
\* given up, and also after the run has failed: a message that was reported as
\* failed may be on the topic all the same, so nothing may produce its row again
\* ("retries within librdkafka do not cause duplicate broker-side records").
NeverTwice ==
  \A r \in Run, row \in Row : \A m, n \in written[r][row] : m = n

\* The result is refused only for an argument of the call, which nothing looks at
\* before: never because the counts do not add up, and never with a message
\* missing.  The caller of such a run gets an exception although everything it
\* asked for is on its topic, for a single file against "callable against any
\* path layout the caller chooses to materialize" (produce_trip_completed_events).
RefusedOnlyForArguments ==
  \A r \in Run : pc[r] = "invalid_result" => unfit[r] # {} /\ AllDelivered(r)

\* The driver returns or raises, even if the broker never answers.
RunEnds == \A r \in Run : pc[r] = "iterate" ~> pc[r] \in Ended

\* A slow or unreachable broker ends a run with KafkaException, never with the
\* BufferError of a full queue: "Production failures (Kafka unreachable, broker
\* rejection) propagate as KafkaException" (produce_trip_completed_events).
NeverOverruns == \A r \in Run : pc[r] # "overrun"

=============================================================================

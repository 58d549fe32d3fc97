----------------------------- MODULE TripConsumer -----------------------------
(***************************************************************************)
(* The trip-completed consumer (nyc_cab_events/consumer/trip_completed.py, *)
(* consume_and_aggregate): a one-shot run replays a captured window of the *)
(* topic, aggregates the distinct events of the requested slice per hour,  *)
(* and overwrites the hourly rows in one transaction.                      *)
(*                                                                         *)
(* Each element of Run is an invoker that may start one run after another, *)
(* for any slice.  Producers append while runs are in progress; the broker *)
(* may expire old records when Retention is TRUE (the topics are created   *)
(* without a retention setting, so the broker's default applies).          *)
(*                                                                         *)
(* log keeps expired records, so that properties can speak of them; a run  *)
(* never receives a record below low.  Records librdkafka fetched before   *)
(* their expiry are covered too: expiring them later is the same behaviour.*)
(*                                                                         *)
(* A definition marked "Fault" is a plausible slip in the definition that  *)
(* follows it.  No behaviour uses it; PROJECT.json names the property that *)
(* notices it when it takes that definition's place.                       *)
(***************************************************************************)
EXTENDS EventLog, Functions

CONSTANTS
  Run,         \* the invokers of the consumer
  MaxLen,      \* bound on the records ever appended to one partition
  Retention,   \* TRUE: the broker expires the oldest records of a partition
  Serialized   \* TRUE: at most one run per slice is in progress at a time

ASSUME TripConsumerAssumption ==
  /\ MaxLen \in Nat
  /\ Retention \in BOOLEAN
  /\ Serialized \in BOOLEAN

VARIABLES
  log,          \* broker: the records of each partition, oldest first
  low,          \* broker: the log start offset of each partition
  table,        \* Postgres: the committed event counts, per slice and hour
  pc,           \* where the run is
  slice,        \* the slice the run was asked for
  todo,         \* partitions whose watermark is still to be captured
  window,       \* replay_window; 0 for a partition outside of it
  position,     \* next offset the consumer fetches from each partition
  consumed_to,  \* highest in-window offset read from each partition
  seen,         \* event ids counted so far
  aggregator,   \* events counted so far per hour; 0 for an absent key
  counters,     \* the six run-level counters
  since         \* history: the end offsets of the topic when the run started

broker == <<log, low>>
locals == <<slice, todo, window, position, consumed_to, seen, aggregator,
            counters, since>>
vars == <<broker, table, pc, locals>>

Active == {"capture", "poll", "upsert"}
Ended  == {"done", "failed"}
Contradiction == {"integrity_error", "invalid_result"}

CounterName == {"read", "invalid", "out_of_slice", "in_slice", "duplicate",
                "unique"}

NoCounts == [n \in CounterName |-> 0]

Nowhere == [p \in Partition |-> 0]

TypeOK ==
  /\ log \in [Partition -> Seq(Message)]
  /\ low \in [Partition -> Nat]
  /\ table \in [Slice -> [Hour -> Nat]]
  /\ pc \in [Run -> {"idle"} \cup Active \cup Ended \cup Contradiction]
  /\ slice \in [Run -> Slice]
  /\ todo \in [Run -> SUBSET Partition]
  /\ window \in [Run -> [Partition -> Nat]]
  /\ position \in [Run -> [Partition -> Nat]]
  /\ consumed_to \in [Run -> [Partition -> Nat \cup {-1}]]
  /\ seen \in [Run -> SUBSET EventId]
  /\ aggregator \in [Run -> [Hour -> Nat]]
  /\ counters \in [Run -> [CounterName -> Nat]]
  /\ since \in [Run -> [Partition -> Nat]]

Init ==
  /\ log = [p \in Partition |-> << >>]
  /\ low = [p \in Partition |-> 0]
  /\ table = [s \in Slice |-> [h \in Hour |-> 0]]
  /\ pc = [r \in Run |-> "idle"]
  /\ slice \in [Run -> Slice]
  /\ todo = [r \in Run |-> {}]
  /\ window = [r \in Run |-> Nowhere]
  /\ position = [r \in Run |-> Nowhere]
  /\ consumed_to = [r \in Run |-> [p \in Partition |-> -1]]
  /\ seen = [r \in Run |-> {}]
  /\ aggregator = [r \in Run |-> [h \in Hour |-> 0]]
  /\ counters = [r \in Run |-> NoCounts]
  /\ since = [r \in Run |-> Nowhere]

-----------------------------------------------------------------------------
(* The environment of a run: producers, and the broker's retention.        *)

Produce(p, m) ==
  /\ Len(log[p]) < MaxLen
  /\ log' = [log EXCEPT ![p] = Append(@, m)]
  /\ UNCHANGED <<low, table, pc, locals>>

Expire(p) ==
  /\ Retention
  /\ low[p] < Len(log[p])
  /\ low' = [low EXCEPT ![p] = @ + 1]
  /\ UNCHANGED <<log, table, pc, locals>>

-----------------------------------------------------------------------------
(* One run.  Its local variables are gone when it ends.                    *)

\* Fault: a run resumes where the last one stopped, as with committed offsets.
ResumedPosition(r) == position[r]

\* All partitions are assigned at offset 0.
AssignedPosition(r) == Nowhere

\* Fresh locals of run r, with the watermarks of the partitions in ps to be
\* captured.
FreshLocals(r, ps) ==
  /\ todo' = [todo EXCEPT ![r] = ps]
  /\ window' = [window EXCEPT ![r] = Nowhere]
  /\ position' = [position EXCEPT ![r] = AssignedPosition(r)]
  /\ consumed_to' = [consumed_to EXCEPT ![r] = [p \in Partition |-> -1]]
  /\ seen' = [seen EXCEPT ![r] = {}]
  /\ aggregator' = [aggregator EXCEPT ![r] = [h \in Hour |-> 0]]
  /\ counters' = [counters EXCEPT ![r] = NoCounts]

\* The run ends and its locals are gone.
Forget(r) ==
  /\ FreshLocals(r, {})
  /\ since' = [since EXCEPT ![r] = Nowhere]
  /\ UNCHANGED slice

\* The run is invoked for slice s, discovers the partitions and assigns all
\* of them at offset 0.
Start(r, s) ==
  /\ pc[r] \in {"idle"} \cup Ended
  /\ Serialized => \A q \in Run : slice[q] = s => pc[q] \notin Active
  /\ pc' = [pc EXCEPT ![r] = "capture"]
  /\ slice' = [slice EXCEPT ![r] = s]
  /\ FreshLocals(r, Partition)
  /\ since' = [since EXCEPT ![r] = Ends(log)]
  /\ UNCHANGED <<broker, table>>

\* Fault: the last offset is taken for the end offset.
LastOffset(p) == Len(log[p]) - 1

HighWatermark(p) == Len(log[p])

\* One get_watermark_offsets call; partitions are asked in ascending order,
\* and producers may append between two calls.
Capture(r, p) ==
  /\ pc[r] = "capture"
  /\ p \in todo[r]
  /\ \A q \in todo[r] : p <= q
  /\ window' = [window EXCEPT ![r][p] = HighWatermark(p)]
  /\ todo' = [todo EXCEPT ![r] = @ \ {p}]
  /\ pc' = [pc EXCEPT ![r] = IF todo[r] = {p} THEN "poll" ELSE "capture"]
  /\ UNCHANGED <<broker, table, slice, position, consumed_to, seen, aggregator,
                 counters, since>>

\* Fault: all() instead of any(), so the first exhausted partition ends the loop.
WindowRemainsEverywhere(r) ==
  \A p \in Partition : consumed_to[r][p] < window[r][p] - 1

\* Fault: the loop waits for the end offset itself.
WindowRemainsPastEnd(r) ==
  \E p \in Partition : consumed_to[r][p] < window[r][p]

\* The condition of the poll loop.
WindowRemains(r) ==
  \E p \in Partition : consumed_to[r][p] < window[r][p] - 1

\* The next offset the broker serves: auto.offset.reset=earliest moves a
\* position that has expired to the log start.
NextOffset(r, p) == IF position[r][p] < low[p] THEN low[p] ELSE position[r][p]

\* poll() returns a record of partition p, any partition with one to serve.
Receive(r, p) ==
  /\ pc[r] = "poll"
  /\ WindowRemains(r)
  /\ NextOffset(r, p) < Len(log[p])
  /\ position' = [position EXCEPT ![r][p] = NextOffset(r, p) + 1]
  /\ UNCHANGED <<broker, table, pc, slice, todo, window, since>>

\* Fault: the record at the high watermark is taken for part of the window.
BeyondWindowExclusive(r, p) == NextOffset(r, p) > window[r][p]

\* The replay-window guard: the record belongs to a later replay.
BeyondWindow(r, p) == NextOffset(r, p) >= window[r][p]

PollBeyondWindow(r, p) ==
  /\ Receive(r, p)
  /\ BeyondWindow(r, p)
  /\ UNCHANGED <<consumed_to, seen, aggregator, counters>>

\* poll() returns record m of the window.
Read(r, p, m) ==
  /\ Receive(r, p)
  /\ ~BeyondWindow(r, p)
  /\ m = log[p][NextOffset(r, p) + 1]
  /\ consumed_to' = [consumed_to EXCEPT ![r][p] =
                       IF NextOffset(r, p) > @ THEN NextOffset(r, p) ELSE @]

\* One more record in each of the counters names.
Tally(c, names) ==
  [n \in CounterName |-> IF n \in names THEN c[n] + 1 ELSE c[n]]

PollInvalid(r, p) ==
  /\ Read(r, p, Invalid)
  /\ counters' = [counters EXCEPT ![r] = Tally(@, {"read", "invalid"})]
  /\ UNCHANGED <<seen, aggregator>>

PollOutOfSlice(r, p, e) ==
  /\ SliceOf[e] # slice[r]
  /\ Read(r, p, e)
  /\ counters' = [counters EXCEPT ![r] = Tally(@, {"read", "out_of_slice"})]
  /\ UNCHANGED <<seen, aggregator>>

\* Fault: no deduplication.
NeverDuplicate(r, e) == FALSE

Duplicate(r, e) == e \in seen[r]

AddToBucket(r, e) == aggregator' = [aggregator EXCEPT ![r][HourOf[e]] = @ + 1]

\* Fault: the bucket is incremented before the seen-set is consulted.
SkipButCount(r, e) == AddToBucket(r, e) /\ UNCHANGED seen

Skip(r, e) == UNCHANGED <<seen, aggregator>>

PollDuplicate(r, p, e) ==
  /\ SliceOf[e] = slice[r]
  /\ Duplicate(r, e)
  /\ Read(r, p, e)
  /\ Skip(r, e)
  /\ counters' = [counters EXCEPT ![r] = Tally(@, {"read", "in_slice", "duplicate"})]

\* Fault: the event is counted but never added to the seen-set.
CountUnremembered(r, e) == AddToBucket(r, e) /\ UNCHANGED seen

Count(r, e) ==
  /\ seen' = [seen EXCEPT ![r] = @ \cup {e}]
  /\ AddToBucket(r, e)

PollUnique(r, p, e) ==
  /\ SliceOf[e] = slice[r]
  /\ ~Duplicate(r, e)
  /\ Read(r, p, e)
  /\ Count(r, e)
  /\ counters' = [counters EXCEPT ![r] = Tally(@, {"read", "in_slice", "unique"})]

Poll(r, p) ==
  \/ PollBeyondWindow(r, p)
  \/ PollInvalid(r, p)
  \/ \E e \in EventId : \/ PollOutOfSlice(r, p, e)
                        \/ PollDuplicate(r, p, e)
                        \/ PollUnique(r, p, e)

\* poll() timed out: the loop goes round again and nothing changes.
PollTimeout(r) ==
  /\ pc[r] = "poll"
  /\ WindowRemains(r)
  /\ UNCHANGED vars

\* The loop ends; the buckets are built and checked against the counters
\* before anything is written.
Finish(r) ==
  /\ pc[r] = "poll"
  /\ ~WindowRemains(r)
  /\ IF SumFunction(aggregator[r]) = counters[r]["unique"]
     THEN pc' = [pc EXCEPT ![r] = "upsert"] /\ UNCHANGED locals
     ELSE pc' = [pc EXCEPT ![r] = "integrity_error"] /\ Forget(r)
  /\ UNCHANGED <<broker, table>>

\* The structural checks of TripCompletedConsumerResult that can fail for a slice
\* in range.  A run for another slice finds no event, since the contract refuses
\* them all, so it has written nothing when its result is refused.
ResultValid(c, counts) ==
  /\ c["in_slice"] <= c["read"]
  /\ c["unique"] <= c["in_slice"]
  /\ Cardinality({h \in Hour : counts[h] > 0}) <= c["unique"]

\* Fault: an incrementing upsert.
CommitIncrements(r) ==
  table' = [table EXCEPT ![slice[r]] =
              [h \in Hour |-> @[h] + aggregator[r][h]]]

CommitBuckets(r) ==
  table' = [table EXCEPT ![slice[r]] = Overwrite(@, aggregator[r])]

\* upsert_hourly_counts commits and the run returns a validated result.
Upsert(r) ==
  /\ pc[r] = "upsert"
  /\ CommitBuckets(r)
  /\ pc' = [pc EXCEPT ![r] = IF ResultValid(counters[r], aggregator[r])
                             THEN "done" ELSE "invalid_result"]
  /\ Forget(r)
  /\ UNCHANGED broker

\* The transaction commits, but the run fails before it can return: the
\* connection breaks after the server committed, or the process dies.
UpsertUnacknowledged(r) ==
  /\ pc[r] = "upsert"
  /\ CommitBuckets(r)
  /\ pc' = [pc EXCEPT ![r] = "failed"]
  /\ Forget(r)
  /\ UNCHANGED broker

\* Fault: the buckets counted so far are upserted on the way out.
WritePartially(r) == CommitBuckets(r)

WriteNothing(r) == UNCHANGED table

\* An exception leaves the run (metadata or watermark request, poll error,
\* rolled back transaction), or the process dies.  Nothing was written.
Abort(r) ==
  /\ pc[r] \in Active
  /\ pc' = [pc EXCEPT ![r] = "failed"]
  /\ WriteNothing(r)
  /\ Forget(r)
  /\ UNCHANGED broker

Step(r) ==
  \/ \E s \in Slice : Start(r, s)
  \/ \E p \in Partition : Capture(r, p) \/ Poll(r, p)
  \/ PollTimeout(r)
  \/ Finish(r)
  \/ Upsert(r)
  \/ UpsertUnacknowledged(r)
  \/ Abort(r)

Environment ==
  \E p \in Partition : Expire(p) \/ \E m \in Message : Produce(p, m)

Next == Environment \/ \E r \in Run : Step(r)

Spec == Init /\ [][Next]_vars

\* A run that was started keeps executing, and librdkafka's fetcher serves
\* every assigned partition in turn.  No fairness for errors, for producers,
\* for retention or for the next invocation.
Fairness ==
  \A r \in Run :
    /\ \A p \in Partition : WF_vars(Capture(r, p)) /\ WF_vars(Poll(r, p))
    /\ WF_vars(Finish(r))
    /\ WF_vars(Upsert(r))

FairSpec == Spec /\ Fairness

-----------------------------------------------------------------------------
(* What a run may publish.                                                 *)

\* How far run r has read into each partition of its window.
Consumed(r) == [p \in Partition |-> consumed_to[r][p] + 1]

\* At every point of the poll loop and after it, the seen-set holds exactly
\* the distinct in-slice events of the records read so far, each counted once
\* in the bucket of its own hour, and the six counters partition the records
\* read as the module docstring states (counter invariants, decision 45).
ReplayExact ==
  \A r \in Run : pc[r] \in {"poll", "upsert"} =>
    LET c == counters[r] IN
      /\ seen[r] = UniqueEvents(log, Consumed(r), slice[r])
      /\ aggregator[r] = HourCounts(seen[r])
      /\ c["unique"] = Cardinality(seen[r])
      /\ c["in_slice"] = c["duplicate"] + c["unique"]
      /\ c["read"] = c["invalid"] + c["out_of_slice"] + c["in_slice"]

\* A run that reaches the sink has read every offset of its window exactly
\* once: "read each partition's [0, watermark] range exactly once, then stop"
\* (decision 44), whatever was appended after the watermarks were captured.
ReadsEachOffsetOnce ==
  \A r \in Run : pc[r] = "upsert" => counters[r]["read"] = SumFunction(window[r])

\* While at most one run per slice is in progress, the rows of a slice are
\* always those of one single window: no hour is left over from an older
\* replay, although a replay writes only the hours it counted.
SnapshotWhole ==
  \A s \in Slice : \E w \in Windows(log) :
    table[s] = HourCounts(UniqueEvents(log, w, s))

\* While at most one run per slice is in progress, no row ever decreases: a
\* partial count never overwrites a correct one (decision 42, part 4).
CountsNeverShrink ==
  [][\A s \in Slice, h \in Hour : table'[s][h] >= table[s][h]]_table

\* The driver's integrity checks and the result's structural checks never
\* fail; the second would raise after the rows are committed.
NeverContradictsItself == \A r \in Run : pc[r] \notin Contradiction

\* The only in-slice events of the window that a run about to write may have
\* missed are those the broker has expired.
LossOnlyByExpiry ==
  \A r \in Run : pc[r] = "upsert" =>
    \A p \in Partition : \A i \in 1..window[r][p] :
      InSlice(slice[r], log[p][i]) /\ log[p][i] \notin seen[r] => i <= low[p]

\* Whatever is expired, duplicated, appended or run concurrently, no row ever
\* counts more events than the topic ever held for its slice and hour.
NeverOvercounts ==
  \A s \in Slice, h \in Hour :
    table[s][h] <= CountAt(UniqueEvents(log, Ends(log), s), h)

\* Every run that starts comes to an end: "Poll forward until each partition
\* reaches its captured end offset, then stop" (consume_and_aggregate, step 4).
RunEnds == \A r \in Run : pc[r] = "capture" ~> pc[r] \in Ended

\* The consumer implements "read the complete slice or write nothing".
Promise == INSTANCE SliceReplay WITH active <- {r \in Run : pc[r] \in Active}

ReadCompleteSliceOrWriteNothing == Promise!Spec

=============================================================================

-------------------------- MODULE TripConsumerProofs --------------------------
(***************************************************************************)
(* Theorems about the consumer for every number of partitions, events,     *)
(* hours, slices and runs.  The inductive invariant says, of a run in      *)
(* progress, how its window, its fetch positions, its seen-set and its     *)
(* aggregator relate to the topic; everything else follows from it.        *)
(*                                                                         *)
(* While the broker keeps every record, the consumer implements            *)
(* SliceReplay: at the sink a run has seen exactly the distinct events of  *)
(* its window, so its commit is one Publish of that window; every other    *)
(* way to end writes nothing; everything in between is invisible.          *)
(* When the runs of a slice take turns besides, each window contains those *)
(* before it, so that the rows of a slice are those of one window.         *)
(***************************************************************************)
EXTENDS TripConsumer, EventLogProofs

-----------------------------------------------------------------------------
(* The types.                                                              *)

\* Counters stay natural numbers.
LEMMA TallyType ==
  ASSUME NEW c \in [CounterName -> Nat], NEW names
  PROVE  Tally(c, names) \in [CounterName -> Nat]
BY DEF Tally

\* The initial state is well-typed.
LEMMA InitType == Init => TypeOK
BY DEF Init, TypeOK, Nowhere, NoCounts

\* What Forget and Start leave in the locals of a run.
LEMMA FreshType ==
  ASSUME TypeOK, NEW r \in Run, NEW ps \in SUBSET Partition, FreshLocals(r, ps)
  PROVE  /\ todo' \in [Run -> SUBSET Partition]
         /\ window' \in [Run -> [Partition -> Nat]]
         /\ position' \in [Run -> [Partition -> Nat]]
         /\ consumed_to' \in [Run -> [Partition -> Nat \cup {-1}]]
         /\ seen' \in [Run -> SUBSET EventId]
         /\ aggregator' \in [Run -> [Hour -> Nat]]
         /\ counters' \in [Run -> [CounterName -> Nat]]
BY DEF TypeOK, FreshLocals, AssignedPosition, Nowhere, NoCounts

\* The next offset served is at or after the position and the log start.
LEMMA OffsetType ==
  ASSUME TypeOK, NEW r \in Run, NEW p \in Partition
  PROVE  /\ NextOffset(r, p) \in Nat
         /\ position[r][p] <= NextOffset(r, p)
         /\ low[p] <= NextOffset(r, p)
BY DEF TypeOK, NextOffset

\* The commit of a run leaves a table of counts.
LEMMA CommitType ==
  ASSUME TypeOK, NEW r \in Run, CommitBuckets(r)
  PROVE  table' \in [Slice -> [Hour -> Nat]]
BY DEF TypeOK, CommitBuckets, Overwrite

\* poll() moves a position and nothing else that is shared.
LEMMA ReceiveType ==
  ASSUME TypeOK, NEW r \in Run, NEW p \in Partition, Receive(r, p)
  PROVE  /\ position' \in [Run -> [Partition -> Nat]]
         /\ UNCHANGED <<log, low, table, pc, slice, todo, window, since>>
BY OffsetType DEF Receive, TypeOK, broker

\* A record of the window moves consumed_to to its offset.
LEMMA ReadType ==
  ASSUME TypeOK, NEW r \in Run, NEW p \in Partition, NEW m, Read(r, p, m)
  PROVE  /\ consumed_to' \in [Run -> [Partition -> Nat \cup {-1}]]
         /\ Receive(r, p)
BY OffsetType DEF Read, TypeOK

\* Each disposition of a polled record keeps the types.
LEMMA PollType ==
  ASSUME TypeOK, NEW r \in Run, NEW p \in Partition, Poll(r, p)
  PROVE  TypeOK'
<1>1. CASE PollBeyondWindow(r, p)
  BY <1>1, ReceiveType DEF PollBeyondWindow, TypeOK
<1>2. CASE PollInvalid(r, p)
  BY <1>2, ReceiveType, ReadType, TallyType DEF PollInvalid, TypeOK
<1>3. ASSUME NEW e \in EventId, PollOutOfSlice(r, p, e)
      PROVE  TypeOK'
  BY <1>3, ReceiveType, ReadType, TallyType DEF PollOutOfSlice, TypeOK
<1>4. ASSUME NEW e \in EventId, PollDuplicate(r, p, e)
      PROVE  TypeOK'
  BY <1>4, ReceiveType, ReadType, TallyType DEF PollDuplicate, Skip, TypeOK
<1>5. ASSUME NEW e \in EventId, PollUnique(r, p, e)
      PROVE  TypeOK'
  <2>1. /\ aggregator' \in [Run -> [Hour -> Nat]]
        /\ seen' \in [Run -> SUBSET EventId]
    BY <1>5, EventLogAssumption DEF PollUnique, Count, AddToBucket, TypeOK
  <2> QED
    BY <1>5, <2>1, ReceiveType, ReadType, TallyType DEF PollUnique, TypeOK
<1> QED
  BY <1>1, <1>2, <1>3, <1>4, <1>5 DEF Poll

\* Each step of a run keeps the types.
LEMMA StepType ==
  ASSUME TypeOK, NEW r \in Run, Step(r)
  PROVE  TypeOK'
<1> USE DEF Active, Ended, Contradiction, broker
<1>1. ASSUME NEW s \in Slice, Start(r, s) PROVE TypeOK'
  <2>1. Ends(log) \in [Partition -> Nat]
    BY DEF Ends, TypeOK
  <2> QED
    BY <1>1, <2>1, FreshType DEF Start, TypeOK
<1>2. ASSUME NEW p \in Partition, Capture(r, p) PROVE TypeOK'
  BY <1>2 DEF Capture, HighWatermark, TypeOK
<1>3. CASE PollTimeout(r)
  BY <1>3 DEF PollTimeout, TypeOK, vars, locals
<1>4. CASE Finish(r)
  <2>1. UNCHANGED <<log, low, table>>
        /\ pc' \in [Run -> {"idle"} \cup Active \cup Ended \cup Contradiction]
    BY <1>4 DEF Finish, TypeOK
  <2>2. CASE UNCHANGED locals
    BY <2>1, <2>2 DEF TypeOK, locals
  <2>3. CASE Forget(r)
    BY <2>1, <2>3, FreshType DEF Forget, TypeOK, Nowhere
  <2> QED
    BY <1>4, <2>2, <2>3 DEF Finish
<1>5. CASE Upsert(r)
  BY <1>5, FreshType, CommitType DEF Upsert, Forget, TypeOK, Nowhere
<1>6. CASE UpsertUnacknowledged(r)
  BY <1>6, FreshType, CommitType
     DEF UpsertUnacknowledged, Forget, TypeOK, Nowhere
<1>7. CASE Abort(r)
  BY <1>7, FreshType DEF Abort, WriteNothing, Forget, TypeOK, Nowhere
<1> QED
  BY <1>1, <1>2, <1>3, <1>4, <1>5, <1>6, <1>7, PollType DEF Step

\* Producers and retention keep the types.
LEMMA EnvironmentType ==
  ASSUME TypeOK, Environment
  PROVE  TypeOK'
<1>1. ASSUME NEW p \in Partition, Expire(p) PROVE TypeOK'
  BY <1>1 DEF Expire, TypeOK, locals
<1>2. ASSUME NEW p \in Partition, NEW m \in Message, Produce(p, m) PROVE TypeOK'
  BY <1>2 DEF Produce, TypeOK, locals
<1> QED
  BY <1>1, <1>2 DEF Environment

\* The type invariant is inductive.
LEMMA NextType == TypeOK /\ [Next]_vars => TypeOK'
<1>1. TypeOK /\ UNCHANGED vars => TypeOK'
  BY DEF TypeOK, vars, broker, locals
<1> QED
  BY <1>1, StepType, EnvironmentType DEF Next

\* The state of the broker, of the table and of every run stays within its type.
THEOREM TypeCorrect == Spec => []TypeOK
BY InitType, NextType, PTL DEF Spec

-----------------------------------------------------------------------------
(* The inductive invariant: what holds of a run in progress.               *)

\* Until the last watermark is captured nothing has been read; then every
\* watermark is captured; a run at the sink has read to the end of its window.
Phases(r) ==
  /\ pc[r] = "capture" =>
       /\ position[r] = Nowhere
       /\ consumed_to[r] = [p \in Partition |-> -1]
       /\ seen[r] = {}
       /\ \A p \in todo[r] : window[r][p] = 0
  /\ pc[r] # "capture" => todo[r] = {}
  /\ pc[r] = "upsert" =>
       \A p \in Partition : window[r][p] - 1 <= consumed_to[r][p]

\* A captured window covers the topic of the run's start and no more than the
\* topic of now.
Windowed(r) ==
  \A p \in Partition :
    /\ window[r][p] <= Len(log[p])
    /\ since[r][p] <= Len(log[p])
    /\ p \notin todo[r] => since[r][p] <= window[r][p]

\* The highest offset read is inside the window and before the next fetch.
Positioned(r) ==
  \A p \in Partition : /\ consumed_to[r][p] < window[r][p]
                       /\ consumed_to[r][p] < position[r][p]

\* Every event in the seen-set was read.
SeenSound(r) == seen[r] \subseteq UniqueEvents(log, Consumed(r), slice[r])

\* Every in-slice event of the window that was fetched was seen, or had
\* expired.
SeenComplete(r) ==
  \A p \in Partition : \A i \in 1..window[r][p] :
    /\ i <= position[r][p]
    /\ InSlice(slice[r], log[p][i])
    /\ log[p][i] \notin seen[r]
    => i <= low[p]

Aggregated(r) == aggregator[r] = HourCounts(seen[r])

RunInv(r) ==
  pc[r] \in Active =>
    /\ Phases(r)
    /\ Windowed(r)
    /\ Positioned(r)
    /\ SeenSound(r)
    /\ SeenComplete(r)
    /\ Aggregated(r)

Unexpired == ~Retention => \A p \in Partition : low[p] = 0

IInv ==
  /\ TypeOK
  /\ \A r \in Run : RunInv(r)
  /\ NeverOvercounts
  /\ Unexpired

-----------------------------------------------------------------------------
(* A topic that only grows.                                                *)

\* What is read of a topic is read of every extension of it.
LEMMA UniqueMonotone ==
  ASSUME NEW lg1, NEW lg2, NEW w1, NEW w2, NEW s,
         \A p \in Partition : \A i \in 1..w1[p] :
           i \in 1..w2[p] /\ lg2[p][i] = lg1[p][i]
  PROVE  UniqueEvents(lg1, w1, s) \subseteq UniqueEvents(lg2, w2, s)
BY DEF UniqueEvents

\* Unique events are events.
LEMMA UniqueType ==
  ASSUME NEW lg, NEW w, NEW s
  PROVE  UniqueEvents(lg, w, s) \in SUBSET EventId
BY DEF UniqueEvents

\* No step shortens the topic or lowers a log start offset.
TopicGrows ==
  \A p \in Partition :
    /\ Len(log[p]) <= Len(log'[p])
    /\ low[p] <= low'[p]
    /\ \A i \in 1..Len(log[p]) : log'[p][i] = log[p][i]

SameRun(q) ==
  /\ pc'[q] = pc[q]
  /\ slice'[q] = slice[q]
  /\ todo'[q] = todo[q]
  /\ window'[q] = window[q]
  /\ position'[q] = position[q]
  /\ consumed_to'[q] = consumed_to[q]
  /\ seen'[q] = seen[q]
  /\ aggregator'[q] = aggregator[q]
  /\ since'[q] = since[q]

\* A topic left alone has not shrunk.
LEMMA UnchangedTopic ==
  ASSUME TypeOK, UNCHANGED broker
  PROVE  TopicGrows
BY DEF TypeOK, TopicGrows, broker

\* An append keeps every record where it was.
LEMMA ProduceGrows ==
  ASSUME TypeOK, NEW p \in Partition, NEW m \in Message, Produce(p, m)
  PROVE  TopicGrows
<1>1. ASSUME NEW q \in Partition
      PROVE  /\ Len(log[q]) <= Len(log'[q])
             /\ \A i \in 1..Len(log[q]) : log'[q][i] = log[q][i]
  <2>1. log[q] \in Seq(Message)
    BY DEF TypeOK
  <2>2. CASE q = p
    <3>1. log'[q] = Append(log[q], m)
      BY <2>2 DEF Produce, TypeOK
    <3> QED
      BY <2>1, <3>1
  <2>3. CASE q # p
    <3>1. log'[q] = log[q]
      BY <2>3 DEF Produce, TypeOK
    <3> QED
      BY <2>1, <3>1
  <2> QED
    BY <2>2, <2>3
<1>2. low' = low
  BY DEF Produce
<1> QED
  BY <1>1, <1>2 DEF TopicGrows, TypeOK

\* Retention raises a log start offset and forgets no record.
LEMMA ExpireGrows ==
  ASSUME TypeOK, NEW p \in Partition, Expire(p)
  PROVE  TopicGrows
BY DEF TypeOK, TopicGrows, Expire

\* The part of a window that was read lies within the topic.
LEMMA ReadWithinTopic ==
  ASSUME TypeOK, NEW r \in Run, Windowed(r), Positioned(r), NEW p \in Partition
  PROVE  /\ Consumed(r)[p] \in Nat
         /\ Consumed(r)[p] <= window[r][p]
         /\ window[r][p] \in Nat
         /\ window[r][p] <= Len(log[p])
         /\ Len(log[p]) \in Nat
<1>1. /\ consumed_to[r][p] \in Nat \cup {-1}
      /\ window[r][p] \in Nat
      /\ log[p] \in Seq(Message)
  BY DEF TypeOK
<1>2. /\ consumed_to[r][p] < window[r][p]
      /\ window[r][p] <= Len(log[p])
  BY DEF Windowed, Positioned
<1>3. Consumed(r)[p] = consumed_to[r][p] + 1
  BY DEF Consumed
<1>4. Len(log[p]) \in Nat
  BY <1>1
<1> QED
  BY <1>1, <1>2, <1>3, <1>4

\* A run in progress is not disturbed by a growing topic.
LEMMA RunUndisturbed ==
  ASSUME TypeOK, TypeOK', NEW q \in Run, RunInv(q), TopicGrows, SameRun(q)
  PROVE  RunInv(q)'
<1> SUFFICES ASSUME pc[q] \in Active
             PROVE  RunInv(q)'
  BY DEF SameRun, RunInv
<1> USE DEF SameRun
<1>1. /\ Phases(q) /\ Windowed(q) /\ Positioned(q)
      /\ SeenSound(q) /\ SeenComplete(q) /\ Aggregated(q)
  BY DEF RunInv
<1>2. Phases(q)'
  BY <1>1 DEF Phases
<1>3. Windowed(q)'
  BY <1>1 DEF Windowed, TopicGrows, TypeOK
<1>4. Positioned(q)'
  BY <1>1 DEF Positioned
<1>5. SeenSound(q)'
  <2>1. Consumed(q)' = Consumed(q)
    BY DEF Consumed
  <2>2. UniqueEvents(log, Consumed(q), slice[q])
          \subseteq UniqueEvents(log', Consumed(q), slice[q])
    <3>1. \A p \in Partition : \A i \in 1..Consumed(q)[p] :
            i \in 1..Consumed(q)[p] /\ log'[p][i] = log[p][i]
      <4> SUFFICES ASSUME NEW p \in Partition, NEW i \in 1..Consumed(q)[p]
                   PROVE  log'[p][i] = log[p][i]
        OBVIOUS
      <4>1. i \in 1..Len(log[p])
        BY <1>1, ReadWithinTopic
      <4> QED
        BY <4>1 DEF TopicGrows
    <3> QED
      BY <3>1, UniqueMonotone
  <2> QED
    BY <1>1, <2>1, <2>2 DEF SeenSound
<1>6. SeenComplete(q)'
  <2> SUFFICES ASSUME NEW p \in Partition, NEW i \in 1..window[q][p],
                      i <= position[q][p],
                      InSlice(slice[q], log'[p][i]),
                      log'[p][i] \notin seen[q]
               PROVE  i <= low'[p]
    BY DEF SeenComplete
  <2>1. i \in 1..Len(log[p])
    BY <1>1, ReadWithinTopic
  <2>2. log'[p][i] = log[p][i] /\ low[p] <= low'[p]
    BY <2>1 DEF TopicGrows
  <2>3. i <= low[p]
    BY <1>1, <2>2 DEF SeenComplete
  <2> QED
    BY <2>2, <2>3 DEF TypeOK
<1>7. Aggregated(q)'
  BY <1>1 DEF Aggregated
<1> QED
  BY <1>2, <1>3, <1>4, <1>5, <1>6, <1>7 DEF RunInv

\* Nor is the bound on the table, while the table stands.
LEMMA BoundUndisturbed ==
  ASSUME TypeOK, TypeOK', NeverOvercounts, TopicGrows, UNCHANGED table
  PROVE  NeverOvercounts'
<1> SUFFICES ASSUME NEW s \in Slice, NEW h \in Hour
             PROVE  table[s][h] <= CountAt(UniqueEvents(log', Ends(log'), s), h)
  BY DEF NeverOvercounts
<1>1. UniqueEvents(log, Ends(log), s) \subseteq UniqueEvents(log', Ends(log'), s)
  <2>1. \A p \in Partition : \A i \in 1..Ends(log)[p] :
          i \in 1..Ends(log')[p] /\ log'[p][i] = log[p][i]
    BY DEF TopicGrows, Ends, TypeOK
  <2> QED
    BY <2>1, UniqueMonotone
<1>2. table[s][h] <= CountAt(UniqueEvents(log, Ends(log), s), h)
  BY DEF NeverOvercounts
<1>3. CountAt(UniqueEvents(log, Ends(log), s), h)
        <= CountAt(UniqueEvents(log', Ends(log'), s), h)
  BY <1>1, UniqueType, CountMonotone
<1>4. /\ table[s][h] \in Nat
      /\ CountAt(UniqueEvents(log, Ends(log), s), h) \in Nat
      /\ CountAt(UniqueEvents(log', Ends(log'), s), h) \in Nat
  BY UniqueType, FiniteHour DEF TypeOK
<1> QED
  BY <1>2, <1>3, <1>4

-----------------------------------------------------------------------------
(* The steps of one run.                                                   *)

\* The fresh locals of one run leave every other run's alone.
LEMMA FreshOthers ==
  ASSUME TypeOK, NEW r \in Run, NEW q \in Run, q # r, NEW ps, FreshLocals(r, ps)
  PROVE  /\ todo'[q] = todo[q]
         /\ window'[q] = window[q]
         /\ position'[q] = position[q]
         /\ consumed_to'[q] = consumed_to[q]
         /\ seen'[q] = seen[q]
         /\ aggregator'[q] = aggregator[q]
BY DEF TypeOK, FreshLocals

\* A poll of one run leaves every other run's locals alone.
LEMMA PollOthers ==
  ASSUME TypeOK, NEW r \in Run, NEW q \in Run, q # r,
         NEW p \in Partition, Poll(r, p)
  PROVE  SameRun(q)
<1> USE DEF SameRun, Receive, Read, TypeOK, locals
<1>1. CASE PollBeyondWindow(r, p)
  BY <1>1 DEF PollBeyondWindow
<1>2. CASE PollInvalid(r, p)
  BY <1>2 DEF PollInvalid
<1>3. ASSUME NEW e \in EventId, PollOutOfSlice(r, p, e) PROVE SameRun(q)
  BY <1>3 DEF PollOutOfSlice
<1>4. ASSUME NEW e \in EventId, PollDuplicate(r, p, e) PROVE SameRun(q)
  BY <1>4 DEF PollDuplicate, Skip
<1>5. ASSUME NEW e \in EventId, PollUnique(r, p, e) PROVE SameRun(q)
  BY <1>5 DEF PollUnique, Count, AddToBucket
<1> QED
  BY <1>1, <1>2, <1>3, <1>4, <1>5 DEF Poll

\* A step of one run leaves every other run as it is.
LEMMA OthersUntouched ==
  ASSUME TypeOK, NEW r \in Run, Step(r), NEW q \in Run, q # r
  PROVE  SameRun(q)
<1>1. ASSUME NEW s \in Slice, Start(r, s) PROVE SameRun(q)
  BY <1>1, FreshOthers DEF Start, SameRun, TypeOK
<1>2. ASSUME NEW p \in Partition, Capture(r, p) PROVE SameRun(q)
  BY <1>2 DEF Capture, SameRun, TypeOK
<1>3. CASE PollTimeout(r)
  BY <1>3 DEF PollTimeout, SameRun, vars, locals
<1>4. CASE Finish(r)
  BY <1>4, FreshOthers DEF Finish, Forget, SameRun, locals, TypeOK
<1>5. CASE Upsert(r)
  BY <1>5, FreshOthers DEF Upsert, Forget, SameRun, TypeOK
<1>6. CASE UpsertUnacknowledged(r)
  BY <1>6, FreshOthers DEF UpsertUnacknowledged, Forget, SameRun, TypeOK
<1>7. CASE Abort(r)
  BY <1>7, FreshOthers DEF Abort, Forget, SameRun, TypeOK
<1> QED
  BY <1>1, <1>2, <1>3, <1>4, <1>5, <1>6, <1>7, PollOthers DEF Step

\* No step of a run touches the broker.
LEMMA BrokerUntouched ==
  ASSUME NEW r \in Run, Step(r)
  PROVE  UNCHANGED broker
<1> USE DEF broker
<1>1. ASSUME NEW p \in Partition, Poll(r, p) PROVE UNCHANGED broker
  BY <1>1 DEF Poll, PollBeyondWindow, PollInvalid, PollOutOfSlice,
              PollDuplicate, PollUnique, Read, Receive
<1> QED
  BY <1>1 DEF Step, Start, Capture, PollTimeout, Finish, Upsert,
              UpsertUnacknowledged, Abort, vars

\* A run that starts has read nothing.
LEMMA StartInv ==
  ASSUME TypeOK, TypeOK', NEW r \in Run, NEW s \in Slice, Start(r, s)
  PROVE  RunInv(r)'
<1>1. /\ pc'[r] = "capture"
      /\ todo'[r] = Partition
      /\ window'[r] = Nowhere
      /\ position'[r] = Nowhere
      /\ consumed_to'[r] = [p \in Partition |-> -1]
      /\ seen'[r] = {}
      /\ aggregator'[r] = [h \in Hour |-> 0]
      /\ since'[r] = Ends(log)
      /\ log' = log
  BY DEF Start, FreshLocals, AssignedPosition, TypeOK, broker
<1>2. Phases(r)'
  BY <1>1 DEF Phases, Nowhere
<1>3. Windowed(r)'
  BY <1>1 DEF Windowed, Nowhere, Ends, TypeOK
<1>4. Positioned(r)'
  BY <1>1 DEF Positioned, Nowhere
<1>5. SeenSound(r)'
  BY <1>1 DEF SeenSound
<1>6. SeenComplete(r)'
  BY <1>1 DEF SeenComplete, Nowhere
<1>7. Aggregated(r)'
  BY <1>1, CountNothing DEF Aggregated
<1> QED
  BY <1>2, <1>3, <1>4, <1>5, <1>6, <1>7 DEF RunInv

\* Capturing one more watermark leaves nothing read.
LEMMA CaptureInv ==
  ASSUME TypeOK, TypeOK', NEW r \in Run, NEW p \in Partition,
         RunInv(r), Capture(r, p)
  PROVE  RunInv(r)'
<1>1. /\ pc[r] = "capture"
      /\ pc'[r] = IF todo[r] = {p} THEN "poll" ELSE "capture"
      /\ todo'[r] = todo[r] \ {p}
      /\ window'[r] = [window[r] EXCEPT ![p] = Len(log[p])]
      /\ log' = log
      /\ low' = low
      /\ position'[r] = position[r]
      /\ consumed_to'[r] = consumed_to[r]
      /\ seen'[r] = seen[r]
      /\ aggregator'[r] = aggregator[r]
      /\ slice'[r] = slice[r]
      /\ since'[r] = since[r]
  BY DEF Capture, HighWatermark, TypeOK, broker
<1>2. /\ Phases(r) /\ Windowed(r) /\ Positioned(r)
      /\ SeenSound(r) /\ SeenComplete(r) /\ Aggregated(r)
  BY <1>1 DEF RunInv, Active
<1>3. /\ position[r] = Nowhere
      /\ consumed_to[r] = [q \in Partition |-> -1]
      /\ seen[r] = {}
      /\ \A q \in todo[r] : window[r][q] = 0
  BY <1>1, <1>2 DEF Phases
<1>4. Phases(r)'
  BY <1>1, <1>3 DEF Phases, TypeOK
<1>5. Windowed(r)'
  <2>1. ASSUME NEW q \in Partition
        PROVE  /\ window'[r][q] <= Len(log'[q])
               /\ since'[r][q] <= Len(log'[q])
               /\ q \notin todo'[r] => since'[r][q] <= window'[r][q]
    <3>1. /\ log[q] \in Seq(Message)
          /\ window[r] \in [Partition -> Nat]
          /\ since[r][q] \in Nat
      BY DEF TypeOK
    <3>2. CASE q = p
      BY <1>1, <1>2, <3>1, <3>2 DEF Windowed
    <3>3. CASE q # p
      BY <1>1, <1>2, <3>1, <3>3 DEF Windowed
    <3> QED
      BY <3>2, <3>3
  <2> QED
    BY <2>1 DEF Windowed
<1>6. Positioned(r)'
  <2>1. window'[r] \in [Partition -> Nat]
    BY DEF TypeOK
  <2> QED
    BY <1>1, <1>3, <2>1 DEF Positioned, Nowhere
<1>7. SeenSound(r)'
  BY <1>1, <1>3 DEF SeenSound
<1>8. SeenComplete(r)'
  <2>1. position'[r] = Nowhere
    BY <1>1, <1>3
  <2> QED
    BY <2>1 DEF SeenComplete, Nowhere
<1>9. Aggregated(r)'
  BY <1>1, <1>2 DEF Aggregated
<1> QED
  BY <1>4, <1>5, <1>6, <1>7, <1>8, <1>9 DEF RunInv

\* Where a record is received: past every earlier one, and either at the fetch
\* position or at the log start that overtook it.
LEMMA ReceiveAt ==
  ASSUME TypeOK, NEW r \in Run, NEW p \in Partition, Receive(r, p)
  PROVE  /\ NextOffset(r, p) \in Nat
         /\ position[r][p] <= NextOffset(r, p)
         /\ NextOffset(r, p) = position[r][p] \/ NextOffset(r, p) = low[p]
         /\ position'[r] = [position[r] EXCEPT ![p] = NextOffset(r, p) + 1]
         /\ pc[r] = "poll" /\ pc'[r] = "poll"
         /\ log' = log /\ low' = low
         /\ slice'[r] = slice[r] /\ todo'[r] = todo[r]
         /\ window'[r] = window[r] /\ since'[r] = since[r]
BY DEF TypeOK, Receive, NextOffset, broker

\* A record beyond the window moves the fetch position and nothing else.
LEMMA BeyondInv ==
  ASSUME TypeOK, TypeOK', NEW r \in Run, NEW p \in Partition,
         RunInv(r), PollBeyondWindow(r, p)
  PROVE  RunInv(r)'
<1> DEFINE o == NextOffset(r, p)
<1>1. /\ Receive(r, p)
      /\ o >= window[r][p]
      /\ UNCHANGED <<consumed_to, seen, aggregator>>
  BY DEF PollBeyondWindow, BeyondWindow
<1>2. /\ o \in Nat
      /\ position[r][p] <= o
      /\ o = position[r][p] \/ o = low[p]
      /\ position'[r] = [position[r] EXCEPT ![p] = o + 1]
      /\ pc[r] = "poll" /\ pc'[r] = "poll"
      /\ log' = log /\ low' = low
      /\ slice'[r] = slice[r] /\ todo'[r] = todo[r]
      /\ window'[r] = window[r] /\ since'[r] = since[r]
  BY <1>1, ReceiveAt
<1> HIDE DEF o
<1>3. /\ Phases(r) /\ Windowed(r) /\ Positioned(r)
      /\ SeenSound(r) /\ SeenComplete(r) /\ Aggregated(r)
  BY <1>2 DEF RunInv, Active
<1>4. Phases(r)'
  BY <1>1, <1>2, <1>3 DEF Phases
<1>5. Windowed(r)'
  BY <1>2, <1>3 DEF Windowed
<1>6. Positioned(r)'
  <2>1. /\ position[r] \in [Partition -> Nat]
        /\ consumed_to[r] \in [Partition -> Nat \cup {-1}]
    BY DEF TypeOK
  <2> QED
    BY <1>1, <1>2, <1>3, <2>1 DEF Positioned
<1>7. SeenSound(r)'
  <2>1. Consumed(r)' = Consumed(r)
    BY <1>1 DEF Consumed
  <2> QED
    BY <1>1, <1>2, <1>3, <2>1 DEF SeenSound
<1>8. SeenComplete(r)'
  <2> SUFFICES ASSUME NEW q \in Partition, NEW i \in 1..window[r][q],
                      i <= position'[r][q],
                      InSlice(slice[r], log[q][i]),
                      log[q][i] \notin seen[r]
               PROVE  i <= low[q]
    BY <1>1, <1>2 DEF SeenComplete
  <2>1. /\ position[r] \in [Partition -> Nat]
        /\ window[r][q] \in Nat /\ low[q] \in Nat
    BY DEF TypeOK
  <2>2. CASE i <= position[r][q]
    BY <1>3, <2>2 DEF SeenComplete
  <2>3. CASE ~(i <= position[r][q])
    <3>1. q = p
      BY <1>2, <2>1, <2>3
    <3> QED
      BY <1>1, <1>2, <2>1, <2>3, <3>1 DEF o
  <2> QED
    BY <2>2, <2>3
<1>9. Aggregated(r)'
  BY <1>1, <1>3 DEF Aggregated
<1> QED
  BY <1>4, <1>5, <1>6, <1>7, <1>8, <1>9 DEF RunInv

\* A record of the window is read; it is seen if and only if it is an event
\* of the slice.
LEMMA ReadInv ==
  ASSUME TypeOK, TypeOK', NEW r \in Run, NEW p \in Partition, NEW m,
         RunInv(r), Read(r, p, m),
         seen[r] \subseteq seen'[r],
         seen'[r] \subseteq seen[r] \cup {m},
         seen'[r] # seen[r] => InSlice(slice[r], m),
         InSlice(slice[r], m) => m \in seen'[r],
         Aggregated(r)'
  PROVE  RunInv(r)'
<1> DEFINE o == NextOffset(r, p)
<1>1. /\ Receive(r, p)
      /\ ~(o >= window[r][p])
      /\ m = log[p][o + 1]
      /\ consumed_to' = [consumed_to EXCEPT ![r][p] = IF o > @ THEN o ELSE @]
  BY DEF Read, BeyondWindow
<1>2. /\ o \in Nat
      /\ position[r][p] <= o
      /\ o = position[r][p] \/ o = low[p]
      /\ position'[r] = [position[r] EXCEPT ![p] = o + 1]
      /\ pc[r] = "poll" /\ pc'[r] = "poll"
      /\ log' = log /\ low' = low
      /\ slice'[r] = slice[r] /\ todo'[r] = todo[r]
      /\ window'[r] = window[r] /\ since'[r] = since[r]
  BY <1>1, ReceiveAt
<1> HIDE DEF o
<1>3. /\ Phases(r) /\ Windowed(r) /\ Positioned(r)
      /\ SeenSound(r) /\ SeenComplete(r)
  BY <1>2 DEF RunInv, Active
<1>4. /\ position[r] \in [Partition -> Nat]
      /\ consumed_to[r] \in [Partition -> Nat \cup {-1}]
      /\ window[r] \in [Partition -> Nat]
      /\ low \in [Partition -> Nat]
  BY DEF TypeOK
<1>5. consumed_to'[r] = [consumed_to[r] EXCEPT ![p] = o]
  <2>1. o > consumed_to[r][p]
    BY <1>2, <1>3, <1>4 DEF Positioned
  <2> QED
    BY <1>1, <2>1 DEF TypeOK
<1>6. o < window[r][p]
  BY <1>1, <1>2, <1>4
<1>7. Phases(r)'
  BY <1>2, <1>3 DEF Phases
<1>8. Windowed(r)'
  BY <1>2, <1>3 DEF Windowed
<1>9. Positioned(r)'
  BY <1>2, <1>3, <1>4, <1>5, <1>6 DEF Positioned
<1>10. SeenSound(r)'
  <2> SUFFICES ASSUME NEW e \in seen'[r]
               PROVE  e \in UniqueEvents(log, Consumed(r)', slice[r])
    BY <1>2 DEF SeenSound
  <2>1. \A q \in Partition :
          Consumed(r)'[q] = IF q = p THEN o + 1 ELSE Consumed(r)[q]
    BY <1>4, <1>5 DEF Consumed
  <2>2. CASE e \in seen[r]
    <3>1. e \in UniqueEvents(log, Consumed(r), slice[r])
      BY <1>3, <2>2 DEF SeenSound
    <3>2. \A q \in Partition : \A i \in 1..Consumed(r)[q] :
            i \in 1..Consumed(r)'[q] /\ log[q][i] = log[q][i]
      <4> SUFFICES ASSUME NEW q \in Partition, NEW i \in 1..Consumed(r)[q]
                   PROVE  i \in 1..Consumed(r)'[q]
        OBVIOUS
      <4>1. Consumed(r)[q] = consumed_to[r][q] + 1
        BY DEF Consumed
      <4> QED
        BY <1>2, <1>3, <1>4, <2>1, <4>1 DEF Positioned
    <3> QED
      BY <3>1, <3>2, UniqueMonotone
  <2>3. CASE e \notin seen[r]
    <3>1. e = m /\ InSlice(slice[r], m)
      BY <2>3
    <3>2. o + 1 \in 1..Consumed(r)'[p]
      BY <1>2, <2>1
    <3> QED
      BY <1>1, <3>1, <3>2 DEF UniqueEvents, InSlice
  <2> QED
    BY <2>2, <2>3
<1>11. SeenComplete(r)'
  <2> SUFFICES ASSUME NEW q \in Partition, NEW i \in 1..window[r][q],
                      i <= position'[r][q],
                      InSlice(slice[r], log[q][i]),
                      log[q][i] \notin seen'[r]
               PROVE  i <= low[q]
    BY <1>2 DEF SeenComplete
  <2>1. log[q][i] \notin seen[r]
    OBVIOUS
  <2>2. CASE i <= position[r][q]
    BY <1>3, <2>1, <2>2 DEF SeenComplete
  <2>3. CASE ~(i <= position[r][q])
    <3>1. q = p /\ i <= o + 1
      BY <1>2, <1>4, <2>3
    <3>2. i # o + 1
      BY <1>1, <3>1
    <3> QED
      BY <1>2, <1>4, <2>3, <3>1, <3>2
  <2> QED
    BY <2>2, <2>3
<1> QED
  BY <1>7, <1>8, <1>9, <1>10, <1>11 DEF RunInv

\* A poll keeps the invariant of its run: read exactly the offsets behind the
\* position, each unique event in the seen-set and in its bucket once.
LEMMA PollInv ==
  ASSUME TypeOK, TypeOK', NEW r \in Run, NEW p \in Partition,
         RunInv(r), Poll(r, p)
  PROVE  RunInv(r)'
<1>1. CASE PollBeyondWindow(r, p)
  BY <1>1, BeyondInv
<1>2. ASSUME NEW m, Read(r, p, m) PROVE Aggregated(r)
  BY <1>2 DEF RunInv, Read, Receive, Active
<1>3. CASE PollInvalid(r, p)
  <2>1. Read(r, p, Invalid) /\ seen' = seen /\ aggregator' = aggregator
    BY <1>3 DEF PollInvalid
  <2>2. ~InSlice(slice[r], Invalid)
    BY EventLogAssumption DEF InSlice
  <2>3. Aggregated(r)'
    BY <1>2, <2>1 DEF Aggregated
  <2> QED
    BY <2>1, <2>2, <2>3, ReadInv
<1>4. ASSUME NEW e \in EventId, PollOutOfSlice(r, p, e)
      PROVE  RunInv(r)'
  <2>1. Read(r, p, e) /\ seen' = seen /\ aggregator' = aggregator
    BY <1>4 DEF PollOutOfSlice
  <2>2. ~InSlice(slice[r], e)
    BY <1>4 DEF PollOutOfSlice, InSlice
  <2>3. Aggregated(r)'
    BY <1>2, <2>1 DEF Aggregated
  <2> QED
    BY <2>1, <2>2, <2>3, ReadInv
<1>5. ASSUME NEW e \in EventId, PollDuplicate(r, p, e)
      PROVE  RunInv(r)'
  <2>1. Read(r, p, e) /\ seen' = seen /\ aggregator' = aggregator
    BY <1>5 DEF PollDuplicate, Skip
  <2>2. e \in seen[r]
    BY <1>5 DEF PollDuplicate, Duplicate
  <2>3. Aggregated(r)'
    BY <1>2, <2>1 DEF Aggregated
  <2> QED
    BY <2>1, <2>2, <2>3, ReadInv
<1>6. ASSUME NEW e \in EventId, PollUnique(r, p, e)
      PROVE  RunInv(r)'
  <2>1. /\ Read(r, p, e)
        /\ seen' = [seen EXCEPT ![r] = @ \cup {e}]
        /\ aggregator' = [aggregator EXCEPT ![r][HourOf[e]] = @ + 1]
        /\ SliceOf[e] = slice[r]
        /\ e \notin seen[r]
    BY <1>6 DEF PollUnique, Count, AddToBucket, Duplicate
  <2>2. /\ seen'[r] = seen[r] \cup {e}
        /\ aggregator'[r] = [aggregator[r] EXCEPT ![HourOf[e]] = @ + 1]
        /\ seen[r] \in SUBSET EventId
    BY <2>1 DEF TypeOK
  <2>3. InSlice(slice[r], e)
    BY <2>1 DEF InSlice
  <2>4. Aggregated(r)'
    BY <1>2, <2>1, <2>2, CountAdd DEF Aggregated
  <2> QED
    BY <2>1, <2>2, <2>3, <2>4, ReadInv
<1> QED
  BY <1>1, <1>3, <1>4, <1>5, <1>6 DEF Poll

\* A run that leaves the poll loop has read to the end of its window.
LEMMA FinishInv ==
  ASSUME TypeOK, NEW r \in Run, RunInv(r), Finish(r)
  PROVE  RunInv(r)'
<1> SUFFICES ASSUME pc'[r] \in Active
             PROVE  RunInv(r)'
  BY DEF RunInv
<1>1. /\ pc[r] = "poll"
      /\ \A p \in Partition : ~(consumed_to[r][p] < window[r][p] - 1)
      /\ pc'[r] # "capture"
      /\ UNCHANGED <<broker, table, locals>>
  BY DEF Finish, WindowRemains, TypeOK, Active
<1>2. /\ Phases(r) /\ Windowed(r) /\ Positioned(r)
      /\ SeenSound(r) /\ SeenComplete(r) /\ Aggregated(r)
  BY <1>1 DEF RunInv, Active
<1>3. Phases(r)'
  <2>1. \A p \in Partition : window[r][p] - 1 <= consumed_to[r][p]
    BY <1>1 DEF TypeOK
  <2> QED
    BY <1>1, <1>2, <2>1 DEF Phases, locals
<1>4. /\ Windowed(r)' /\ Positioned(r)' /\ SeenSound(r)'
      /\ SeenComplete(r)' /\ Aggregated(r)'
  BY <1>1, <1>2 DEF Windowed, Positioned, SeenSound, Consumed, SeenComplete,
                    Aggregated, broker, locals
<1> QED
  BY <1>3, <1>4 DEF RunInv

\* What a run at the sink has counted is at most what the topic holds.
LEMMA SeenWithinTopic ==
  ASSUME TypeOK, NEW r \in Run, RunInv(r), pc[r] \in Active
  PROVE  seen[r] \subseteq UniqueEvents(log, Ends(log), slice[r])
<1>1. Windowed(r) /\ Positioned(r) /\ SeenSound(r)
  BY DEF RunInv
<1>2. \A p \in Partition : \A i \in 1..Consumed(r)[p] :
        i \in 1..Ends(log)[p] /\ log[p][i] = log[p][i]
  <2> SUFFICES ASSUME NEW p \in Partition, NEW i \in 1..Consumed(r)[p]
               PROVE  i \in 1..Len(log[p])
    BY DEF Ends
  <2> QED
    BY <1>1, ReadWithinTopic
<1> QED
  BY <1>1, <1>2, UniqueMonotone DEF SeenSound

\* Committing what a run has counted keeps the bound on the table.
LEMMA CommitBounded ==
  ASSUME TypeOK, TypeOK', NEW r \in Run, RunInv(r), NeverOvercounts,
         pc[r] = "upsert", CommitBuckets(r), UNCHANGED broker
  PROVE  NeverOvercounts'
<1> SUFFICES ASSUME NEW s \in Slice, NEW h \in Hour
             PROVE  table'[s][h] <= CountAt(UniqueEvents(log, Ends(log), s), h)
  BY DEF NeverOvercounts, broker
<1>1. table[s][h] <= CountAt(UniqueEvents(log, Ends(log), s), h)
  BY DEF NeverOvercounts
<1>2. CASE s # slice[r]
  <2>1. table'[s] = table[s]
    BY <1>2 DEF CommitBuckets, TypeOK
  <2> QED
    BY <1>1, <2>1
<1>3. CASE s = slice[r]
  <2>1. table'[s][h] = aggregator[r][h] \/ table'[s][h] = table[s][h]
    BY <1>3 DEF CommitBuckets, Overwrite, TypeOK
  <2>2. aggregator[r][h] = CountAt(seen[r], h)
    BY DEF RunInv, Active, Aggregated, HourCounts
  <2>3. CountAt(seen[r], h) <= CountAt(UniqueEvents(log, Ends(log), s), h)
    BY <1>3, SeenWithinTopic, UniqueType, CountMonotone DEF Active
  <2> QED
    BY <1>1, <2>1, <2>2, <2>3
<1> QED
  BY <1>2, <1>3

-----------------------------------------------------------------------------
(* The invariant.                                                          *)

\* The invariant holds at first.
LEMMA InitInv == Init => IInv
<1> SUFFICES ASSUME Init PROVE IInv
  OBVIOUS
<1>1. TypeOK
  BY InitType
<1>2. \A r \in Run : RunInv(r)
  BY DEF Init, RunInv, Active
<1>3. NeverOvercounts
  <2> SUFFICES ASSUME NEW s \in Slice, NEW h \in Hour
               PROVE  table[s][h] <= CountAt(UniqueEvents(log, Ends(log), s), h)
    BY DEF NeverOvercounts
  <2>1. table[s][h] = 0
    BY DEF Init
  <2>2. CountAt(UniqueEvents(log, Ends(log), s), h) \in Nat
    BY UniqueType, FiniteHour
  <2> QED
    BY <2>1, <2>2
<1>4. Unexpired
  BY DEF Init, Unexpired
<1> QED
  BY <1>1, <1>2, <1>3, <1>4 DEF IInv

\* Appends and retention keep the invariant of every run in progress.
LEMMA EnvironmentInv == IInv /\ Environment => IInv'
<1> SUFFICES ASSUME IInv, Environment PROVE IInv'
  OBVIOUS
<1> USE DEF IInv
<1>1. TypeOK'
  BY EnvironmentType
<1>2. TopicGrows
  BY ProduceGrows, ExpireGrows DEF Environment
<1>3. UNCHANGED <<table, pc, locals>>
  BY DEF Environment, Expire, Produce
<1>4. ASSUME NEW q \in Run PROVE RunInv(q)'
  <2>1. SameRun(q)
    BY <1>3 DEF SameRun, locals
  <2> QED
    BY <1>1, <1>2, <2>1, RunUndisturbed
<1>5. NeverOvercounts'
  BY <1>1, <1>2, <1>3, BoundUndisturbed
<1>6. Unexpired'
  BY DEF Environment, Expire, Produce, Unexpired
<1> QED
  BY <1>1, <1>4, <1>5, <1>6

\* A step of a run keeps its invariant, every other run's, and the table's.
LEMMA StepInv ==
  ASSUME IInv, NEW r \in Run, Step(r)
  PROVE  IInv'
<1> USE DEF IInv
<1>1. TypeOK' /\ UNCHANGED broker
  BY StepType, BrokerUntouched
<1>2. TopicGrows
  BY <1>1, UnchangedTopic
<1>3. Unexpired'
  BY <1>1 DEF Unexpired, broker
<1>4. ASSUME NEW q \in Run, q # r PROVE RunInv(q)'
  BY <1>1, <1>2, <1>4, OthersUntouched, RunUndisturbed
<1>5. CASE UNCHANGED table /\ RunInv(r)'
  BY <1>1, <1>2, <1>3, <1>4, <1>5, BoundUndisturbed
<1>6. CASE CommitBuckets(r) /\ pc[r] = "upsert" /\ pc'[r] \notin Active
  BY <1>1, <1>3, <1>4, <1>6, CommitBounded DEF RunInv
<1>7. ASSUME NEW s \in Slice, Start(r, s) PROVE IInv'
  BY <1>1, <1>5, <1>7, StartInv DEF Start
<1>8. ASSUME NEW p \in Partition, Capture(r, p) PROVE IInv'
  BY <1>1, <1>5, <1>8, CaptureInv DEF Capture
<1>9. ASSUME NEW p \in Partition, Poll(r, p) PROVE IInv'
  <2>1. UNCHANGED table
    BY <1>9 DEF Poll, PollBeyondWindow, PollInvalid, PollOutOfSlice,
                PollDuplicate, PollUnique, Read, Receive
  <2> QED
    BY <1>1, <1>5, <1>9, <2>1, PollInv
<1>10. CASE PollTimeout(r)
  <2>1. SameRun(r) /\ UNCHANGED table
    BY <1>10 DEF PollTimeout, SameRun, vars, locals
  <2> QED
    BY <1>1, <1>2, <1>5, <2>1, RunUndisturbed
<1>11. CASE Finish(r)
  BY <1>5, <1>11, FinishInv DEF Finish
<1>12. CASE Upsert(r)
  BY <1>6, <1>12 DEF Upsert, TypeOK, Active
<1>13. CASE UpsertUnacknowledged(r)
  BY <1>6, <1>13 DEF UpsertUnacknowledged, TypeOK, Active
<1>14. CASE Abort(r)
  BY <1>5, <1>14 DEF Abort, WriteNothing, RunInv, TypeOK, Active
<1> QED
  BY <1>7, <1>8, <1>9, <1>10, <1>11, <1>12, <1>13, <1>14 DEF Step

\* The relation between each run in progress and the topic holds throughout.
THEOREM Inductive == Spec => []IInv
<1>1. IInv /\ UNCHANGED vars => IInv'
  <2> SUFFICES ASSUME IInv, UNCHANGED vars PROVE IInv'
    OBVIOUS
  <2> USE DEF IInv, vars
  <2>1. TypeOK'
    BY NextType
  <2>2. TopicGrows
    BY UnchangedTopic
  <2>3. \A q \in Run : SameRun(q)
    BY DEF SameRun, locals
  <2>4. \A q \in Run : RunInv(q)'
    BY <2>1, <2>2, <2>3, RunUndisturbed
  <2>5. NeverOvercounts' /\ Unexpired'
    BY <2>1, <2>2, BoundUndisturbed DEF Unexpired, broker
  <2> QED
    BY <2>1, <2>4, <2>5
<1>2. IInv /\ [Next]_vars => IInv'
  BY <1>1, EnvironmentInv, StepInv DEF Next
<1> QED
  BY InitInv, <1>2, PTL DEF Spec

\* No row ever counts more events than the topic ever held for its slice and
\* hour, whatever is expired, duplicated or run concurrently.
THEOREM NoOvercount == Spec => []NeverOvercounts
<1>1. IInv => NeverOvercounts
  BY DEF IInv
<1> QED
  BY <1>1, Inductive, PTL

\* The in-slice events a run about to write has missed are expired ones.
THEOREM OnlyExpiredAreLost == Spec => []LossOnlyByExpiry
<1>1. IInv => LossOnlyByExpiry
  <2> SUFFICES ASSUME IInv, NEW r \in Run, pc[r] = "upsert",
                      NEW p \in Partition, NEW i \in 1..window[r][p],
                      InSlice(slice[r], log[p][i]),
                      log[p][i] \notin seen[r]
               PROVE  i <= low[p]
    BY DEF LossOnlyByExpiry
  <2>1. Phases(r) /\ Positioned(r) /\ SeenComplete(r)
    BY DEF IInv, RunInv, Active
  <2>2. window[r][p] - 1 <= consumed_to[r][p] /\ consumed_to[r][p] < position[r][p]
    BY <2>1 DEF Phases, Positioned
  <2>3. /\ window[r][p] \in Nat
        /\ position[r][p] \in Nat
        /\ consumed_to[r][p] \in Nat \cup {-1}
    BY DEF IInv, TypeOK
  <2>4. i <= position[r][p]
    BY <2>2, <2>3
  <2> QED
    BY <2>1, <2>4 DEF SeenComplete
<1> QED
  BY <1>1, Inductive, PTL

-----------------------------------------------------------------------------
(* What a replay has seen, when nothing expires.                           *)

\* The seen-set is what the read part of the window holds.
LEMMA SeenExactly ==
  ASSUME ~Retention, IInv, NEW r \in Run, pc[r] \in Active
  PROVE  seen[r] = UniqueEvents(log, Consumed(r), slice[r])
<1>1. /\ TypeOK /\ Windowed(r) /\ Positioned(r)
      /\ SeenSound(r) /\ SeenComplete(r)
  BY DEF IInv, RunInv
<1>2. ASSUME NEW e \in UniqueEvents(log, Consumed(r), slice[r])
      PROVE  e \in seen[r]
  <2>1. PICK p \in Partition : \E i \in 1..Consumed(r)[p] : log[p][i] = e
    BY DEF UniqueEvents
  <2>2. PICK i \in 1..Consumed(r)[p] : log[p][i] = e
    BY <2>1
  <2>3. InSlice(slice[r], log[p][i])
    BY <2>2 DEF UniqueEvents
  <2>4. i \in 1..window[r][p]
    BY <1>1, ReadWithinTopic
  <2>5. i <= position[r][p]
    <3>1. /\ position[r][p] \in Nat
          /\ consumed_to[r][p] \in Nat \cup {-1}
          /\ consumed_to[r][p] < position[r][p]
      BY <1>1 DEF TypeOK, Positioned
    <3>2. Consumed(r)[p] = consumed_to[r][p] + 1
      BY DEF Consumed
    <3> QED
      BY <3>1, <3>2
  <2>6. ~(i <= low[p])
    BY DEF IInv, Unexpired
  <2> QED
    BY <1>1, <2>2, <2>3, <2>4, <2>5, <2>6 DEF SeenComplete
<1> QED
  BY <1>1, <1>2 DEF SeenSound

\* At the sink the whole window has been read.
LEMMA WholeWindow ==
  ASSUME IInv, NEW r \in Run, pc[r] = "upsert"
  PROVE  Consumed(r) = window[r]
<1>1. /\ Phases(r) /\ Positioned(r)
      /\ window[r] \in [Partition -> Nat]
      /\ consumed_to[r] \in [Partition -> Nat \cup {-1}]
  BY DEF IInv, RunInv, Active, TypeOK
<1>2. ASSUME NEW p \in Partition
      PROVE  consumed_to[r][p] + 1 = window[r][p]
  BY <1>1 DEF Phases, Positioned
<1> QED
  BY <1>1, <1>2 DEF Consumed

-----------------------------------------------------------------------------
(* The counters.                                                           *)

\* The six counters of a run in progress partition the records it has read.
Counted(r) ==
  pc[r] \in Active =>
    /\ counters[r]["unique"] = Cardinality(seen[r])
    /\ counters[r]["in_slice"] = counters[r]["duplicate"] + counters[r]["unique"]
    /\ counters[r]["read"] = counters[r]["invalid"] + counters[r]["out_of_slice"]
                               + counters[r]["in_slice"]

AllCounted == \A r \in Run : Counted(r)

\* A step of one run leaves the counters of every other run as they are.
LEMMA CountersElsewhere ==
  ASSUME TypeOK, NEW r \in Run, Step(r), NEW q \in Run, q # r
  PROVE  counters'[q] = counters[q]
<1>1. ASSUME NEW p \in Partition, Poll(r, p) PROVE counters'[q] = counters[q]
  BY <1>1 DEF Poll, PollBeyondWindow, PollInvalid, PollOutOfSlice,
              PollDuplicate, PollUnique, TypeOK
<1> QED
  BY <1>1 DEF Step, Start, Capture, PollTimeout, Finish, Upsert,
              UpsertUnacknowledged, Abort, Forget, FreshLocals, vars,
              locals, TypeOK

\* A run that is left alone keeps its counters.
LEMMA CountedElsewhere ==
  ASSUME TypeOK, NEW q \in Run, Counted(q), SameRun(q), counters'[q] = counters[q]
  PROVE  Counted(q)'
BY DEF Counted, SameRun

\* Fresh counters add up.
LEMMA FreshCounted ==
  ASSUME TypeOK, NEW r \in Run, NEW ps, FreshLocals(r, ps)
  PROVE  Counted(r)'
<1>1. seen'[r] = {} /\ counters'[r] = NoCounts
  BY DEF FreshLocals, TypeOK
<1> QED
  BY <1>1, FS_EmptySet DEF Counted, NoCounts, CounterName

\* Each disposition of a polled record keeps the counters adding up.
LEMMA PollCounted ==
  ASSUME TypeOK, NEW r \in Run, NEW p \in Partition, Counted(r), Poll(r, p)
  PROVE  Counted(r)'
<1>1. ASSUME Receive(r, p)
      PROVE  /\ counters[r]["unique"] = Cardinality(seen[r])
             /\ counters[r]["in_slice"] =
                  counters[r]["duplicate"] + counters[r]["unique"]
             /\ counters[r]["read"] =
                  counters[r]["invalid"] + counters[r]["out_of_slice"]
                    + counters[r]["in_slice"]
  BY <1>1 DEF Counted, Receive, Active
<1>2. /\ counters[r] \in [CounterName -> Nat]
      /\ seen[r] \in SUBSET EventId
  BY DEF TypeOK
<1> USE DEF CounterName
<1>3. CASE PollBeyondWindow(r, p)
  BY <1>1, <1>3 DEF PollBeyondWindow, Counted
<1>4. CASE PollInvalid(r, p)
  <2>1. /\ Receive(r, p)
        /\ seen'[r] = seen[r]
        /\ counters'[r] = Tally(counters[r], {"read", "invalid"})
    BY <1>4 DEF PollInvalid, Read, TypeOK
  <2> QED
    BY <1>1, <1>2, <2>1 DEF Counted, Tally
<1>5. ASSUME NEW e \in EventId, PollOutOfSlice(r, p, e)
      PROVE  Counted(r)'
  <2>1. /\ Receive(r, p)
        /\ seen'[r] = seen[r]
        /\ counters'[r] = Tally(counters[r], {"read", "out_of_slice"})
    BY <1>5 DEF PollOutOfSlice, Read, TypeOK
  <2> QED
    BY <1>1, <1>2, <2>1 DEF Counted, Tally
<1>6. ASSUME NEW e \in EventId, PollDuplicate(r, p, e)
      PROVE  Counted(r)'
  <2>1. /\ Receive(r, p)
        /\ seen'[r] = seen[r]
        /\ counters'[r] = Tally(counters[r], {"read", "in_slice", "duplicate"})
    BY <1>6 DEF PollDuplicate, Skip, Read, TypeOK
  <2> QED
    BY <1>1, <1>2, <2>1 DEF Counted, Tally
<1>7. ASSUME NEW e \in EventId, PollUnique(r, p, e)
      PROVE  Counted(r)'
  <2>1. /\ Receive(r, p)
        /\ seen'[r] = seen[r] \cup {e}
        /\ e \notin seen[r]
        /\ counters'[r] = Tally(counters[r], {"read", "in_slice", "unique"})
    BY <1>7 DEF PollUnique, Count, Duplicate, Read, TypeOK
  <2>2. Cardinality(seen[r] \cup {e}) = Cardinality(seen[r]) + 1
    BY <1>2, <2>1, FiniteHour, FS_AddElement
  <2> QED
    BY <1>1, <1>2, <2>1, <2>2 DEF Counted, Tally
<1> QED
  BY <1>3, <1>4, <1>5, <1>6, <1>7 DEF Poll

\* Each step of a run keeps every run's counters adding up.
LEMMA StepCounted ==
  ASSUME TypeOK, NEW r \in Run, AllCounted, Step(r)
  PROVE  AllCounted'
<1>1. Counted(r)
  BY DEF AllCounted
<1>2. Counted(r)'
  <2>1. ASSUME NEW s \in Slice, Start(r, s) PROVE Counted(r)'
    BY <2>1, FreshCounted DEF Start
  <2>2. ASSUME NEW p \in Partition, Capture(r, p) PROVE Counted(r)'
    BY <1>1, <2>2 DEF Capture, Counted, Active
  <2>3. CASE PollTimeout(r)
    BY <1>1, <2>3 DEF PollTimeout, Counted, vars, locals
  <2>4. CASE Finish(r)
    BY <1>1, <2>4, FreshCounted DEF Finish, Forget, Counted, locals, Active
  <2>5. CASE Upsert(r) \/ UpsertUnacknowledged(r) \/ Abort(r)
    BY <2>5, FreshCounted DEF Upsert, UpsertUnacknowledged, Abort, Forget
  <2> QED
    BY <1>1, <2>1, <2>2, <2>3, <2>4, <2>5, PollCounted DEF Step
<1> QED
  BY <1>2, OthersUntouched, CountersElsewhere, CountedElsewhere DEF AllCounted

\* The six counters of every run partition the records it has read (decision 45).
THEOREM CountersCorrect == Spec => []AllCounted
<1>1. Init => AllCounted
  BY DEF Init, AllCounted, Counted, Active
<1>2. IInv /\ AllCounted /\ [Next]_vars => AllCounted'
  <2> SUFFICES ASSUME IInv, AllCounted, [Next]_vars PROVE AllCounted'
    OBVIOUS
  <2>1. TypeOK
    BY DEF IInv
  <2>2. CASE UNCHANGED vars
    BY <2>2 DEF AllCounted, Counted, vars, locals
  <2>3. CASE Environment
    BY <2>3 DEF Environment, Expire, Produce, AllCounted, Counted, locals
  <2>4. ASSUME NEW r \in Run, Step(r) PROVE AllCounted'
    BY <2>1, <2>4, StepCounted
  <2> QED
    BY <2>2, <2>3, <2>4 DEF Next
<1> QED
  BY <1>1, <1>2, Inductive, PTL DEF Spec

\* While nothing expires, the seen-set, the buckets and the counters of every
\* replay agree with the part of the topic it has read.
THEOREM ReplayIsExact == ASSUME ~Retention PROVE Spec => []ReplayExact
<1>1. IInv /\ AllCounted => ReplayExact
  <2> SUFFICES ASSUME IInv, AllCounted, NEW r \in Run, pc[r] \in {"poll", "upsert"}
               PROVE  /\ seen[r] = UniqueEvents(log, Consumed(r), slice[r])
                      /\ aggregator[r] = HourCounts(seen[r])
                      /\ counters[r]["unique"] = Cardinality(seen[r])
                      /\ counters[r]["in_slice"] =
                           counters[r]["duplicate"] + counters[r]["unique"]
                      /\ counters[r]["read"] =
                           counters[r]["invalid"] + counters[r]["out_of_slice"]
                             + counters[r]["in_slice"]
    BY DEF ReplayExact
  <2>1. pc[r] \in Active
    BY DEF Active
  <2>2. seen[r] = UniqueEvents(log, Consumed(r), slice[r])
    BY <2>1, SeenExactly
  <2>3. aggregator[r] = HourCounts(seen[r])
    BY <2>1 DEF IInv, RunInv, Aggregated
  <2>4. Counted(r)
    BY DEF AllCounted
  <2> QED
    BY <2>1, <2>2, <2>3, <2>4 DEF Counted
<1> QED
  BY <1>1, Inductive, CountersCorrect, PTL

-----------------------------------------------------------------------------
(* A run never contradicts itself.                                         *)

\* What the driver checks before it writes: the buckets add up.
LEMMA DriverAgrees ==
  ASSUME IInv, AllCounted, NEW r \in Run, pc[r] \in Active
  PROVE  SumFunction(aggregator[r]) = counters[r]["unique"]
<1>1. aggregator[r] = HourCounts(seen[r]) /\ seen[r] \in SUBSET EventId
  BY DEF IInv, RunInv, Aggregated, TypeOK
<1>2. counters[r]["unique"] = Cardinality(seen[r])
  BY DEF AllCounted, Counted
<1> QED
  BY <1>1, <1>2, CountsAddUp

\* What the result checks after the rows are committed.
LEMMA ResultAgrees ==
  ASSUME IInv, AllCounted, NEW r \in Run, pc[r] \in Active
  PROVE  ResultValid(counters[r], aggregator[r])
<1>1. aggregator[r] = HourCounts(seen[r]) /\ seen[r] \in SUBSET EventId
  BY DEF IInv, RunInv, Aggregated, TypeOK
<1>2. Cardinality({h \in Hour : aggregator[r][h] > 0}) <= Cardinality(seen[r])
  BY <1>1, HoursBounded
<1>3. \A n \in CounterName : counters[r][n] \in Nat
  BY DEF IInv, TypeOK
<1>4. /\ counters[r]["unique"] = Cardinality(seen[r])
      /\ counters[r]["unique"] <= counters[r]["in_slice"]
      /\ counters[r]["in_slice"] <= counters[r]["read"]
  BY <1>3 DEF AllCounted, Counted, CounterName
<1> QED
  BY <1>2, <1>4 DEF ResultValid

\* Neither check ever fails, whatever expires, arrives late or is run at once.
THEOREM ChecksNeverFail == Spec => []NeverContradictsItself
<1>1. Init => NeverContradictsItself
  BY DEF Init, NeverContradictsItself, Contradiction
<1>2. IInv /\ AllCounted /\ NeverContradictsItself /\ [Next]_vars
        => NeverContradictsItself'
  <2> SUFFICES ASSUME IInv, AllCounted, NeverContradictsItself, [Next]_vars,
                      NEW q \in Run
               PROVE  pc'[q] \notin Contradiction
    BY DEF NeverContradictsItself
  <2>1. TypeOK /\ pc[q] \notin Contradiction
    BY DEF IInv, NeverContradictsItself
  <2>2. CASE UNCHANGED vars
    BY <2>1, <2>2 DEF vars
  <2>3. CASE Environment
    BY <2>1, <2>3 DEF Environment, Expire, Produce
  <2>4. ASSUME NEW r \in Run, Step(r), q # r PROVE pc'[q] \notin Contradiction
    BY <2>1, <2>4, OthersUntouched DEF SameRun
  <2>5. ASSUME Step(q) PROVE pc'[q] \notin Contradiction
    <3> USE <2>1 DEF TypeOK, Contradiction
    <3>1. CASE Finish(q)
      <4>1. SumFunction(aggregator[q]) = counters[q]["unique"]
        BY <3>1, DriverAgrees DEF Finish, Active
      <4> QED
        BY <3>1, <4>1 DEF Finish
    <3>2. CASE Upsert(q)
      <4>1. ResultValid(counters[q], aggregator[q])
        BY <3>2, ResultAgrees DEF Upsert, Active
      <4> QED
        BY <3>2, <4>1 DEF Upsert
    <3>3. ASSUME NEW p \in Partition, Poll(q, p) PROVE pc'[q] = pc[q]
      BY <3>3 DEF Poll, PollBeyondWindow, PollInvalid, PollOutOfSlice,
                  PollDuplicate, PollUnique, Read, Receive
    <3> QED
      BY <2>5, <3>1, <3>2, <3>3
      DEF Step, Start, Capture, PollTimeout, UpsertUnacknowledged, Abort, vars
  <2> QED
    BY <2>2, <2>3, <2>4, <2>5 DEF Next
<1> QED
  BY <1>1, <1>2, Inductive, CountersCorrect, PTL DEF Spec

-----------------------------------------------------------------------------
(* Each offset is read once.                                               *)

\* The run has read every offset it has fetched, up to the end of the window.
Contiguous(r) ==
  \A p \in Partition :
    consumed_to[r][p] + 1 = IF position[r][p] <= window[r][p] THEN position[r][p]
                            ELSE window[r][p]

\* The counter of the records read is the length of what has been read.
ReadOnce(r) ==
  pc[r] \in Active =>
    /\ Contiguous(r)
    /\ counters[r]["read"] = SumFunctionOnSet(Consumed(r), Partition)

AllReadOnce == \A r \in Run : ReadOnce(r)

\* A run that starts, or ends, has read nothing.
LEMMA FreshReadOnce ==
  ASSUME TypeOK, NEW r \in Run, NEW ps, FreshLocals(r, ps)
  PROVE  ReadOnce(r)'
<1>1. /\ position'[r] = Nowhere
      /\ consumed_to'[r] = [p \in Partition |-> -1]
      /\ counters'[r] = NoCounts
  BY DEF FreshLocals, AssignedPosition, TypeOK
<1>2. Contiguous(r)'
  BY <1>1 DEF FreshLocals, Contiguous, Nowhere, TypeOK
<1>3. \A p \in Partition : Consumed(r)'[p] = 0
  BY <1>1 DEF Consumed
<1>4. SumFunctionOnSet(Consumed(r)', Partition) = 0
  BY <1>3, SumZero, EventLogAssumption
<1> QED
  BY <1>1, <1>2, <1>4 DEF ReadOnce, NoCounts, CounterName

\* A polled record of the window is the next one of its partition.
LEMMA ReadKeepsOnce ==
  ASSUME ~Retention, IInv, NEW r \in Run, NEW p \in Partition, NEW m, ReadOnce(r),
         Read(r, p, m), counters'[r]["read"] = counters[r]["read"] + 1
  PROVE  ReadOnce(r)'
<1>1. /\ TypeOK /\ Receive(r, p) /\ pc[r] \in Active
      /\ ~BeyondWindow(r, p)
  BY DEF IInv, Read, Receive, Active
<1> DEFINE n == position[r][p]
<1>2. NextOffset(r, p) = n /\ n \in Nat
  BY <1>1 DEF IInv, Unexpired, NextOffset, TypeOK
<1>3. n < window[r][p] /\ window[r][p] \in Nat
  BY <1>1, <1>2 DEF BeyondWindow, TypeOK
<1>4. /\ Contiguous(r)
      /\ counters[r]["read"] = SumFunctionOnSet(Consumed(r), Partition)
  BY <1>1 DEF ReadOnce
<1>5. consumed_to[r][p] + 1 = n /\ consumed_to[r][p] \in Int
  BY <1>1, <1>3, <1>4 DEF Contiguous, TypeOK
<1>6. /\ position'[r] = [position[r] EXCEPT ![p] = n + 1]
      /\ window'[r] = window[r]
  BY <1>1, <1>2, ReceiveAt
<1>7. /\ position[r] \in [Partition -> Nat]
      /\ consumed_to[r] \in [Partition -> Nat \cup {-1}]
      /\ consumed_to \in [Run -> [Partition -> Nat \cup {-1}]]
  BY <1>1 DEF TypeOK
<1> HIDE DEF n
<1>8. consumed_to'[r] = [consumed_to[r] EXCEPT ![p] = n]
  <2>1. consumed_to' = [consumed_to EXCEPT ![r][p] =
                          IF NextOffset(r, p) > @ THEN NextOffset(r, p) ELSE @]
    BY DEF Read
  <2>2. n > consumed_to[r][p]
    BY <1>5, <1>2
  <2> QED
    BY <1>2, <1>7, <2>1, <2>2
<1>9. Contiguous(r)'
  <2> SUFFICES ASSUME NEW k \in Partition
               PROVE  consumed_to'[r][k] + 1 =
                        IF position'[r][k] <= window'[r][k] THEN position'[r][k]
                        ELSE window'[r][k]
    BY DEF Contiguous
  <2>1. CASE k = p
    BY <1>2, <1>3, <1>6, <1>7, <1>8, <2>1
  <2>2. CASE k # p
    BY <1>4, <1>6, <1>7, <1>8, <2>2 DEF Contiguous
  <2> QED
    BY <2>1, <2>2
<1>10. SumFunctionOnSet(Consumed(r)', Partition)
         = SumFunctionOnSet(Consumed(r), Partition) + 1
  <2>1. Consumed(r) \in [Partition -> Nat]
    BY <1>7 DEF Consumed
  <2>2. Consumed(r)' \in [Partition -> Nat]
    BY <1>2, <1>7, <1>8 DEF Consumed
  <2>3. \A k \in Partition :
          Consumed(r)'[k] = IF k = p THEN Consumed(r)[k] + 1 ELSE Consumed(r)[k]
    BY <1>5, <1>7, <1>8 DEF Consumed
  <2>4. IsFiniteSet(Partition)
    BY EventLogAssumption
  <2> QED
    BY <2>1, <2>2, <2>3, <2>4, SumIncrement
<1> QED
  BY <1>4, <1>9, <1>10 DEF ReadOnce

\* Each disposition of a polled record counts it once.
LEMMA PollReadOnce ==
  ASSUME ~Retention, IInv, NEW r \in Run, NEW p \in Partition, ReadOnce(r), Poll(r, p)
  PROVE  ReadOnce(r)'
<1>1. /\ TypeOK
      /\ \A names : "read" \in names =>
           Tally(counters[r], names)["read"] = counters[r]["read"] + 1
  BY DEF IInv, Tally, CounterName
<1>2. CASE PollBeyondWindow(r, p)
  <2>1. /\ Receive(r, p) /\ pc[r] \in Active
        /\ NextOffset(r, p) >= window[r][p] /\ NextOffset(r, p) \in Nat
        /\ position'[r] = [position[r] EXCEPT ![p] = NextOffset(r, p) + 1]
        /\ window'[r] = window[r] /\ window[r][p] \in Nat
        /\ UNCHANGED <<consumed_to, counters>>
    <3>1. Receive(r, p) /\ NextOffset(r, p) >= window[r][p] /\ UNCHANGED <<consumed_to, counters>>
      BY <1>2 DEF PollBeyondWindow, BeyondWindow
    <3>2. window[r][p] \in Nat
      BY <1>1 DEF TypeOK
    <3> QED
      BY <1>1, <3>1, <3>2, ReceiveAt DEF Active
  <2>2. Contiguous(r)'
    <3> SUFFICES ASSUME NEW k \in Partition
                 PROVE  consumed_to'[r][k] + 1 =
                          IF position'[r][k] <= window'[r][k] THEN position'[r][k]
                          ELSE window'[r][k]
      BY DEF Contiguous
    <3>1. CASE k = p
      <4>1. NextOffset(r, p) = position[r][p]
        BY <1>1 DEF IInv, Unexpired, NextOffset, TypeOK
      <4>2. consumed_to[r][p] + 1 = window[r][p]
        BY <1>1, <2>1, <4>1 DEF ReadOnce, Contiguous, TypeOK
      <4> QED
        BY <1>1, <2>1, <3>1, <4>1, <4>2 DEF TypeOK
    <3>2. CASE k # p
      BY <1>1, <2>1, <3>2 DEF ReadOnce, Contiguous, TypeOK
    <3> QED
      BY <3>1, <3>2
  <2>3. Consumed(r)' = Consumed(r)
    BY <2>1 DEF Consumed
  <2> QED
    BY <2>1, <2>2, <2>3 DEF ReadOnce
<1>3. ASSUME NEW m, Read(r, p, m), NEW names, "read" \in names,
             counters' = [counters EXCEPT ![r] = Tally(@, names)]
      PROVE  ReadOnce(r)'
  <2>1. counters'[r]["read"] = counters[r]["read"] + 1
    BY <1>1, <1>3 DEF TypeOK
  <2> QED
    BY <1>3, <2>1, ReadKeepsOnce
<1>4. PollInvalid(r, p) => ReadOnce(r)'
  BY <1>3 DEF PollInvalid
<1>5. ASSUME NEW e \in EventId,
             PollOutOfSlice(r, p, e) \/ PollDuplicate(r, p, e) \/ PollUnique(r, p, e)
      PROVE  ReadOnce(r)'
  BY <1>3, <1>5 DEF PollOutOfSlice, PollDuplicate, PollUnique
<1> QED
  BY <1>2, <1>4, <1>5 DEF Poll

\* Each step of a run keeps every run's reads counted.
LEMMA StepReadOnce ==
  ASSUME ~Retention, IInv, AllReadOnce, NEW r \in Run, Step(r)
  PROVE  AllReadOnce'
<1>1. TypeOK /\ ReadOnce(r)
  BY DEF IInv, AllReadOnce
<1>2. ReadOnce(r)'
  <2>1. ASSUME NEW s \in Slice, Start(r, s) PROVE ReadOnce(r)'
    BY <1>1, <2>1, FreshReadOnce DEF Start
  <2>2. ASSUME NEW p \in Partition, Capture(r, p) PROVE ReadOnce(r)'
    <3>1. /\ position[r] = Nowhere
          /\ consumed_to[r] = [k \in Partition |-> -1]
      BY <2>2 DEF IInv, RunInv, Phases, Capture, Active
    <3>2. \A k \in Partition : window'[r][k] \in Nat
      BY <1>1, <2>2 DEF Capture, HighWatermark, TypeOK
    <3>3. Contiguous(r)'
      BY <2>2, <3>1, <3>2 DEF Capture, Contiguous, Nowhere
    <3> QED
      BY <1>1, <2>2, <3>3 DEF Capture, ReadOnce, Consumed, Active
  <2>3. CASE PollTimeout(r)
    BY <1>1, <2>3 DEF PollTimeout, ReadOnce, Contiguous, Consumed, vars, locals
  <2>4. CASE Finish(r)
    BY <1>1, <2>4, FreshReadOnce
    DEF Finish, Forget, ReadOnce, Contiguous, Consumed, locals, Active
  <2>5. CASE Upsert(r) \/ UpsertUnacknowledged(r) \/ Abort(r)
    BY <1>1, <2>5, FreshReadOnce DEF Upsert, UpsertUnacknowledged, Abort, Forget
  <2> QED
    BY <1>1, <2>1, <2>2, <2>3, <2>4, <2>5, PollReadOnce DEF Step
<1>3. ASSUME NEW q \in Run, q # r PROVE ReadOnce(q)'
  <2>1. SameRun(q) /\ counters'[q] = counters[q]
    BY <1>1, <1>3, OthersUntouched, CountersElsewhere
  <2>2. ReadOnce(q)
    BY DEF AllReadOnce
  <2> QED
    BY <2>1, <2>2 DEF SameRun, ReadOnce, Contiguous, Consumed
<1> QED
  BY <1>2, <1>3 DEF AllReadOnce

\* While nothing expires, what a run has fetched of its window it has read.
LEMMA ReadOnceInductive == ASSUME ~Retention PROVE Spec => []AllReadOnce
<1>1. Init => AllReadOnce
  BY DEF Init, AllReadOnce, ReadOnce, Active
<1>2. IInv /\ AllReadOnce /\ [Next]_vars => AllReadOnce'
  <2> SUFFICES ASSUME IInv, AllReadOnce, [Next]_vars PROVE AllReadOnce'
    OBVIOUS
  <2>1. CASE UNCHANGED <<pc, locals>>
    BY <2>1 DEF AllReadOnce, ReadOnce, Contiguous, Consumed, locals
  <2>2. CASE Environment \/ UNCHANGED vars
    BY <2>1, <2>2 DEF Environment, Expire, Produce, vars
  <2>3. ASSUME NEW r \in Run, Step(r) PROVE AllReadOnce'
    BY <2>3, StepReadOnce
  <2> QED
    BY <2>2, <2>3 DEF Next
<1> QED
  BY <1>1, <1>2, Inductive, PTL DEF Spec

\* While nothing expires, a replay reads each offset of its window exactly once
\* (decision 44), whatever is appended meanwhile.
THEOREM EachOffsetOnce == ASSUME ~Retention PROVE Spec => []ReadsEachOffsetOnce
<1>1. IInv /\ AllReadOnce => ReadsEachOffsetOnce
  <2> SUFFICES ASSUME IInv, AllReadOnce, NEW r \in Run, pc[r] = "upsert"
               PROVE  counters[r]["read"] = SumFunction(window[r])
    BY DEF ReadsEachOffsetOnce
  <2>1. Consumed(r) = window[r]
    BY WholeWindow
  <2>2. counters[r]["read"] = SumFunctionOnSet(Consumed(r), Partition)
    BY DEF AllReadOnce, ReadOnce, Active
  <2>3. DOMAIN window[r] = Partition
    BY DEF IInv, TypeOK
  <2> QED
    BY <2>1, <2>2, <2>3 DEF SumFunction
<1> QED
  BY <1>1, ReadOnceInductive, Inductive, PTL

\* A run whose window is not exhausted has a record of the window still to be
\* served: the poll loop waits for nothing but the broker's answer.
AlwaysMoreToRead ==
  \A r \in Run : pc[r] = "poll" /\ WindowRemains(r) =>
    \E p \in Partition : /\ NextOffset(r, p) < Len(log[p])
                         /\ ~BeyondWindow(r, p)

\* While nothing expires the poll loop cannot run dry: as long as its condition
\* holds there is a record of the window to read, also when other partitions only
\* have records beyond it.  (With retention there need not be one: the run
\* consumer_expired shows the loop that never ends.)
THEOREM NeverRunsDry == ASSUME ~Retention PROVE Spec => []AlwaysMoreToRead
<1>1. IInv /\ AllReadOnce => AlwaysMoreToRead
  <2> SUFFICES ASSUME IInv, AllReadOnce, NEW r \in Run, pc[r] = "poll",
                      NEW p \in Partition, consumed_to[r][p] < window[r][p] - 1
               PROVE  NextOffset(r, p) < Len(log[p]) /\ ~BeyondWindow(r, p)
    BY DEF AlwaysMoreToRead, WindowRemains
  <2>1. TypeOK /\ Windowed(r) /\ Contiguous(r)
    BY DEF IInv, RunInv, AllReadOnce, ReadOnce, Active
  <2>2. /\ position[r][p] \in Nat /\ window[r][p] \in Nat /\ Len(log[p]) \in Nat
        /\ consumed_to[r][p] \in Int
    BY <2>1 DEF TypeOK
  <2>3. position[r][p] < window[r][p]
    BY <2>1, <2>2 DEF Contiguous
  <2>4. NextOffset(r, p) = position[r][p]
    BY <2>2 DEF IInv, Unexpired, NextOffset
  <2>5. window[r][p] <= Len(log[p])
    BY <2>1 DEF Windowed
  <2> QED
    BY <2>2, <2>3, <2>4, <2>5 DEF BeyondWindow
<1> QED
  BY <1>1, ReadOnceInductive, Inductive, PTL

-----------------------------------------------------------------------------
(* The refinement.                                                         *)

InProgress == {r \in Run : pc[r] \in Active}

\* SliceReplay counts as the consumer does.
LEMMA SameCount ==
  ASSUME NEW ids
  PROVE  Promise!HourCounts(ids) = HourCounts(ids)
<1>1. ASSUME NEW S PROVE Promise!Cardinality(S) = Cardinality(S)
  BY DEF Promise!Cardinality, Cardinality
<1> QED
  BY <1>1 DEF HourCounts, CountAt, Promise!HourCounts, Promise!CountAt

\* The initial states map to initial states.
LEMMA InitRefines == Init => Promise!Init
BY DEF Init, Promise!Init, Nowhere, Promise!Nowhere, Active

\* A run in progress that ends without a commit is a WriteNothing.
LEMMA EndRefines ==
  ASSUME TypeOK, NEW r \in Run, pc[r] \in Active, Forget(r),
         NEW x, x \notin Active, pc' = [pc EXCEPT ![r] = x],
         UNCHANGED log
  PROVE  Promise!End(r)
<1>1. InProgress' = InProgress \ {r}
  BY DEF InProgress, TypeOK
<1> QED
  BY <1>1 DEF Promise!End, InProgress, Forget, Nowhere, Promise!Nowhere

\* The commit of a run publishes the window it captured.
LEMMA CommitRefines ==
  ASSUME ~Retention, IInv, NEW r \in Run, pc[r] = "upsert", CommitBuckets(r),
         Promise!End(r)
  PROVE  Promise!Next
<1>1. /\ TypeOK /\ Windowed(r) /\ Phases(r) /\ Aggregated(r)
  BY DEF IInv, RunInv, Active
<1>2. \A p \in Partition : since[r][p] <= window[r][p]
  BY <1>1 DEF Windowed, Phases
<1>3. window[r] \in Promise!Windows(log)
  <2>1. window[r] \in [Partition -> Nat]
    BY <1>1 DEF TypeOK
  <2>2. ASSUME NEW p \in Partition
        PROVE  /\ window[r][p] <= Len(log[p])
               /\ window[r][p] \in 0..Len(log[p])
    <3>1. Len(log[p]) \in Nat
      BY <1>1 DEF TypeOK
    <3> QED
      BY <1>1, <2>1, <3>1 DEF Windowed
  <2> QED
    BY <2>1, <2>2 DEF Promise!Windows
<1>4. aggregator[r] = Promise!HourCounts(Promise!UniqueEvents(log, window[r], slice[r]))
  <2>1. aggregator[r] = HourCounts(UniqueEvents(log, window[r], slice[r]))
    BY <1>1, SeenExactly, WholeWindow DEF Aggregated, Active
  <2>2. UniqueEvents(log, window[r], slice[r])
          = Promise!UniqueEvents(log, window[r], slice[r])
    BY DEF UniqueEvents, InSlice, Promise!UniqueEvents, Promise!InSlice
  <2> QED
    BY <2>1, <2>2, SameCount
<1>5. Promise!Publish(r, window[r])
  BY <1>2, <1>4 DEF Promise!Publish, CommitBuckets, Overwrite, Promise!Overwrite
<1> QED
  BY <1>3, <1>5 DEF Promise!Next

\* Steps between the start and the end of a run are invisible.
LEMMA InvisibleStep ==
  ASSUME UNCHANGED <<log, table, slice, since>>, InProgress' = InProgress
  PROVE  UNCHANGED Promise!vars
BY DEF Promise!vars, InProgress

\* Each step of a run is a Begin, a Publish, a WriteNothing or a stutter.
LEMMA StepRefines ==
  ASSUME ~Retention, IInv, NEW r \in Run, Step(r)
  PROVE  Promise!Next \/ UNCHANGED Promise!vars
<1>1. TypeOK
  BY DEF IInv
<1>2. ASSUME NEW s \in Slice, Start(r, s)
      PROVE  Promise!Begin(r, s)
  <2>1. /\ r \notin InProgress
        /\ InProgress' = InProgress \cup {r}
    BY <1>1, <1>2 DEF Start, InProgress, Active, Ended, TypeOK
  <2> QED
    BY <1>2, <2>1 DEF Start, InProgress, Promise!Begin, Ends, Promise!Ends, broker
<1>3. ASSUME NEW p \in Partition, Capture(r, p)
      PROVE  UNCHANGED Promise!vars
  <2>1. InProgress' = InProgress
    BY <1>1, <1>3 DEF Capture, InProgress, Active, TypeOK
  <2> QED
    BY <1>3, <2>1, InvisibleStep DEF Capture, broker
<1>4. ASSUME NEW p \in Partition, Poll(r, p)
      PROVE  UNCHANGED Promise!vars
  <2>1. UNCHANGED <<log, table, slice, since, pc>>
    BY <1>4 DEF Poll, PollBeyondWindow, PollInvalid, PollOutOfSlice,
                PollDuplicate, PollUnique, Read, Receive, broker
  <2> QED
    BY <2>1, InvisibleStep DEF InProgress
<1>5. CASE PollTimeout(r)
  BY <1>5, InvisibleStep DEF PollTimeout, vars, broker, locals, InProgress
<1>6. CASE Finish(r)
  <2>1. CASE UNCHANGED locals /\ pc' = [pc EXCEPT ![r] = "upsert"]
    <3>1. InProgress' = InProgress
      BY <1>1, <1>6, <2>1 DEF Finish, InProgress, Active, TypeOK
    <3> QED
      BY <1>6, <2>1, <3>1, InvisibleStep DEF Finish, broker, locals
  <2>2. CASE Forget(r) /\ pc' = [pc EXCEPT ![r] = "integrity_error"]
    <3>1. Promise!End(r)
      BY <1>1, <1>6, <2>2, EndRefines DEF Finish, Active, broker
    <3>2. Promise!WriteNothing(r)
      BY <1>6, <3>1 DEF Finish, Promise!WriteNothing
    <3> QED
      BY <3>2 DEF Promise!Next
  <2> QED
    BY <1>6, <2>1, <2>2 DEF Finish
<1>7. CASE Upsert(r)
  <2>1. Promise!End(r)
    <3>1. PICK x \in {"done", "invalid_result"} : pc' = [pc EXCEPT ![r] = x]
      BY <1>7 DEF Upsert
    <3> QED
      BY <1>1, <1>7, <3>1, EndRefines DEF Upsert, Active, broker
  <2> QED
    BY <1>7, <2>1, CommitRefines DEF Upsert
<1>8. CASE UpsertUnacknowledged(r)
  <2>1. Promise!End(r)
    BY <1>1, <1>8, EndRefines DEF UpsertUnacknowledged, Active, broker
  <2> QED
    BY <1>8, <2>1, CommitRefines DEF UpsertUnacknowledged
<1>9. CASE Abort(r)
  <2>1. Promise!End(r)
    BY <1>1, <1>9, EndRefines DEF Abort, Active, broker
  <2>2. Promise!WriteNothing(r)
    BY <1>9, <2>1 DEF Abort, WriteNothing, Promise!WriteNothing
  <2> QED
    BY <2>2 DEF Promise!Next
<1> QED
  BY <1>2, <1>3, <1>4, <1>5, <1>6, <1>7, <1>8, <1>9 DEF Step, Promise!Next

\* An append is an append.
LEMMA EnvironmentRefines ==
  ASSUME ~Retention, Environment
  PROVE  Promise!Next
<1>1. PICK p \in Partition, m \in Message : Produce(p, m)
  BY DEF Environment, Expire
<1>2. Promise!Produce(p, m)
  BY <1>1 DEF Produce, Promise!Produce, locals
<1> QED
  BY <1>2 DEF Promise!Next, Message, Promise!Message

\* "Read the complete slice or write nothing": with the topic kept, every run
\* publishes the counts of one whole window of the topic, atomically, or
\* leaves the table as it is, for any number of concurrent runs.
THEOREM Refinement ==
  ASSUME ~Retention PROVE Spec => ReadCompleteSliceOrWriteNothing
<1>1. UNCHANGED vars => UNCHANGED Promise!vars
  BY DEF vars, broker, locals, Promise!vars
<1>2. IInv /\ [Next]_vars => [Promise!Next]_(Promise!vars)
  BY <1>1, EnvironmentRefines, StepRefines DEF Next
<1> QED
  BY InitRefines, <1>2, Inductive, PTL
     DEF Spec, ReadCompleteSliceOrWriteNothing, Promise!Spec

-----------------------------------------------------------------------------
(* The calls of the sink.                                                  *)

\* The runs at the sink, as its callers.
Sink == INSTANCE AtomicUpsert WITH
  Client <- Run,
  MaxCount <- Cardinality(EventId),
  requests <- {[client |-> r, slice |-> slice[r], count |-> aggregator[r]] :
                 r \in {q \in Run : pc[q] = "upsert"}}

CallOf(r) == [client |-> r, slice |-> slice[r], count |-> aggregator[r]]

Calls == {CallOf(r) : r \in {q \in Run : pc[q] = "upsert"}}

\* A run elsewhere than at the sink, before and after a step, is none of its calls.
LEMMA CallsElsewhere ==
  ASSUME NEW r \in Run, pc[r] # "upsert", pc'[r] # "upsert",
         \A q \in Run : q # r => SameRun(q)
  PROVE  Calls' = Calls
BY DEF SameRun, Calls, CallOf

\* A run that leaves the sink takes its call, and only it, with it.
LEMMA CallsLeft ==
  ASSUME NEW r \in Run, pc'[r] # "upsert", \A q \in Run : q # r => SameRun(q)
  PROVE  Calls' = Calls \ {CallOf(r)}
<1>1. \A q \in Run : q # r => pc'[q] = pc[q] /\ CallOf(q)' = CallOf(q)
  BY DEF SameRun, CallOf
<1>2. \A q \in Run : q # r => CallOf(q) # CallOf(r)
  BY DEF CallOf
<1> QED
  BY <1>1, <1>2 DEF Calls

\* A run that has read its window calls the sink with what it has counted.
LEMMA FinishCalls ==
  ASSUME IInv, NEW r \in Run, Finish(r)
  PROVE  Sink!Next \/ UNCHANGED <<table, Calls>>
<1>1. TypeOK /\ RunInv(r) /\ pc[r] = "poll" /\ UNCHANGED table
  BY DEF IInv, Finish
<1>2. \A q \in Run : q # r => SameRun(q)
  BY <1>1, OthersUntouched DEF Step
<1>3. CASE pc'[r] # "upsert"
  BY <1>1, <1>2, <1>3, CallsElsewhere
<1>4. CASE pc'[r] = "upsert"
  <2>1. UNCHANGED <<slice, aggregator>>
    BY <1>1, <1>4 DEF Finish, TypeOK, locals
  <2>2. aggregator[r] \in [Hour -> 0..Cardinality(EventId)]
    <3>1. aggregator[r] = HourCounts(seen[r]) /\ seen[r] \in SUBSET EventId
      BY <1>1 DEF RunInv, Aggregated, TypeOK, Active
    <3>2. ASSUME NEW h \in Hour
          PROVE  CountAt(seen[r], h) \in 0..Cardinality(EventId)
      <4>1. {e \in seen[r] : HourOf[e] = h} \in SUBSET EventId
        BY <3>1
      <4>2. IsFiniteSet(EventId)
        BY EventLogAssumption
      <4>3. /\ CountAt(seen[r], h) \in Nat
            /\ Cardinality(EventId) \in Nat
            /\ CountAt(seen[r], h) <= Cardinality(EventId)
        BY <4>1, <4>2, FS_Subset, FS_CardinalityType DEF CountAt
      <4> QED
        BY <4>3
    <3> QED
      BY <3>1, <3>2 DEF HourCounts
  <2>3. slice[r] \in Slice
    BY <1>1 DEF TypeOK
  <2>4. Calls' = Calls \cup {CallOf(r)}
    BY <1>1, <1>2, <1>4, <2>1 DEF SameRun, Calls, CallOf
  <2>5. \A q \in Calls : q.client # r
    BY <1>1 DEF Calls, CallOf
  <2>6. PICK s \in Slice, counts \in [Hour -> 0..Cardinality(EventId)] :
          s = slice[r] /\ counts = aggregator[r]
    BY <2>2, <2>3
  <2>7. Sink!Call(r, s, counts)
    BY <1>1, <2>4, <2>5, <2>6 DEF Sink!Call, Calls, CallOf
  <2> QED
    BY <2>7 DEF Sink!Next
<1> QED
  BY <1>3, <1>4

\* The commit of a run at the sink is the commit of its call.
LEMMA CommitCalls ==
  ASSUME IInv, NEW r \in Run, Upsert(r) \/ UpsertUnacknowledged(r)
  PROVE  Sink!Next
<1>1. TypeOK /\ pc[r] = "upsert" /\ pc'[r] # "upsert" /\ CommitBuckets(r)
  BY DEF IInv, TypeOK, Upsert, UpsertUnacknowledged
<1>2. Calls' = Calls \ {CallOf(r)}
  BY <1>1, CallsLeft, OthersUntouched DEF Step
<1>3. PICK q \in Calls : q = CallOf(r)
  BY <1>1 DEF Calls
<1>4. q.slice = slice[r] /\ q.count = aggregator[r]
  BY <1>3 DEF CallOf
<1>5. Sink!Commit(q)
  BY <1>1, <1>2, <1>3, <1>4 DEF Sink!Commit, CommitBuckets, Overwrite, Calls, CallOf
<1> QED
  BY <1>3, <1>5 DEF Sink!Next, Calls, CallOf

\* A run that fails at the sink takes its call back.
LEMMA AbortCalls ==
  ASSUME IInv, NEW r \in Run, Abort(r)
  PROVE  Sink!Next \/ UNCHANGED <<table, Calls>>
<1>1. TypeOK /\ pc'[r] # "upsert" /\ UNCHANGED table
  BY DEF IInv, TypeOK, Abort, WriteNothing
<1>2. \A q \in Run : q # r => SameRun(q)
  BY <1>1, OthersUntouched DEF Step
<1>3. CASE pc[r] # "upsert"
  BY <1>1, <1>2, <1>3, CallsElsewhere
<1>4. CASE pc[r] = "upsert"
  <2>1. PICK q \in Calls : q = CallOf(r)
    BY <1>4 DEF Calls
  <2>2. Calls' = Calls \ {CallOf(r)}
    BY <1>1, <1>2, CallsLeft
  <2>3. Sink!Raise(q)
    BY <1>1, <2>1, <2>2 DEF Sink!Raise, Calls, CallOf
  <2> QED
    BY <2>1, <2>3 DEF Sink!Next, Calls, CallOf
<1> QED
  BY <1>3, <1>4

\* A run calls the sink once, with the counts of its aggregator, and the table
\* changes only by the commit of such a call: the consumer takes the sink for
\* AtomicUpsert, which is what PostgresSink is shown to implement.
THEOREM CallsTheSink == Spec => Sink!Spec
<1>1. Init => Sink!Init
  BY DEF Init, Sink!Init
<1>2. IInv /\ [Next]_vars => [Sink!Next]_<<table, Calls>>
  <2> SUFFICES ASSUME IInv, [Next]_vars
               PROVE  Sink!Next \/ UNCHANGED <<table, Calls>>
    OBVIOUS
  <2>1. CASE UNCHANGED vars
    BY <2>1 DEF vars, locals, Calls, CallOf
  <2>2. CASE Environment
    BY <2>2 DEF Environment, Expire, Produce, locals, Calls, CallOf
  <2>3. ASSUME NEW r \in Run, Step(r)
        PROVE  Sink!Next \/ UNCHANGED <<table, Calls>>
    <3>1. TypeOK /\ \A q \in Run : q # r => SameRun(q)
      BY <2>3, OthersUntouched DEF IInv
    <3>2. ASSUME NEW s \in Slice, Start(r, s) PROVE UNCHANGED <<table, Calls>>
      BY <3>1, <3>2, CallsElsewhere DEF Start, TypeOK, Ended
    <3>3. ASSUME NEW p \in Partition, Capture(r, p) PROVE UNCHANGED <<table, Calls>>
      BY <3>1, <3>3, CallsElsewhere DEF Capture, TypeOK
    <3>4. ASSUME NEW p \in Partition, Poll(r, p) PROVE UNCHANGED <<table, Calls>>
      <4>1. pc[r] = "poll" /\ UNCHANGED <<table, pc>>
        BY <3>4 DEF Poll, PollBeyondWindow, PollInvalid, PollOutOfSlice,
                    PollDuplicate, PollUnique, Read, Receive
      <4> QED
        BY <3>1, <4>1, CallsElsewhere
    <3>5. CASE PollTimeout(r)
      BY <3>5 DEF PollTimeout, vars, locals, Calls, CallOf
    <3> QED
      BY <2>3, <3>2, <3>3, <3>4, <3>5, FinishCalls, CommitCalls, AbortCalls DEF Step
  <2> QED
    BY <2>1, <2>2, <2>3 DEF Next
<1>3. IInv /\ [Next]_vars => [Sink!Next]_Sink!vars
  BY <1>2 DEF Sink!vars, Calls, CallOf
<1> QED
  BY <1>1, <1>3, Inductive, PTL DEF Spec, Sink!Spec

-----------------------------------------------------------------------------
(* What the table shows, when the runs of a slice take turns.              *)

\* No two runs in progress are for one slice.
TakeTurns == \A q, r \in InProgress : q # r => slice[q] # slice[r]

\* The rows of s are those of window w, which no run in progress on s began
\* before.
ShowsWindow(s, w) ==
  /\ w \in Windows(log)
  /\ table[s] = HourCounts(UniqueEvents(log, w, s))
  /\ \A r \in InProgress : slice[r] = s => \A p \in Partition : w[p] <= since[r][p]

\* Alone SnapshotWhole is not inductive: a run may only overwrite the rows of a
\* window that its own contains.
SInv == TakeTurns /\ \A s \in Slice : \E w \in Windows(log) : ShowsWindow(s, w)

\* What others see of a step of a run: it begins, it ends with or without its
\* commit, or nothing.
Quiet == UNCHANGED <<log, table, slice, since>> /\ InProgress' = InProgress

Leaves(r) ==
  /\ r \in InProgress
  /\ InProgress' = InProgress \ {r}
  /\ UNCHANGED <<log, slice>>
  /\ \A q \in Run \ {r} : since'[q] = since[q]

\* A run that ends has forgotten its locals.
LEMMA LeaveKind ==
  ASSUME TypeOK, NEW r \in Run, pc[r] \in Active, Forget(r),
         NEW x, x \notin Active, pc' = [pc EXCEPT ![r] = x], UNCHANGED log
  PROVE  Leaves(r)
<1>1. InProgress' = InProgress \ {r} /\ r \in InProgress
  BY DEF InProgress, TypeOK
<1> QED
  BY <1>1 DEF Leaves, Forget, TypeOK

\* The steps of a run, as others see them.
LEMMA StepKinds ==
  ASSUME TypeOK, NEW r \in Run, Step(r)
  PROVE  \/ \E s \in Slice : Start(r, s)
         \/ pc[r] = "upsert" /\ CommitBuckets(r) /\ Leaves(r)
         \/ UNCHANGED table /\ Leaves(r)
         \/ Quiet
<1>1. ASSUME NEW p \in Partition, Capture(r, p) PROVE Quiet
  BY <1>1 DEF Capture, Quiet, InProgress, Active, TypeOK, broker
<1>2. ASSUME NEW p \in Partition, Poll(r, p) PROVE Quiet
  <2>1. UNCHANGED <<log, table, slice, since, pc>>
    BY <1>2 DEF Poll, PollBeyondWindow, PollInvalid, PollOutOfSlice,
                PollDuplicate, PollUnique, Read, Receive, broker
  <2> QED
    BY <2>1 DEF Quiet, InProgress
<1>3. PollTimeout(r) => Quiet
  BY DEF PollTimeout, Quiet, InProgress, vars, broker, locals
<1>4. ASSUME Finish(r) PROVE Quiet \/ (UNCHANGED table /\ Leaves(r))
  <2>1. CASE UNCHANGED locals /\ pc' = [pc EXCEPT ![r] = "upsert"]
    BY <1>4, <2>1 DEF Finish, Quiet, InProgress, Active, TypeOK, broker, locals
  <2>2. CASE Forget(r) /\ pc' = [pc EXCEPT ![r] = "integrity_error"]
    BY <1>4, <2>2, LeaveKind DEF Finish, Active, broker
  <2> QED
    BY <1>4, <2>1, <2>2 DEF Finish
<1>5. ASSUME Upsert(r) PROVE Leaves(r)
  <2>1. PICK x \in {"done", "invalid_result"} : pc' = [pc EXCEPT ![r] = x]
    BY <1>5 DEF Upsert
  <2> QED
    BY <1>5, <2>1, LeaveKind DEF Upsert, Active, broker
<1>6. ASSUME UpsertUnacknowledged(r) PROVE Leaves(r)
  BY <1>6, LeaveKind DEF UpsertUnacknowledged, Active, broker
<1>7. ASSUME Abort(r) PROVE UNCHANGED table /\ Leaves(r)
  BY <1>7, LeaveKind DEF Abort, WriteNothing, Active, broker
<1> QED
  BY <1>1, <1>2, <1>3, <1>4, <1>5, <1>6, <1>7 DEF Step, Upsert, UpsertUnacknowledged

\* Runs of a slice take turns: whoever starts finds no other in progress.
LEMMA TurnsKept ==
  ASSUME Serialized, TypeOK, TakeTurns, [Next]_vars
  PROVE  TakeTurns'
<1>1. ASSUME Quiet PROVE TakeTurns'
  BY <1>1 DEF Quiet, TakeTurns
<1>2. ASSUME NEW r \in Run, NEW s \in Slice, Start(r, s) PROVE TakeTurns'
  <2>1. /\ InProgress' = InProgress \cup {r}
        /\ \A q \in InProgress : q # r /\ slice[q] # s
    BY <1>2 DEF Start, InProgress, Active, Ended, TypeOK
  <2>2. \A q \in Run : slice'[q] = IF q = r THEN s ELSE slice[q]
    BY <1>2 DEF Start, TypeOK
  <2>3. InProgress \subseteq Run
    BY DEF InProgress
  <2> QED
    BY <2>1, <2>2, <2>3 DEF TakeTurns
<1>3. ASSUME NEW r \in Run, Leaves(r) PROVE TakeTurns'
  BY <1>3 DEF Leaves, TakeTurns
<1>4. Environment \/ UNCHANGED vars => UNCHANGED <<slice, pc>>
  BY DEF Environment, Expire, Produce, vars, locals
<1>5. ASSUME UNCHANGED <<slice, pc>> PROVE TakeTurns'
  BY <1>5 DEF TakeTurns, InProgress
<1> QED
  BY <1>1, <1>2, <1>3, <1>4, <1>5, StepKinds DEF Next

\* A window of the topic is one of the longer topic too, and holds the same
\* events.
LEMMA WindowKept ==
  ASSUME TypeOK, NEW p \in Partition, NEW m \in Message, Produce(p, m),
         NEW s \in Slice, NEW w \in Windows(log), ShowsWindow(s, w)
  PROVE  ShowsWindow(s, w)'
<1>1. log' \in [Partition -> Seq(Message)] /\ log \in [Partition -> Seq(Message)]
  BY DEF TypeOK, Produce
<1>2. \A q \in Partition :
        /\ Len(log[q]) \in Nat /\ Len(log'[q]) \in Nat
        /\ Len(log[q]) <= Len(log'[q])
        /\ \A i \in 1..Len(log[q]) : log'[q][i] = log[q][i]
  BY <1>1 DEF Produce
<1>3. /\ w \in [Partition -> Nat]
      /\ \A q \in Partition : w[q] <= Len(log[q])
  BY <1>2 DEF Windows
<1>4. w \in Windows(log)'
  <2>1. ASSUME NEW q \in Partition
        PROVE  w[q] <= Len(log'[q]) /\ w[q] \in 0..Len(log'[q])
    BY <1>2, <1>3
  <2> QED
    BY <1>3, <2>1 DEF Windows
<1>5. UniqueEvents(log', w, s) = UniqueEvents(log, w, s)
  <2>1. \A q \in Partition : \A i \in 1..w[q] : log'[q][i] = log[q][i]
    BY <1>2, <1>3
  <2>2. UniqueEvents(log, w, s) \subseteq UniqueEvents(log', w, s)
    BY <2>1, UniqueMonotone
  <2>3. UniqueEvents(log', w, s) \subseteq UniqueEvents(log, w, s)
    BY <2>1, UniqueMonotone
  <2> QED
    BY <2>2, <2>3
<1>6. HourCounts(UniqueEvents(log, w, s))' = HourCounts(UniqueEvents(log, w, s))
  BY <1>5 DEF HourCounts, CountAt, UniqueEvents
<1>7. UNCHANGED <<table, slice, since, InProgress>>
  BY DEF Produce, InProgress, locals
<1> QED
  BY <1>4, <1>6, <1>7 DEF ShowsWindow

\* A larger window has at least the events of a smaller one.
LEMMA WindowMonotone ==
  ASSUME NEW s, NEW v \in [Partition -> Nat], NEW w \in [Partition -> Nat],
         \A p \in Partition : v[p] <= w[p]
  PROVE  UniqueEvents(log, v, s) \in SUBSET UniqueEvents(log, w, s)
BY DEF UniqueEvents

\* The buckets of a larger window overwrite all rows of a smaller one.
LEMMA OverwriteWhole ==
  ASSUME NEW ids \in SUBSET EventId, NEW older \in SUBSET ids
  PROVE  Overwrite(HourCounts(older), HourCounts(ids)) = HourCounts(ids)
<1>1. ASSUME NEW h \in Hour
      PROVE  /\ CountAt(older, h) \in Nat
             /\ CountAt(ids, h) \in Nat
             /\ CountAt(older, h) <= CountAt(ids, h)
  BY FiniteHour, CountMonotone
<1> QED
  BY <1>1 DEF Overwrite, HourCounts

\* A commit makes the rows of the run's slice those of its window, whatever they
\* were, and no row less.
LEMMA CommitShows ==
  ASSUME ~Retention, IInv, SInv, NEW r \in Run,
         pc[r] = "upsert", CommitBuckets(r), Leaves(r)
  PROVE  /\ \E w \in Windows(log) :
              table' = [table EXCEPT ![slice[r]] =
                          HourCounts(UniqueEvents(log, w, slice[r]))]
         /\ \A h \in Hour : table[slice[r]][h] <= table'[slice[r]][h]
<1> DEFINE s == slice[r]
           ids == UniqueEvents(log, window[r], s)
<1>1. /\ TypeOK /\ Windowed(r) /\ Phases(r) /\ Aggregated(r)
      /\ pc[r] \in Active /\ s \in Slice
  BY DEF IInv, RunInv, Active, TypeOK
<1>2. /\ window[r] \in [Partition -> Nat]
      /\ \A p \in Partition : /\ Len(log[p]) \in Nat
                              /\ window[r][p] <= Len(log[p])
                              /\ since[r][p] <= window[r][p]
                              /\ since[r][p] \in Nat
  BY <1>1 DEF TypeOK, Windowed, Phases
<1>3. window[r] \in Windows(log)
  BY <1>2 DEF Windows
<1>4. PICK w \in Windows(log) : ShowsWindow(s, w)
  BY <1>1 DEF SInv
<1>5. w \in [Partition -> Nat] /\ \A p \in Partition : w[p] <= window[r][p]
  <2>1. w \in [Partition -> Nat]
    BY <1>2 DEF Windows
  <2>2. \A p \in Partition : w[p] <= since[r][p]
    BY <1>4 DEF ShowsWindow, Leaves
  <2> QED
    BY <1>2, <2>1, <2>2
<1> DEFINE older == UniqueEvents(log, w, s)
<1>6. ids \in SUBSET EventId /\ older \in SUBSET ids
  BY <1>2, <1>5, WindowMonotone, UniqueType
<1>7. aggregator[r] = HourCounts(ids)
  BY <1>1, SeenExactly, WholeWindow DEF Aggregated
<1>8. table[s] = HourCounts(older)
  BY <1>4 DEF ShowsWindow
<1>9. table' = [table EXCEPT ![s] = HourCounts(ids)]
  <2>1. table' = [table EXCEPT ![s] = Overwrite(table[s], HourCounts(ids))]
    BY <1>7 DEF CommitBuckets
  <2> QED
    BY <1>6, <1>8, <2>1, OverwriteWhole
<1>10. ASSUME NEW h \in Hour PROVE table[s][h] <= table'[s][h]
  <2>1. table'[s] = HourCounts(ids)
    BY <1>1, <1>9 DEF TypeOK
  <2>2. CountAt(older, h) <= CountAt(ids, h)
    BY <1>6, CountMonotone
  <2> QED
    BY <1>8, <2>1, <2>2 DEF HourCounts
<1> QED
  BY <1>3, <1>9, <1>10

\* What a slice shows it goes on showing until a run commits, as runs that begin
\* later have seen more of the topic.
LEMMA ShownKept ==
  ASSUME TypeOK, SInv, NEW s \in Slice, NEW w \in Windows(log), ShowsWindow(s, w),
         UNCHANGED log, table'[s] = table[s],
         \A q \in InProgress' :
           \/ q \in InProgress /\ slice'[q] = slice[q] /\ since'[q] = since[q]
           \/ since'[q] = Ends(log)
  PROVE  w \in Windows(log)' /\ ShowsWindow(s, w)'
<1>1. w \in Windows(log)'
  BY DEF Windows
<1>2. \A p \in Partition : w[p] <= Ends(log)[p]
  BY DEF Windows, Ends
<1> QED
  BY <1>1, <1>2 DEF ShowsWindow, UniqueEvents, HourCounts, CountAt

\* The steps of a run keep each slice showing one window.
LEMMA StepShows ==
  ASSUME ~Retention, IInv, SInv, NEW r \in Run, Step(r), NEW s \in Slice
  PROVE  \E w \in Windows(log)' : ShowsWindow(s, w)'
<1>1. TypeOK
  BY DEF IInv
<1>2. PICK w \in Windows(log) : ShowsWindow(s, w)
  BY DEF SInv
<1>3. ASSUME NEW k \in Slice, Start(r, k)
      PROVE  \E v \in Windows(log)' : ShowsWindow(s, v)'
  <2>1. /\ UNCHANGED <<log, table>>
        /\ InProgress' = InProgress \cup {r}
        /\ \A q \in Run : /\ slice'[q] = IF q = r THEN k ELSE slice[q]
                          /\ since'[q] = IF q = r THEN Ends(log) ELSE since[q]
    BY <1>1, <1>3 DEF Start, InProgress, Active, Ended, TypeOK, broker
  <2>2. InProgress \subseteq Run
    BY DEF InProgress
  <2> QED
    BY <1>1, <1>2, <2>1, <2>2, ShownKept
<1>4. ASSUME Leaves(r), table'[s] = table[s]
      PROVE  \E v \in Windows(log)' : ShowsWindow(s, v)'
  <2>1. InProgress \subseteq Run
    BY DEF InProgress
  <2> QED
    BY <1>1, <1>2, <1>4, <2>1, ShownKept DEF Leaves
<1>5. ASSUME pc[r] = "upsert", CommitBuckets(r), Leaves(r)
      PROVE  \E v \in Windows(log)' : ShowsWindow(s, v)'
  <2>1. PICK v \in Windows(log) :
          table' = [table EXCEPT ![slice[r]] =
                      HourCounts(UniqueEvents(log, v, slice[r]))]
    BY <1>5, CommitShows
  <2>2. CASE s # slice[r]
    BY <1>1, <1>4, <1>5, <2>1, <2>2 DEF TypeOK
  <2>3. CASE s = slice[r]
    <3>1. \A q \in InProgress' : slice'[q] # s
      BY <1>5, <2>3 DEF Leaves, SInv, TakeTurns
    <3>2. table'[s] = HourCounts(UniqueEvents(log, v, s))
      BY <1>1, <2>1, <2>3 DEF TypeOK
    <3>3. UNCHANGED log
      BY <1>5 DEF Leaves
    <3>4. v \in Windows(log)'
      BY <3>3 DEF Windows
    <3>5. HourCounts(UniqueEvents(log, v, s))' = HourCounts(UniqueEvents(log, v, s))
      BY <3>3 DEF HourCounts, CountAt, UniqueEvents
    <3> QED
      BY <3>1, <3>2, <3>4, <3>5 DEF ShowsWindow
  <2> QED
    BY <2>2, <2>3
<1>6. ASSUME Quiet PROVE \E v \in Windows(log)' : ShowsWindow(s, v)'
  BY <1>1, <1>2, <1>6, ShownKept DEF Quiet
<1> QED
  BY <1>1, <1>3, <1>4, <1>5, <1>6, StepKinds

\* At first every slice shows the empty window.
LEMMA InitShows == Init => SInv
<1> SUFFICES ASSUME Init PROVE SInv
  OBVIOUS
<1>1. InProgress = {}
  BY DEF Init, InProgress, Active
<1>2. Nowhere \in Windows(log)
  BY DEF Init, Windows, Nowhere
<1>3. ASSUME NEW s \in Slice PROVE ShowsWindow(s, Nowhere)
  <2>1. UniqueEvents(log, Nowhere, s) = {}
    BY DEF UniqueEvents, Nowhere
  <2> QED
    BY <1>1, <1>2, <2>1, CountNothing DEF Init, ShowsWindow
<1> QED
  BY <1>1, <1>2, <1>3 DEF SInv, TakeTurns

\* While the runs of a slice take turns, each of them overwrites a window that its
\* own contains.
THEOREM ShowsOneWindow ==
  ASSUME ~Retention, Serialized PROVE Spec => []SInv
<1>1. IInv /\ SInv /\ [Next]_vars => SInv'
  <2> SUFFICES ASSUME IInv, SInv, [Next]_vars PROVE SInv'
    OBVIOUS
  <2>1. TypeOK
    BY DEF IInv
  <2>2. TakeTurns'
    BY <2>1, TurnsKept DEF SInv
  <2>3. ASSUME NEW s \in Slice PROVE \E w \in Windows(log)' : ShowsWindow(s, w)'
    <3>1. PICK w \in Windows(log) : ShowsWindow(s, w)
      BY DEF SInv
    <3>2. CASE UNCHANGED vars
      BY <2>1, <3>1, <3>2, ShownKept DEF vars, broker, locals, InProgress
    <3>3. CASE Environment
      <4>1. PICK p \in Partition, m \in Message : Produce(p, m)
        BY <3>3 DEF Environment, Expire
      <4> QED
        BY <2>1, <3>1, <4>1, WindowKept DEF ShowsWindow
    <3>4. ASSUME NEW r \in Run, Step(r)
          PROVE  \E v \in Windows(log)' : ShowsWindow(s, v)'
      BY <3>4, StepShows
    <3> QED
      BY <3>2, <3>3, <3>4 DEF Next
  <2> QED
    BY <2>2, <2>3 DEF SInv
<1> QED
  BY InitShows, <1>1, Inductive, PTL DEF Spec

\* The rows of a slice are always those of one window of the topic: no hour is left
\* over from an older replay, although a replay writes only the hours it counted.
THEOREM WholeSnapshots ==
  ASSUME ~Retention, Serialized PROVE Spec => []SnapshotWhole
<1>1. SInv => SnapshotWhole
  BY DEF SInv, ShowsWindow, SnapshotWhole
<1> QED
  BY <1>1, ShowsOneWindow, PTL

\* No row ever decreases: a partial count never overwrites a correct one.
THEOREM NeverShrink ==
  ASSUME ~Retention, Serialized PROVE Spec => CountsNeverShrink
<1>1. IInv /\ SInv /\ [Next]_vars =>
        [\A s \in Slice, h \in Hour : table'[s][h] >= table[s][h]]_table
  <2> SUFFICES ASSUME IInv, SInv, [Next]_vars, table' # table,
                      NEW s \in Slice, NEW h \in Hour
               PROVE  table'[s][h] >= table[s][h]
    OBVIOUS
  <2>1. TypeOK
    BY DEF IInv
  <2>2. PICK r \in Run : Step(r)
    BY DEF Next, Environment, Expire, Produce, vars
  <2>3. pc[r] = "upsert" /\ CommitBuckets(r) /\ Leaves(r)
    BY <2>1, <2>2, StepKinds DEF Start, Quiet
  <2>4. \A k \in Hour : table[slice[r]][k] <= table'[slice[r]][k]
    BY <2>3, CommitShows
  <2>5. table'[s] = table[s] \/ s = slice[r]
    BY <2>1, <2>3 DEF CommitBuckets, TypeOK
  <2>6. table[s][h] \in Nat /\ table'[s][h] \in Nat
    BY <2>1, NextType DEF TypeOK
  <2> QED
    BY <2>4, <2>5, <2>6
<1> QED
  BY <1>1, Inductive, ShowsOneWindow, PTL DEF Spec, CountsNeverShrink

=============================================================================

-------------------------- MODULE EventBridgeProofs --------------------------
(***************************************************************************)
(* Theorems about the event bridge for any rows, events, partitions,       *)
(* producers and consumers.                                                *)
(*                                                                         *)
(* The argument is a chain: a producer that returns has put the rows it    *)
(* listed on the topic; they stay there; a consumer that begins afterwards *)
(* finds them below the end offsets it began with, hence in its window;    *)
(* and the counts it publishes are bounded by the topic from above.        *)
(***************************************************************************)
EXTENDS EventBridge, EventLogProofs

-----------------------------------------------------------------------------
(* Counting and reading.                                                   *)

\* Unique events are events.
LEMMA UniqueAreEvents ==
  ASSUME NEW lg, NEW upto, NEW s
  PROVE  UniqueEvents(lg, upto, s) \in SUBSET EventId
BY DEF UniqueEvents

\* What is read of a topic is read of every extension of it.
LEMMA ReadInExtension ==
  ASSUME NEW lg1, NEW lg2, NEW w1, NEW w2, NEW s,
         \A p \in Partition : \A i \in 1..w1[p] :
           i \in 1..w2[p] /\ lg2[p][i] = lg1[p][i]
  PROVE  UniqueEvents(lg1, w1, s) \subseteq UniqueEvents(lg2, w2, s)
BY DEF UniqueEvents

\* SliceReplay speaks of events as this module does.
LEMMA SameEvents ==
  /\ \A lg : Consumer!Ends(lg) = Ends(lg)
  /\ \A lg, upto, s : Consumer!UniqueEvents(lg, upto, s) = UniqueEvents(lg, upto, s)
BY DEF Ends, UniqueEvents, InSlice,
       Consumer!Ends, Consumer!UniqueEvents, Consumer!InSlice

\* SliceReplay counts as this module does.
LEMMA SameCounts ==
  ASSUME NEW ids
  PROVE  Consumer!HourCounts(ids) = HourCounts(ids)
<1>1. ASSUME NEW S PROVE Consumer!Cardinality(S) = Cardinality(S)
  BY DEF Consumer!Cardinality, Cardinality
<1> QED
  BY <1>1 DEF HourCounts, CountAt, Consumer!HourCounts, Consumer!CountAt

-----------------------------------------------------------------------------
(* The invariant.                                                          *)

OnTopic(s) == UniqueEvents(log, Ends(log), s)

Expected(s) == EventIds(Primary(silver[s]))

\* A consumer began with a topic that has not shrunk since.
Began == \A r \in Run : \A p \in Partition : since[r][p] <= Len(log[p])

\* A slice holds its own rows.
SilverSliced == \A s \in Slice : silver[s] \subseteq RowsOf(s)

\* What a run has listed and does not still have to send is on the topic.
SentIsOnTopic ==
  \A q \in Producer : producing[q] = "sending" =>
    /\ source[q] \subseteq RowsOf(month[q])
    /\ \A row \in Primary(source[q]) \ unsent[q] : IdOf[row] \in OnTopic(month[q])

\* A complete slice is on the topic.
CompleteOnTopic == \A s \in complete : Expected(s) \subseteq OnTopic(s)

\* A fresh run finds all of its slice below the offsets it began with.
FreshInWindow ==
  \A r \in fresh :
    /\ r \in active
    /\ Expected(slice[r]) \subseteq UniqueEvents(log, since[r], slice[r])

\* No count exceeds the distinct events on the topic.
NeverOvercounts ==
  \A s \in Slice : \A h \in Hour : table[s][h] <= CountAt(OnTopic(s), h)

IInv ==
  /\ TypeOK
  /\ Began
  /\ SilverSliced
  /\ SentIsOnTopic
  /\ CompleteOnTopic
  /\ FreshInWindow
  /\ NeverOvercounts
  /\ SettledLosesNothing

\* Nothing is on the topic at first, and nothing is expected.
LEMMA InitInv == Init => IInv
<1> SUFFICES ASSUME Init PROVE IInv
  OBVIOUS
<1> USE DEF Init, Consumer!Init, Consumer!Nowhere
<1>1. TypeOK
  BY DEF TypeOK
<1>2. Began /\ SilverSliced /\ SentIsOnTopic /\ CompleteOnTopic
      /\ FreshInWindow /\ SettledLosesNothing
  BY DEF Began, SilverSliced, SentIsOnTopic, CompleteOnTopic, FreshInWindow,
         SettledLosesNothing
<1>3. NeverOvercounts
  <2>1. ASSUME NEW s \in Slice, NEW h \in Hour
        PROVE  table[s][h] = 0 /\ CountAt(OnTopic(s), h) \in Nat
    <3>1. OnTopic(s) \in SUBSET EventId
      BY UniqueAreEvents DEF OnTopic
    <3>2. CountAt(OnTopic(s), h) \in Nat
      BY <3>1, FiniteHour
    <3> QED
      BY <3>2
  <2> QED
    BY <2>1 DEF NeverOvercounts
<1> QED
  BY <1>1, <1>2, <1>3 DEF IInv

-----------------------------------------------------------------------------
(* Silver is rewritten.                                                    *)

\* A rewritten slice is neither complete nor settled, and no run is fresh for it.
LEMMA WriteSilverInv ==
  ASSUME IInv, NEW s \in Slice, NEW rows \in Contents, WriteSilver(s, rows)
  PROVE  IInv'
<1> USE DEF IInv
<1>1. /\ UNCHANGED <<log, table, active, slice, since>>
      /\ UNCHANGED <<producing, month, source, unsent>>
  BY DEF WriteSilver, consumer, producer
<1>2. TypeOK'
  BY <1>1, EventBridgeAssumption DEF WriteSilver, TypeOK
<1>3. \A k \in Slice : k # s => silver'[k] = silver[k]
  BY DEF WriteSilver, TypeOK
<1>4. SilverSliced'
  BY <1>3 DEF WriteSilver, SilverSliced, RowsOf, TypeOK
<1>5. Began' /\ SentIsOnTopic' /\ NeverOvercounts'
  BY <1>1 DEF Began, SentIsOnTopic, NeverOvercounts, OnTopic, Ends
<1>6. CompleteOnTopic'
  BY <1>1, <1>3 DEF WriteSilver, CompleteOnTopic, Expected, OnTopic, TypeOK
<1>7. FreshInWindow'
  BY <1>1, <1>3 DEF WriteSilver, FreshInWindow, Expected, TypeOK
<1>8. SettledLosesNothing'
  BY <1>1, <1>3 DEF WriteSilver, SettledLosesNothing, TypeOK
<1> QED
  BY <1>2, <1>4, <1>5, <1>6, <1>7, <1>8

-----------------------------------------------------------------------------
(* The producer.                                                           *)

\* A run lists the rows of a slice, and has sent none of the rows it will send.
LEMMA StartProducerInv ==
  ASSUME IInv, NEW q \in Producer, NEW s \in Slice, StartProducer(q, s)
  PROVE  IInv'
<1> USE DEF IInv
<1>1. UNCHANGED <<log, table, active, slice, since, silver, complete, fresh, settled>>
  BY DEF StartProducer, consumer, history
<1>2. TypeOK'
  BY <1>1 DEF StartProducer, TypeOK, Primary
<1>3. SentIsOnTopic'
  <2> SUFFICES ASSUME NEW k \in Producer, producing'[k] = "sending"
               PROVE  /\ source'[k] \subseteq RowsOf(month'[k])
                      /\ \A row \in Primary(source'[k]) \ unsent'[k] :
                           IdOf[row] \in OnTopic(month'[k])
    BY <1>1 DEF SentIsOnTopic, OnTopic, Ends
  <2>1. CASE k = q
    BY <2>1 DEF StartProducer, TypeOK, SilverSliced
  <2>2. CASE k # q
    BY <2>2 DEF StartProducer, TypeOK, SentIsOnTopic
  <2> QED
    BY <2>1, <2>2
<1>4. /\ Began' /\ SilverSliced' /\ CompleteOnTopic' /\ FreshInWindow'
      /\ NeverOvercounts' /\ SettledLosesNothing'
  BY <1>1 DEF Began, SilverSliced, CompleteOnTopic, FreshInWindow,
              NeverOvercounts, SettledLosesNothing, OnTopic, Expected, Ends
<1> QED
  BY <1>2, <1>3, <1>4

\* An append keeps every record where it was, and adds the one.
LEMMA Appended ==
  ASSUME TypeOK, NEW p \in Partition, NEW e \in EventId, Consumer!Produce(p, e)
  PROVE  /\ log' \in [Partition -> Seq(EventId)]
         /\ \A k \in Partition :
              /\ Len(log[k]) <= Len(log'[k])
              /\ \A i \in 1..Len(log[k]) : log'[k][i] = log[k][i]
         /\ \E i \in 1..Len(log'[p]) : log'[p][i] = e
<1>1. log \in [Partition -> Seq(EventId)]
  BY DEF TypeOK
<1>2. log' = [log EXCEPT ![p] = Append(log[p], e)]
  BY DEF Consumer!Produce
<1>3. log' \in [Partition -> Seq(EventId)]
  BY <1>1, <1>2
<1>4. /\ Len(log'[p]) = Len(log[p]) + 1
      /\ log'[p][Len(log[p]) + 1] = e
      /\ \A i \in 1..Len(log[p]) : log'[p][i] = log[p][i]
      /\ Len(log[p]) \in Nat
  BY <1>1, <1>2
<1>5. \A k \in Partition : k # p => log'[k] = log[k] /\ Len(log[k]) \in Nat
  BY <1>1, <1>2
<1> QED
  BY <1>3, <1>4, <1>5

\* What was on the topic stays there, and so does what a run began with.
LEMMA StaysOnTopic ==
  ASSUME IInv, NEW p \in Partition, NEW e \in EventId, Consumer!Produce(p, e)
  PROVE  /\ \A s : OnTopic(s) \subseteq OnTopic(s)'
         /\ e \in OnTopic(SliceOf[e])'
         /\ \A r \in Run : \A s : UniqueEvents(log, since[r], s)
                               \subseteq UniqueEvents(log', since[r], s)
<1>1. TypeOK /\ Began
  BY DEF IInv
<1>2. \A k \in Partition : Len(log[k]) \in Nat /\ Len(log'[k]) \in Nat
  BY <1>1, Appended DEF TypeOK
<1>3. \A s : OnTopic(s) \subseteq OnTopic(s)'
  <2> SUFFICES ASSUME NEW s PROVE OnTopic(s) \subseteq OnTopic(s)'
    OBVIOUS
  <2>1. \A k \in Partition : \A i \in 1..Ends(log)[k] :
          i \in 1..Ends(log')[k] /\ log'[k][i] = log[k][i]
    BY <1>1, <1>2, Appended DEF Ends
  <2> QED
    BY <2>1, ReadInExtension DEF OnTopic
<1>4. e \in OnTopic(SliceOf[e])'
  BY <1>1, Appended DEF OnTopic, UniqueEvents, InSlice, Ends
<1>5. ASSUME NEW r \in Run, NEW s
      PROVE  UniqueEvents(log, since[r], s) \subseteq UniqueEvents(log', since[r], s)
  <2>1. \A k \in Partition : \A i \in 1..since[r][k] :
          i \in 1..since[r][k] /\ log'[k][i] = log[k][i]
    <3> SUFFICES ASSUME NEW k \in Partition, NEW i \in 1..since[r][k]
                 PROVE  log'[k][i] = log[k][i]
      OBVIOUS
    <3>1. since[r][k] \in Nat /\ since[r][k] <= Len(log[k])
      BY <1>1 DEF TypeOK, Began
    <3>2. i \in 1..Len(log[k])
      BY <1>2, <3>1
    <3> QED
      BY <1>1, <3>2, Appended
  <2> QED
    BY <2>1, ReadInExtension
<1> QED
  BY <1>3, <1>4, <1>5

\* The event of a row reaches the topic.
LEMMA SendInv ==
  ASSUME IInv, NEW q \in Producer, NEW row \in Row, Send(q, row)
  PROVE  IInv'
<1> USE DEF IInv
<1> DEFINE e == IdOf[row]
           p == PartitionFor(e)
<1>1. e \in EventId
  BY EventBridgeAssumption
<1>2. p \in Partition
  BY <1>1, EventBridgeAssumption, EventLogAssumption DEF PartitionFor
<1>3. Consumer!Produce(p, e)
  BY DEF Send
<1> HIDE DEF p
<1>4. /\ UNCHANGED <<table, active, slice, since, silver, complete, fresh, settled>>
      /\ UNCHANGED <<producing, month, source>>
      /\ unsent' = [unsent EXCEPT ![q] = @ \ {row}]
  BY DEF Send, history, Consumer!Produce
<1>5. TypeOK'
  BY <1>1, <1>2, <1>3, <1>4, Appended DEF TypeOK
<1>6. /\ \A s : OnTopic(s) \subseteq OnTopic(s)'
      /\ e \in OnTopic(SliceOf[e])'
      /\ \A r \in Run : \A s : UniqueEvents(log, since[r], s)
                            \subseteq UniqueEvents(log', since[r], s)
  BY <1>1, <1>2, <1>3, StaysOnTopic
<1> HIDE DEF e
<1>7. Began'
  BY <1>1, <1>2, <1>3, <1>4, Appended DEF Began, TypeOK
<1>8. SentIsOnTopic'
  <2> SUFFICES ASSUME NEW k \in Producer, producing[k] = "sending",
                      NEW x \in Primary(source[k]) \ unsent'[k]
               PROVE  IdOf[x] \in UniqueEvents(log', Ends(log'), month[k])
    BY <1>4 DEF SentIsOnTopic, OnTopic
  <2> DEFINE later(s) == UniqueEvents(log', Ends(log'), s)
  <2>1. /\ \A s : OnTopic(s) \subseteq later(s)
        /\ e \in later(SliceOf[e])
    BY <1>6 DEF OnTopic
  <2> HIDE DEF later
  <2>2. CASE x \in unsent[k]
    <3>1. k = q /\ x = row
      BY <1>4, <2>2 DEF TypeOK
    <3>2. x \in RowsOf(month[k])
      BY DEF SentIsOnTopic, Primary
    <3> QED
      BY <2>1, <3>1, <3>2 DEF RowsOf, e, later
  <2>3. CASE x \notin unsent[k]
    BY <2>3, <2>1 DEF SentIsOnTopic, later
  <2> QED
    BY <2>2, <2>3
<1>9. CompleteOnTopic'
  BY <1>4, <1>6 DEF CompleteOnTopic, Expected
<1>10. FreshInWindow'
  BY <1>4, <1>6 DEF FreshInWindow, Expected, TypeOK
<1>11. NeverOvercounts'
  <2> SUFFICES ASSUME NEW s \in Slice, NEW h \in Hour
               PROVE  table[s][h] <= CountAt(OnTopic(s)', h)
    BY <1>4 DEF NeverOvercounts, CountAt
  <2>1. OnTopic(s) \in SUBSET OnTopic(s)' /\ OnTopic(s)' \in SUBSET EventId
    BY <1>6, UniqueAreEvents DEF OnTopic
  <2>2. CountAt(OnTopic(s), h) <= CountAt(OnTopic(s)', h)
    BY <2>1, CountMonotone
  <2>3. CountAt(OnTopic(s), h) \in Nat /\ CountAt(OnTopic(s)', h) \in Nat
    BY <2>1, FiniteHour
  <2> QED
    BY <2>2, <2>3 DEF NeverOvercounts, TypeOK
<1>12. SilverSliced' /\ SettledLosesNothing'
  BY <1>4 DEF SilverSliced, SettledLosesNothing
<1> QED
  BY <1>5, <1>7, <1>8, <1>9, <1>10, <1>11, <1>12

\* A run that returns has everything it listed on the topic.
LEMMA EndProducerInv ==
  ASSUME IInv, NEW q \in Producer, Return(q) \/ FailProducer(q)
  PROVE  IInv'
<1> USE DEF IInv
<1>1. UNCHANGED <<log, table, active, slice, since, silver, month, unsent, fresh, settled>>
  BY DEF Return, FailProducer, consumer, history
<1>2. TypeOK'
  BY <1>1 DEF Return, FailProducer, TypeOK, history
<1>3. SentIsOnTopic'
  BY <1>1 DEF Return, FailProducer, TypeOK, SentIsOnTopic, OnTopic, Ends
<1>4. CompleteOnTopic'
  <2> SUFFICES ASSUME NEW s \in complete'
               PROVE  Expected(s) \subseteq OnTopic(s)
    BY <1>1 DEF CompleteOnTopic, Expected, OnTopic, Ends
  <2>1. CASE s \in complete
    BY <2>1 DEF CompleteOnTopic
  <2>2. CASE s \notin complete
    <3>1. /\ producing[q] = "sending"
          /\ unsent[q] = {}
          /\ s = month[q]
          /\ source[q] = silver[s]
      BY <2>2 DEF Return, FailProducer, EverySent, history
    <3> QED
      BY <3>1 DEF SentIsOnTopic, Expected, EventIds
  <2> QED
    BY <2>1, <2>2
<1>5. /\ Began' /\ SilverSliced' /\ FreshInWindow' /\ NeverOvercounts'
      /\ SettledLosesNothing'
  BY <1>1 DEF Began, SilverSliced, FreshInWindow, NeverOvercounts,
              SettledLosesNothing, OnTopic, Expected, Ends
<1> QED
  BY <1>2, <1>3, <1>4, <1>5

-----------------------------------------------------------------------------
(* The consumer.                                                           *)

\* A run that begins when its slice is complete finds all of it below the end
\* offsets it begins with.
LEMMA BeginInv ==
  ASSUME IInv, NEW r \in Run, NEW s \in Slice, Begin(r, s)
  PROVE  IInv'
<1> USE DEF IInv
<1>1. /\ UNCHANGED <<log, table, silver, producing, month, source, unsent>>
      /\ UNCHANGED <<complete, settled>>
      /\ r \notin active
      /\ active' = active \cup {r}
      /\ slice' = [slice EXCEPT ![r] = s]
      /\ since' = [since EXCEPT ![r] = Ends(log)]
  BY SameEvents DEF Begin, Consumer!Begin, producer
<1>2. \A p \in Partition : Len(log[p]) \in Nat
  BY DEF TypeOK
<1>3. TypeOK'
  BY <1>1, <1>2 DEF Begin, TypeOK, Ends
<1>4. Began'
  BY <1>1, <1>2 DEF Began, TypeOK, Ends
<1>5. FreshInWindow'
  <2> SUFFICES ASSUME NEW k \in fresh'
               PROVE  /\ k \in active'
                      /\ Expected(slice'[k]) \subseteq UniqueEvents(log, since'[k], slice'[k])
    BY <1>1 DEF FreshInWindow, Expected
  <2>1. CASE k = r
    <3>1. s \in complete
      BY <2>1 DEF Begin
    <3>2. slice'[k] = s /\ since'[k] = Ends(log) /\ k \in active'
      BY <1>1, <2>1 DEF TypeOK
    <3> QED
      BY <3>1, <3>2 DEF CompleteOnTopic, OnTopic
  <2>2. CASE k # r
    <3>1. k \in fresh /\ k \in Run
      BY <2>2 DEF Begin, TypeOK
    <3>2. slice'[k] = slice[k] /\ since'[k] = since[k]
      BY <1>1, <2>2, <3>1 DEF TypeOK
    <3> QED
      BY <1>1, <3>1, <3>2 DEF FreshInWindow
  <2> QED
    BY <2>1, <2>2
<1>6. /\ SilverSliced' /\ SentIsOnTopic' /\ CompleteOnTopic' /\ NeverOvercounts'
      /\ SettledLosesNothing'
  BY <1>1 DEF SilverSliced, SentIsOnTopic, CompleteOnTopic, NeverOvercounts,
              SettledLosesNothing, OnTopic, Expected, Ends
<1> QED
  BY <1>3, <1>4, <1>5, <1>6

\* What the end of a run changes, whether it publishes or not.
LEMMA EndInv ==
  ASSUME IInv, NEW r \in Run, Consumer!End(r), fresh' = fresh \ {r},
         UNCHANGED <<silver, producer, complete>>
  PROVE  /\ log' \in [Partition -> Seq(EventId)]
         /\ active' \subseteq Run
         /\ slice' \in [Run -> Slice]
         /\ since' \in [Run -> [Partition -> Nat]]
         /\ fresh' \subseteq Run
         /\ Began' /\ SilverSliced' /\ SentIsOnTopic' /\ CompleteOnTopic'
         /\ FreshInWindow'
<1> USE DEF IInv
<1>1. /\ UNCHANGED <<log, slice>>
      /\ UNCHANGED <<producing, month, source, unsent>>
      /\ active' = active \ {r}
      /\ since' = [since EXCEPT ![r] = Consumer!Nowhere]
  BY DEF Consumer!End, producer
<1>2. \A p \in Partition : Len(log[p]) \in Nat
  BY DEF TypeOK
<1>3. Consumer!Nowhere \in [Partition -> Nat]
  BY DEF Consumer!Nowhere
<1>4. Began'
  BY <1>1, <1>2 DEF Began, TypeOK, Consumer!Nowhere
<1>5. SilverSliced' /\ SentIsOnTopic' /\ CompleteOnTopic'
  BY <1>1 DEF SilverSliced, SentIsOnTopic, CompleteOnTopic, Expected, OnTopic, Ends
<1>6. FreshInWindow'
  BY <1>1 DEF FreshInWindow, Expected, TypeOK
<1> QED
  BY <1>1, <1>3, <1>4, <1>5, <1>6 DEF TypeOK

\* What a run publishes, hour by hour.
LEMMA Published ==
  ASSUME IInv, NEW r \in Run, NEW w \in Windows(log), Publish(r, w),
         NEW s \in Slice, NEW h \in Hour
  PROVE  \/ s # slice[r] /\ table'[s][h] = table[s][h]
         \/ /\ s = slice[r]
            /\ LET n == CountAt(UniqueEvents(log, w, s), h)
               IN  \/ n > 0 /\ table'[s][h] = n
                   \/ n = 0 /\ table'[s][h] = table[s][h]
<1> DEFINE ids == UniqueEvents(log, w, slice[r])
<1>1. /\ slice[r] \in Slice
      /\ table \in [Slice -> [Hour -> Nat]]
  BY DEF IInv, TypeOK
<1>2. table' = [table EXCEPT ![slice[r]] =
                  [k \in Hour |-> IF HourCounts(ids)[k] > 0 THEN HourCounts(ids)[k]
                                  ELSE table[slice[r]][k]]]
  BY SameEvents, SameCounts DEF Publish, Consumer!Publish, Consumer!Overwrite
<1>3. HourCounts(ids)[h] = CountAt(ids, h) /\ CountAt(ids, h) \in Nat
  BY UniqueAreEvents, FiniteHour DEF HourCounts
<1> HIDE DEF ids
<1>4. CASE s # slice[r]
  BY <1>1, <1>2, <1>4
<1>5. CASE s = slice[r]
  <2>1. table'[s][h] = IF CountAt(ids, h) > 0 THEN CountAt(ids, h) ELSE table[s][h]
    BY <1>1, <1>2, <1>3, <1>5
  <2> QED
    BY <1>3, <1>5, <2>1 DEF ids
<1> QED
  BY <1>4, <1>5

\* The window of a publication lies between the offsets the run began with and
\* the topic.
LEMMA WindowBounds ==
  ASSUME IInv, NEW r \in Run, NEW w \in Windows(log), Publish(r, w), NEW s
  PROVE  /\ UniqueEvents(log, since[r], s) \subseteq UniqueEvents(log, w, s)
         /\ UniqueEvents(log, w, s) \subseteq OnTopic(s)
<1>1. \A p \in Partition :
        /\ since[r][p] \in Nat /\ Len(log[p]) \in Nat
        /\ since[r][p] <= w[p]
  BY DEF IInv, TypeOK, Publish, Consumer!Publish
<1>2. \A p \in Partition : w[p] \in Int /\ w[p] <= Len(log[p])
  <2>1. \A p \in Partition : w[p] \in UNION {0..Len(log[k]) : k \in Partition}
    BY DEF Windows
  <2> QED
    BY <2>1 DEF Windows
<1>3. \A p \in Partition : \A i \in 1..since[r][p] : i \in 1..w[p]
  BY <1>1, <1>2
<1>4. \A p \in Partition : \A i \in 1..w[p] : i \in 1..Ends(log)[p]
  BY <1>1, <1>2 DEF Ends
<1> QED
  BY <1>3, <1>4, ReadInExtension DEF OnTopic

\* The rows a slice is expected to have are events.
LEMMA ExpectedAreEvents ==
  ASSUME IInv, NEW s \in Slice
  PROVE  Expected(s) \in SUBSET EventId
BY EventBridgeAssumption DEF IInv, TypeOK, Expected, EventIds, Primary

\* A publication counts no more than the topic holds and, by a fresh run, no less
\* than the slice.
LEMMA PublishInv ==
  ASSUME IInv, NEW r \in Run, NEW w \in Windows(log), Publish(r, w)
  PROVE  IInv'
<1> USE DEF IInv
<1>1. /\ Consumer!End(r)
      /\ fresh' = fresh \ {r}
      /\ UNCHANGED <<silver, producer, complete>>
      /\ UNCHANGED log
  BY DEF Publish, Consumer!Publish, Consumer!End
<1>2. ASSUME NEW s \in Slice, NEW h \in Hour
      PROVE  /\ table[s][h] \in Nat
             /\ CountAt(UniqueEvents(log, w, s), h) \in Nat
             /\ CountAt(OnTopic(s), h) \in Nat
             /\ CountAt(Expected(s), h) \in Nat
             /\ CountAt(UniqueEvents(log, w, s), h) <= CountAt(OnTopic(s), h)
             /\ table'[s][h] \in Nat
  <2>1. /\ UniqueEvents(log, w, s) \in SUBSET OnTopic(s)
        /\ OnTopic(s) \in SUBSET EventId
        /\ UniqueEvents(log, w, s) \in SUBSET EventId
        /\ Expected(s) \in SUBSET EventId
    BY WindowBounds, UniqueAreEvents, ExpectedAreEvents DEF OnTopic
  <2>2. table[s][h] \in Nat
    BY DEF TypeOK
  <2>3. /\ CountAt(UniqueEvents(log, w, s), h) \in Nat
        /\ CountAt(OnTopic(s), h) \in Nat
        /\ CountAt(Expected(s), h) \in Nat
    BY <2>1, FiniteHour
  <2>4. CountAt(UniqueEvents(log, w, s), h) <= CountAt(OnTopic(s), h)
    BY <2>1, CountMonotone
  <2> QED
    BY <2>2, <2>3, <2>4, Published
<1>3. TypeOK'
  <2>1. table' \in [Slice -> [Hour -> Nat]]
    <3>1. slice[r] \in Slice /\ table \in [Slice -> [Hour -> Nat]]
      BY DEF TypeOK
    <3>2. table' \in [Slice -> [Hour -> Nat]]
          <=> \A s \in Slice, h \in Hour : table'[s][h] \in Nat
      BY <3>1 DEF Publish, Consumer!Publish, Consumer!Overwrite
    <3> QED
      BY <1>2, <3>2
  <2>2. settled' \subseteq Slice
    BY DEF Publish, TypeOK
  <2> QED
    BY <1>1, <2>1, <2>2, EndInv DEF TypeOK, producer
<1>4. NeverOvercounts'
  <2> SUFFICES ASSUME NEW s \in Slice, NEW h \in Hour
               PROVE  table'[s][h] <= CountAt(OnTopic(s), h)
    BY <1>1 DEF NeverOvercounts, OnTopic
  <2>1. table[s][h] <= CountAt(OnTopic(s), h)
    BY DEF NeverOvercounts
  <2> QED
    BY <1>2, <2>1, Published
<1>5. SettledLosesNothing'
  <2> SUFFICES ASSUME NEW s \in settled', NEW h \in Hour
               PROVE  table'[s][h] >= CountAt(Expected(s), h)
    BY <1>1 DEF SettledLosesNothing, Expected
  <2>1. s \in Slice
    BY DEF Publish, TypeOK
  <2>2. CASE s # slice[r]
    <3>1. s \in settled
      BY <2>2 DEF Publish
    <3>2. table'[s][h] = table[s][h]
      BY <2>1, <2>2, Published
    <3> QED
      BY <3>1, <3>2 DEF SettledLosesNothing, Expected
  <2>3. CASE s = slice[r]
    <3>1. r \in fresh
      BY <2>3 DEF Publish
    <3>2. Expected(s) \subseteq UniqueEvents(log, w, s)
      BY <2>3, <3>1, WindowBounds DEF FreshInWindow
    <3>3. CountAt(Expected(s), h) <= CountAt(UniqueEvents(log, w, s), h)
      BY <3>2, UniqueAreEvents, CountMonotone
    <3> QED
      BY <1>2, <2>1, <2>3, <3>3, Published
  <2> QED
    BY <2>2, <2>3
<1> QED
  BY <1>1, <1>3, <1>4, <1>5, EndInv

\* A run that writes nothing leaves the table and the settled slices alone.
LEMMA WriteNothingInv ==
  ASSUME IInv, NEW r \in Run, WriteNothing(r)
  PROVE  IInv'
<1> USE DEF IInv
<1>1. /\ Consumer!End(r)
      /\ fresh' = fresh \ {r}
      /\ UNCHANGED <<silver, producer, complete>>
      /\ UNCHANGED <<log, table, settled>>
  BY DEF WriteNothing, Consumer!WriteNothing, Consumer!End
<1>2. TypeOK'
  BY <1>1, EndInv DEF TypeOK, producer
<1>3. NeverOvercounts' /\ SettledLosesNothing'
  BY <1>1 DEF NeverOvercounts, SettledLosesNothing, OnTopic, Ends
<1> QED
  BY <1>1, <1>2, <1>3, EndInv

-----------------------------------------------------------------------------
(* The theorems.                                                           *)

\* The chain from Silver to the hourly counts holds in every reachable state:
\* rows of a returned producer run are on the topic, a run that begins then has
\* them in its window, and no count exceeds what the topic holds.
THEOREM Inductive == Spec => []IInv
<1>1. IInv /\ [Next]_vars => IInv'
  <2> SUFFICES ASSUME IInv, [Next]_vars PROVE IInv'
    OBVIOUS
  <2>1. CASE UNCHANGED vars
    BY <2>1
    DEF IInv, TypeOK, Began, SilverSliced, SentIsOnTopic, CompleteOnTopic,
        FreshInWindow, NeverOvercounts, SettledLosesNothing, OnTopic, Expected,
        Ends, vars, consumer, producer, history
  <2>2. ASSUME NEW s \in Slice, NEW rows \in Contents, WriteSilver(s, rows)
        PROVE  IInv'
    BY <2>2, WriteSilverInv
  <2>3. ASSUME NEW q \in Producer,
               \/ \E s \in Slice : StartProducer(q, s)
               \/ \E row \in Row : Send(q, row)
               \/ Return(q)
               \/ FailProducer(q)
        PROVE  IInv'
    BY <2>3, StartProducerInv, SendInv, EndProducerInv
  <2>4. ASSUME NEW r \in Run,
               \/ \E s \in Slice : Begin(r, s)
               \/ \E w \in Windows(log) : Publish(r, w)
               \/ WriteNothing(r)
        PROVE  IInv'
    BY <2>4, BeginInv, PublishInv, WriteNothingInv
  <2> QED
    BY <2>1, <2>2, <2>3, <2>4 DEF Next
<1> QED
  BY <1>1, InitInv, PTL DEF Spec

\* Nothing is lost between Silver and the hourly counts: a settled slice counts
\* at least its distinct events, hour by hour.
THEOREM NothingLost == Spec => []SettledLosesNothing
<1>1. IInv => SettledLosesNothing
  BY DEF IInv
<1> QED
  BY <1>1, Inductive, PTL

\* The hourly counts of a settled slice are those of the distinct events of its
\* Silver rows, unless earlier rows are left on the topic.
THEOREM Exact == Spec => []SettledIsExact
<1>1. IInv => SettledIsExact
  <2> SUFFICES ASSUME IInv, NEW s \in settled, Leftover(s) = {}
               PROVE  table[s] = HourCounts(Expected(s))
    BY DEF SettledIsExact, Expected
  <2>1. s \in Slice /\ table[s] \in [Hour -> Nat]
    BY DEF IInv, TypeOK
  <2>2. OnTopic(s) \in SUBSET Expected(s) /\ Expected(s) \in SUBSET EventId
    BY <2>1, ExpectedAreEvents DEF Leftover, Expected, OnTopic
  <2>3. ASSUME NEW h \in Hour
        PROVE  table[s][h] = CountAt(Expected(s), h)
    <3>1. /\ table[s][h] <= CountAt(OnTopic(s), h)
          /\ table[s][h] >= CountAt(Expected(s), h)
      BY <2>1 DEF IInv, NeverOvercounts, SettledLosesNothing, Expected
    <3>2. CountAt(OnTopic(s), h) <= CountAt(Expected(s), h)
      BY <2>2, CountMonotone
    <3>3. CountAt(OnTopic(s), h) \in Nat /\ CountAt(Expected(s), h) \in Nat
      BY <2>2, FiniteHour
    <3> QED
      BY <2>1, <3>1, <3>2, <3>3
  <2> QED
    BY <2>1, <2>3 DEF HourCounts
<1> QED
  BY <1>1, Inductive, PTL

\* The bridge reconciles: the counts of a settled slice add up to the number of
\* its Silver rows, under the conditions the design log names.
THEOREM Reconcile == Spec => []SettledReconciles
<1>1. TypeOK /\ SettledIsExact => SettledReconciles
  <2> SUFFICES ASSUME TypeOK, SettledIsExact, NEW s \in settled, Leftover(s) = {},
                      Injective(silver[s]), silver[s] \cap Quarantine = {}
               PROVE  Cardinality(silver[s]) = SumFunction(table[s])
    BY DEF SettledReconciles, Reconciled, Counted
  <2>1. silver[s] \in SUBSET Row /\ IsFiniteSet(silver[s])
    BY EventBridgeAssumption, FS_Subset DEF TypeOK
  <2>2. Primary(silver[s]) = silver[s]
    BY DEF Primary
  <2>3. /\ table[s] = HourCounts(EventIds(silver[s]))
        /\ EventIds(silver[s]) \in SUBSET EventId
    BY <2>1, <2>2, EventBridgeAssumption DEF SettledIsExact, EventIds
  <2>4. Cardinality(EventIds(silver[s])) = Cardinality(silver[s])
    <3> DEFINE f == [row \in silver[s] |-> IdOf[row]]
    <3>1. f \in Surjection(silver[s], EventIds(silver[s]))
      BY DEF Surjection, EventIds
    <3>2. f \in Injection(silver[s], EventIds(silver[s]))
      BY <3>1 DEF Injection, Surjection, IsInjective, Injective
    <3> QED
      BY <2>1, <3>1, <3>2, FS_Surjection
  <2> QED
    BY <2>3, <2>4, CountsAddUp
<1>2. IInv => TypeOK
  BY DEF IInv
<1> QED
  BY <1>1, <1>2, Inductive, Exact, PTL

-----------------------------------------------------------------------------
(* The components the bridge is composed of.                               *)

\* Whatever producers and Silver do, the consumers of the bridge take only steps
\* of SliceReplay, which is what TripConsumer is shown to implement.
THEOREM ConsumerSide == Spec => Consumer!Spec
<1> DEFINE Step == Consumer!Next \/ UNCHANGED consumer
<1>1. Init => Consumer!Init
  BY DEF Init
<1>2. ASSUME NEW q \in Producer, NEW row \in Row, Send(q, row) PROVE Step
  <2>1. IdOf[row] \in EventId
    BY EventBridgeAssumption
  <2>2. PartitionFor(IdOf[row]) \in Partition
    BY <2>1, EventBridgeAssumption, EventLogAssumption DEF PartitionFor
  <2> QED
    BY <1>2, <2>1, <2>2 DEF Send, Consumer!Next, Consumer!Message
<1>3. ASSUME NEW s \in Slice, NEW rows \in Contents, WriteSilver(s, rows)
      PROVE  Step
  BY <1>3 DEF WriteSilver
<1>4. ASSUME NEW q \in Producer,
             (\E s \in Slice : StartProducer(q, s)) \/ Return(q) \/ FailProducer(q)
      PROVE  Step
  BY <1>4 DEF StartProducer, Return, FailProducer
<1>5. ASSUME NEW r \in Run, NEW s \in Slice, Begin(r, s) PROVE Step
  BY <1>5 DEF Begin, Consumer!Next
<1>6. ASSUME NEW r \in Run, NEW w \in Windows(log), Publish(r, w) PROVE Step
  <2>1. w \in Consumer!Windows(log)
    BY DEF Windows, Consumer!Windows
  <2> QED
    BY <1>6, <2>1 DEF Publish, Consumer!Next
<1>7. ASSUME NEW r \in Run, WriteNothing(r) PROVE Step
  BY <1>7 DEF WriteNothing, Consumer!Next
<1>8. [Next]_vars => [Consumer!Next]_consumer
  BY <1>2, <1>3, <1>4, <1>5, <1>6, <1>7 DEF Next, vars
<1> QED
  BY <1>1, <1>8, PTL DEF Spec, Consumer!Spec, Consumer!vars, consumer

\* Whatever consumers and Silver do, the producers of the bridge take only steps
\* of PartitionDelivery, which is what TripProducer is shown to implement on the
\* primary topic.
THEOREM ProducerSide == Spec => Delivery!Spec
<1> DEFINE Step == Delivery!Next \/ UNCHANGED <<producing, unsent>>
<1>1. Init => Delivery!Init
  BY DEF Init, Delivery!Init
<1>2. ASSUME TypeOK, NEW q \in Producer, NEW s \in Slice, StartProducer(q, s)
      PROVE  Step
  <2>1. Primary(silver[s]) \in SUBSET (Row \ Quarantine)
    BY <1>2 DEF TypeOK, Primary
  <2>2. Delivery!Start(q, Primary(silver[s]))
    BY <1>2 DEF StartProducer, Delivery!Start
  <2> QED
    BY <2>1, <2>2 DEF Delivery!Next
<1>3. ASSUME IInv, NEW q \in Producer, NEW row \in Row, Send(q, row) PROVE Step
  <2>1. Delivery!Arrive(q, row)
    BY <1>3 DEF Send, Delivery!Arrive
  <2>2. row \in Row \ Quarantine
    BY <1>3 DEF Send, IInv, TypeOK
  <2> QED
    BY <2>1, <2>2 DEF Delivery!Next
<1>4. ASSUME NEW q \in Producer, Return(q) PROVE Step
  <2>1. Delivery!Return(q)
    BY <1>4 DEF Return, EverySent, Delivery!Return
  <2> QED
    BY <2>1 DEF Delivery!Next
<1>5. ASSUME NEW q \in Producer, FailProducer(q) PROVE Step
  <2>1. Delivery!Fail(q)
    BY <1>5 DEF FailProducer, Delivery!Fail
  <2> QED
    BY <2>1 DEF Delivery!Next
<1>6. ASSUME NEW s \in Slice, NEW rows \in Contents, WriteSilver(s, rows)
      PROVE  Step
  BY <1>6 DEF WriteSilver, producer
<1>7. ASSUME NEW r \in Run,
             \/ \E s \in Slice : Begin(r, s)
             \/ \E w \in Windows(log) : Publish(r, w)
             \/ WriteNothing(r)
      PROVE  Step
  BY <1>7 DEF Begin, Publish, WriteNothing, producer
<1>8. IInv /\ [Next]_vars => [Delivery!Next]_<<producing, unsent>>
  BY <1>2, <1>3, <1>4, <1>5, <1>6, <1>7 DEF Next, vars, producer, IInv
<1> QED
  BY <1>1, <1>8, Inductive, PTL DEF Spec, Delivery!Spec, Delivery!vars

=============================================================================

----------------------------- MODULE EventBridge -----------------------------
(***************************************************************************)
(* The event bridge from end to end: the accepted rows of Silver, producer *)
(* runs that put their events on the topic, consumer runs that publish     *)
(* hourly counts, and reconcile_against_silver, which compares the sum of  *)
(* a slice's counts with the number of its Silver rows.                    *)
(*                                                                         *)
(* The consumer side is what TripConsumer is shown to implement,           *)
(* SliceReplay.  The producer side is what TripProducer is shown to        *)
(* implement, PartitionDelivery: a run may append each of its events once, *)
(* at any time until it returns, and after it has failed, when messages    *)
(* that were given up arrive late; it returns only when every event is on  *)
(* the topic.                                                              *)
(*                                                                         *)
(* Nothing is coordinated: Silver is rewritten, and months are produced    *)
(* and counted, whenever somebody starts it.                               *)
(***************************************************************************)
EXTENDS EventLog, Functions

CONSTANTS
  Run,         \* the invokers of the consumer
  MaxLen,      \* bound on the records of one partition
  Producer,    \* the invokers of the producer
  Row,         \* the rows Silver may accept
  Contents,    \* the sets of rows a partition of Silver may hold
  IdOf,        \* derive_event_id: not injective, it hashes ten fields of a row
  Quarantine,  \* rows Silver accepts and the event contract does not
  Route        \* the partition of a routing key, which names slice and hour

ASSUME EventBridgeAssumption ==
  /\ MaxLen \in Nat
  /\ IsFiniteSet(Row)
  /\ Contents \subseteq SUBSET Row
  /\ IdOf \in [Row -> EventId]
  /\ Quarantine \subseteq Row
  /\ Route \in [Slice \X Hour -> Partition]

VARIABLES
  log,        \* the records of each partition, oldest first
  table,      \* the committed event counts, per slice and hour
  active,     \* the consumer runs in progress
  slice,      \* the slice each consumer run is for
  since,      \* the end offsets of the topic when each consumer run began
  silver,     \* the accepted rows of each slice
  producing,  \* where each producer run is
  month,      \* the slice each producer run is for
  source,     \* the rows each producer run in progress has listed
  unsent,     \* those of its rows that are not on a topic yet
  complete,   \* history: slices whose Silver rows are all on the topic
  fresh,      \* history: consumer runs that began when their slice was complete
  settled     \* history: slices published by a fresh run after all others

consumer == <<log, table, active, slice, since>>
producer == <<producing, month, source, unsent>>
history  == <<complete, fresh, settled>>
vars == <<consumer, silver, producer, history>>

Consumer == INSTANCE SliceReplay

Delivery == INSTANCE PartitionDelivery
  WITH Run <- Producer, Row <- Row \ Quarantine, phase <- producing

TypeOK ==
  /\ log \in [Partition -> Seq(EventId)]
  /\ table \in [Slice -> [Hour -> Nat]]
  /\ active \subseteq Run
  /\ slice \in [Run -> Slice]
  /\ since \in [Run -> [Partition -> Nat]]
  /\ silver \in [Slice -> SUBSET Row]
  /\ producing \in [Producer -> {"idle", "sending", "done", "failed"}]
  /\ month \in [Producer -> Slice]
  /\ source \in [Producer -> SUBSET Row]
  /\ unsent \in [Producer -> SUBSET (Row \ Quarantine)]
  /\ complete \subseteq Slice
  /\ fresh \subseteq Run
  /\ settled \subseteq Slice

Init ==
  /\ Consumer!Init
  /\ silver = [s \in Slice |-> {}]
  /\ producing = [q \in Producer |-> "idle"]
  /\ month \in [Producer -> Slice]
  /\ source = [q \in Producer |-> {}]
  /\ unsent = [q \in Producer |-> {}]
  /\ complete = {}
  /\ fresh = {}
  /\ settled = {}

EventIds(rows) == {IdOf[row] : row \in rows}

RowsOf(s) == {row \in Row : SliceOf[IdOf[row]] = s}

\* The Silver transform overwrites the accepted partition of slice s.
WriteSilver(s, rows) ==
  /\ rows \subseteq RowsOf(s)
  /\ silver' = [silver EXCEPT ![s] = rows]
  /\ complete' = complete \ {s}
  /\ fresh' = {r \in fresh : slice[r] # s}
  /\ settled' = settled \ {s}
  /\ UNCHANGED <<consumer, producer>>

-----------------------------------------------------------------------------
(* The producer.                                                           *)

\* The rows that are routed to the primary topic.
Primary(rows) == rows \ Quarantine

\* The run lists the rows of slice s.
StartProducer(q, s) ==
  /\ producing[q] # "sending"
  /\ silver[s] # {}
  /\ producing' = [producing EXCEPT ![q] = "sending"]
  /\ month' = [month EXCEPT ![q] = s]
  /\ source' = [source EXCEPT ![q] = silver[s]]
  /\ unsent' = [unsent EXCEPT ![q] = Primary(silver[s])]
  /\ UNCHANGED <<consumer, silver, history>>

\* event_key has the grain of the hourly row.
PartitionFor(e) == Route[<<SliceOf[e], HourOf[e]>>]

\* The broker appends the event of a row.
Send(q, row) ==
  /\ producing[q] \in {"sending", "failed"}
  /\ row \in unsent[q]
  /\ Consumer!Produce(PartitionFor(IdOf[row]), IdOf[row])
  /\ unsent' = [unsent EXCEPT ![q] = @ \ {row}]
  /\ UNCHANGED <<silver, producing, month, source, history>>

\* Fault: the run returns without waiting for its deliveries.
EverySentSoFar(q) == TRUE

EverySent(q) == unsent[q] = {}

Return(q) ==
  /\ producing[q] = "sending"
  /\ EverySent(q)
  /\ producing' = [producing EXCEPT ![q] = "done"]
  /\ complete' = IF source[q] = silver[month[q]] THEN complete \cup {month[q]}
                 ELSE complete
  /\ source' = [source EXCEPT ![q] = {}]
  /\ UNCHANGED <<consumer, silver, month, unsent, fresh, settled>>

FailProducer(q) ==
  /\ producing[q] = "sending"
  /\ producing' = [producing EXCEPT ![q] = "failed"]
  /\ source' = [source EXCEPT ![q] = {}]
  /\ UNCHANGED <<consumer, silver, month, unsent, history>>

-----------------------------------------------------------------------------
(* The consumer and the reconciliation.                                    *)

Begin(r, s) ==
  /\ Consumer!Begin(r, s)
  /\ fresh' = IF s \in complete THEN fresh \cup {r} ELSE fresh \ {r}
  /\ UNCHANGED <<silver, producer, complete, settled>>

Publish(r, w) ==
  /\ Consumer!Publish(r, w)
  /\ settled' = IF r \in fresh THEN settled \cup {slice[r]} ELSE settled \ {slice[r]}
  /\ fresh' = fresh \ {r}
  /\ UNCHANGED <<silver, producer, complete>>

WriteNothing(r) ==
  /\ Consumer!WriteNothing(r)
  /\ fresh' = fresh \ {r}
  /\ UNCHANGED <<silver, producer, complete, settled>>

\* Fault: the SELECT forgets its WHERE clause.
CountedAnywhere(s) == SumFunction([k \in Slice |-> SumFunction(table[k])])

\* SELECT COALESCE(SUM(event_count), 0) for the slice.
Counted(s) == SumFunction(table[s])

\* is_reconciled.
Reconciled(s) == Cardinality(silver[s]) = Counted(s)

Next ==
  \/ \E s \in Slice, rows \in Contents : WriteSilver(s, rows)
  \/ \E q \in Producer : \/ \E s \in Slice : StartProducer(q, s)
                         \/ \E row \in Row : Send(q, row)
                         \/ Return(q)
                         \/ FailProducer(q)
  \/ \E r \in Run : \/ \E s \in Slice : Begin(r, s)
                    \/ \E w \in Windows(log) : Publish(r, w)
                    \/ WriteNothing(r)

Spec == Init /\ [][Next]_vars

-----------------------------------------------------------------------------
(* What the bridge promises.                                               *)

\* The events of slice s on the topic that no row of Silver has any more.
Leftover(s) ==
  {e \in UniqueEvents(log, Ends(log), s) : e \notin EventIds(Primary(silver[s]))}

\* Once every row of a slice has been produced and a run that began after that
\* has published, the hourly counts are those of the distinct events of the
\* slice, however often producers failed or were run again and whatever other
\* consumer runs did before, as long as no earlier rows are left on the topic.
SettledIsExact ==
  \A s \in settled :
    Leftover(s) = {} => table[s] = HourCounts(EventIds(Primary(silver[s])))

Injective(rows) == \A x, y \in rows : IdOf[x] = IdOf[y] => x = y

\* The counts of a settled slice reconcile with Silver, unless Silver was
\* rewritten after it was produced, two of its rows have one event id, or some of
\* its rows are in quarantine.
SettledReconciles ==
  \A s \in settled :
    /\ Leftover(s) = {}
    /\ Injective(silver[s])
    /\ silver[s] \cap Quarantine = {}
    => Reconciled(s)

\* A settled slice counts no fewer events than it has distinct ones, also when
\* earlier rows are left on the topic: what is lost is lost to no consumer.
SettledLosesNothing ==
  \A s \in settled : \A h \in Hour :
    table[s][h] >= CountAt(EventIds(Primary(silver[s])), h)

=============================================================================

# Verification of the NYC cab experiment platform

TLA+ modules, TLC runs and TLAPS proofs for the parts of this repository that
keep state and can go wrong in ways a unit test hardly reaches. Paths below are
relative to the repository.

## 1. The system

A batch platform in two packages.

`nyc_cab` turns monthly source files into tables. **Bronze** downloads one file
per cab type and month through a local cache and writes it as a partition;
**Silver** reads a Bronze partition, splits it into accepted and rejected rows
and writes two partitions. Both overwrite only the partition they write
(Spark's dynamic partition overwrite).

`nyc_cab_events` bridges Silver to Postgres through Kafka. The **producer**
sends one message per accepted Silver row to `trip.completed.v1`, or to the
quarantine topic when the row does not make a valid event. The **consumer** is
a one-shot run: it captures the end of every partition, replays the topic from
offset 0 up to there, counts the distinct events of one (cab type, year, month)
per hour, and hands the counts to the **sink**, which overwrites the rows in one
transaction. `reconcile_against_silver` compares their sum with Silver's count.

There is no daemon and no scheduler in the repository; producers, consumers and
ingestions are started by hand, may fail anywhere, are run again, and nothing
prevents two from running at once.

| Component | State | Operations | Interacts through | Status |
|---|---|---|---|---|
| Consumer `nyc_cab_events/consumer` | window, positions, `consumed_to`, seen-set, aggregator, six counters | discover, capture, poll, classify, dedupe, check, upsert | the topic, the sink | modelled |
| Producer `nyc_cab_events/producer` | counters, `delivery_failures`, librdkafka's queue | ensure topics, route, produce, poll(0), flush, check | Silver partition, topics | modelled |
| Sink `nyc_cab_events/sink` | table `trip_completed_hourly`, one transaction per call | upsert, ensure table, reconcile | Postgres | modelled |
| Event contract `nyc_cab_events/contracts` | none | event id, construction, JSON in both directions, classification | all of the above | modelled; a hash stands for what is hashed |
| Bronze cache `nyc_cab/ingestion/bronze_io.py` | files in the cache directory | hit, download, evict | source site, Bronze | modelled |
| Bronze ingestion, contract | Bronze partitions | refuse, acquire, compare and rename columns, overwrite | cache, Silver | modelled, without paths and URLs |
| Silver transform | accepted and rejected partitions | refuse, tag, normalise, split, two overwrites | Bronze, producer | modelled |
| Validation protocol `nyc_cab/_validation.py` | none | check types, then rules | every request, event and bucket | modelled |
| Configuration, Spark session, CLI | none | read the environment, build a session | all | not modelled: see section 5 |
| Experiments, metrics, quality, Gold, Airflow | – | – | – | empty files |

What is hard, per component (PROJECT.json, "hazards", has the lines):

* consumer: the window is captured partition by partition while producers
  append; records of the next window arrive in between; records expire;
  producers that are run again duplicate events; runs overlap; the commit may
  succeed while the run fails. It is correct if a run publishes the counts of
  one complete window or nothing.
* producer: delivery is asynchronous, may be retried, late, failed and
  nevertheless have happened. It is correct if a run that returns has put every
  message on its topic exactly once. Its topics are created by two requests that
  fail, time out and are served late one by one.
* sink: several row-locking statements per transaction, and a `CREATE TABLE IF
  NOT EXISTS` that two processes race to. It is correct if each call is atomic
  and ends.
* event contract: five places check the same values again (Silver, event, JSON,
  bucket, table), with exceptions of which each caller catches only some. It is
  correct if what passes one place passes the next, and if a payload that does
  not pass is refused with the one exception its reader catches.
* Bronze and Silver: partial files, eviction under a reader, two writes that
  are not one transaction, overwrites that replace nothing when a frame is empty.

## 2. The modules

| Module | What it is |
|---|---|
| `EventLog` | vocabulary: partitions, event ids, slices, hours; the distinct events of a window; hourly counts; the overwriting upsert |
| `SliceReplay` | abstract specification of consumers: "read the complete slice or write nothing" |
| `PartitionDelivery` | abstract specification of producers: a run returns only when its whole partition has arrived |
| `AtomicUpsert` | abstract specification of the sink: a call takes effect in one step, whole, or not at all |
| `TripConsumer` | `consume_and_aggregate`, with the broker, producers and retention as its environment |
| `TripProducer` | `produce_trip_completed_events`, with librdkafka and the broker |
| `TopicSetup` | extends `TripProducer` by `ensure_topics` and by topics that are not there |
| `PostgresSink` | `upsert_hourly_counts`, one statement at a time, concurrently |
| `TableSetup` | extends `PostgresSink` by `ensure_table` and by a table that is not there |
| `BronzeSchema` | the comparison of a file's columns with the contract, and the rename plan |
| `BronzeIngest` | `ingest_bronze_month`, with the cache directory and the Bronze table |
| `SilverRules` | the rejection rules, row by row, with Spark's NULL, NaN and casts |
| `SilverTransform` | `transform_silver_month` over two tables, next to ingestions of Bronze |
| `Validation` | Python values, the rules on them, `create_validated` |
| `EventContract` | requests, ids, events, routing, payloads, classification, buckets and the table's checks, as functions |
| `SilverEvents` | the rows of `SilverTransform` as events of `EventContract` |
| `EventBridge` | Silver, producer runs, topic, consumer runs and `reconcile_against_silver` together |
| `MCTripConsumer`, `MCTripProducer`, `MCPostgresSink`, `MCBronzeIngest`, `MCSilverTransform`, `MCEventBridge` | the instances TLC checks |
| `EventLogProofs` | lemmas about counts and sums |
| `TripConsumerProofs`, `TripProducerProofs`, `PostgresSinkProofs`, `BronzeIngestProofs`, `SilverTransformProofs`, `EventContractProofs`, `EventBridgeProofs` | theorems |

### EventLog, SliceReplay, PartitionDelivery and AtomicUpsert

An event id hashes ten fields of the row (`EVENT_ID_HASH_FIELDS`), among them
cab type, year, month and pickup time, so it determines the slice and the hour:
`SliceOf` and `HourOf` are functions of the id. A record is an event id or
`Invalid`, any payload `from_json` refuses. `UniqueEvents(log, upto, s)` is the
reference definition of what a replay must find; `Overwrite` is the SQL upsert,
which leaves hours without a bucket alone.

`SliceReplay` has no Kafka consumer in it. A run begins, and ends by `Publish`
(atomically, the counts of a window that contains everything the topic held at
the beginning) or by `WriteNothing`.

`PartitionDelivery` has no librdkafka in it. A run starts with its whole partition
unsent; a row arrives once, until the run returns and even after it has failed; a
run returns only when nothing is unsent, and may fail at any time.
`AtomicUpsert` has no statements and no locks in it: a call is open until it commits
all its rows or raises, with or without having committed.

Each of the three is implemented on both sides of an interface, which is what joins
the modules into one model of the bridge:

| Abstract specification | Implemented by the code's module | and by the module that builds on it |
|---|---|---|
| `SliceReplay` | `TripConsumer` (`consumer_concurrent`; `TripConsumerProofs!Refinement`) | `EventBridge` (`EventBridgeProofs!ConsumerSide`) |
| `PartitionDelivery` | `TripProducer` (`producer`; `TripProducerProofs!Refinement`) | `EventBridge` (`EventBridgeProofs!ProducerSide`) |
| `AtomicUpsert` | `PostgresSink` (`sink`; `PostgresSinkProofs!Refinement`) | `TripConsumer` (`TripConsumerProofs!CallsTheSink`) |

### TripConsumer

Each element of `Run` starts runs one after the other. Per run: `pc` is the
place in the function (`capture`, `poll`, `upsert`), and the variables carry the
names of the code's locals. One `Capture` per `get_watermark_offsets` call; one
`Poll` per message, split by what the loop does with it (`PollBeyondWindow`,
`PollInvalid`, `PollOutOfSlice`, `PollDuplicate`, `PollUnique`); `PollTimeout`
for `None`; `Finish` for the end of the loop with the bucket-sum check; `Upsert`
for the commit and the result's checks, `UpsertUnacknowledged` for a commit
whose answer, or whose process, is lost; `Abort` for every exception and for a
crash before the commit. A run has no persistent state, so a crash is an abort.
`Expire` raises a partition's log start; `NextOffset` is what
`auto.offset.reset=earliest` makes of a position that has expired. `log` keeps
the expired records for the properties only.

Abstracted: message contents, headers, logging, the consumer configuration, and
the second integrity check (bucket list and aggregator have one length by
construction).

### TripProducer

A message is one call of `produce()`: `produced` counts the messages a run has made
of a row, and `written` is the set of those that are on their topic, so that a row
produced a second time would be seen as a second record. `status` says how far a row
has come: `unread`,
`queued` (in librdkafka), `acked` or `nacked` (report made, callback not run
yet), `delivered` or `failed` (callback run), `discarded`. `Produce` and `Drain`
are one iteration of the loop; `Flush` returns when everything is reported or
when its 30 s are up, which the model lets happen at any time; `RaiseFailures` looks at
`delivery_failures`, `Return` validates the result. In the background `Send` appends
any message that is not there yet (one that is resent after a lost acknowledgement
changes nothing, because idempotence drops it), `Ack` and `Nack` make reports; a
nacked message may be appended later all the same.

`unfit` holds the arguments of a call that no result can have: a slice out of range
(a blank cab type, a year or a month out of range), which also sends every row to
quarantine because the event contract has the same ranges; and a partition path that
is a single file, which is looked at only when the result is made. `Content` is what
a partition may hold.
`QueueLimit` is librdkafka's `queue.buffering.max.messages`, which counts the
messages whose report has not been served.

The two scans of the partition (`count`, `toLocalIterator`) see one file
listing: a partition rewritten in between makes a read fail (`Abort`), it does
not yield other rows.

### TopicSetup

`EnsureTopics` sends one request for both topics; `TakeAnswer` is one
`fut.result()`, the primary topic's first, and `Raises` says which answers make
the function raise. The broker answers each request by itself: `Create` (with
"exists" for a topic that is there), or `Refuse`, which is also a request that
timed out, and then the topic may have been created. A process that dies while it
waits (`Die`) leaves its requests behind. `ProducerStep` is a step of
`TripProducer` in which a message is appended only to a topic that exists: no
code makes a process ensure the topics before it produces.

### PostgresSink

A call executes its statements in the order of its buckets. A statement locks
its row until the transaction ends and waits while another call holds it.
`DeadlockDetected` is Postgres cancelling a transaction of a cycle, `Fail` any
other error before the commit, `Commit` the commit, after which the call returns
or, if the answer is lost, raises. Postgres' locks are modelled from how the
code uses them and marked external. `UpsertsAreAtomic`, the refinement of
`AtomicUpsert`, is what justifies `CommitBuckets` being one step in `TripConsumer`.

### TableSetup

`CREATE TABLE IF NOT EXISTS` looks for the table and then creates it, which are
not one step. Of two transactions that do not find it, one inserts the name and
the other waits (`Resume`); if the first commits, the second raises a unique
violation ("duplicate"), and the table is there. `CommitTable` and `FailTable`
end the transaction, the former with or without its answer. A statement of an
upsert that finds no table fails (`MissingTable`). A process calls `ensure_table`
between its upserts, not during one.

### BronzeSchema and BronzeIngest

A column is a raw name and a type; `Canonical` says which raw names are one name
after `normalize_bronze_column_name`. `SchemaValid` is the three comparisons of
`validate_against_bronze_schema`; `MatchesContract`, the reference, says what
Bronze must then contain.

`Refuse` is the early raise for a slice that is not supported. A run goes through
`lookup`, `download`, `list`, `sort`, `evict`, `acquired` (acquisition) and `read`,
`write`, `replace`, `count`. The cache directory is the listing in order of
modification time, with the set of files that were downloaded to their end; `Sorted`
is the order of `evict_files`. A file that was cut off is in the listing and not in
the set. Listing, `stat` and each `unlink` of `evict_files` are steps of their own,
because other runs act in between. The three reads of the source file (schema, write
job, count) are `Read`, `Write` and `Count`. `Replace` is the commit of Spark's
dynamic partition overwrite, which deletes the old partition directory and renames
the staged one; `FailBetweenDeleteAndRename` is the process dying in the middle, the
one case in which "the previous state is preserved" is not true. That commit, and
the filesystem, are external.

Assumed: at most one run per file at a time (two would write through one path in
the cache). Each run has the cache limit of its own configuration, 0 included.

### SilverRules and SilverTransform

A double is NULL, NaN or a number of halves, enough to tell integral values from
others. Conditions are Spark's: NULL counts as false, NaN is larger than every
number, `floor(NaN)` is 0. `cast("int")` truncates and, in the ANSI mode that is
the default of the pinned Spark 4, raises on NaN and on overflow; `CastRaises`
says which rows a job casts (the filter needs every passenger count, the output
the rest of the rows it keeps). `Clean` is the contract in terms of the Bronze
row, without phases or casts.

`Refuse` is the early raise for a slice that is not supported.
A run lists the Bronze files when it opens the frame and evaluates the frame five
times: `CountBronze`, the jobs `WriteAccepted` and `WriteRejected`, each with its
commit (`ReplaceAccepted`, `ReplaceRejected`), and `CountOutputs`. An ingestion in
between removes the listed files, and reading fails from then on. `Overwritten`
replaces the partitions that occur in the output, hence none when there is no
row.

### Validation, EventContract and SilverEvents

A Python value is a record of its type and of what the rules see: halves of a
float, an int, the words of a string, the instant and zone of a datetime. A rule
says that a value passes, fails, or makes it raise (`None < 0`), since
`create_validated` runs the rules only when all types are right: `Created` is
"created", "InvalidRequestError" or "TypeError". A bool is an int unless the spec
excludes it, which is why `IntNotBool` is a spec of its own.

`EventContract` goes from a Silver row to a row of the table:
`SilverRequest` and `BronzeRequest`, the ranges of a slice; `EventId`; `EventOf` and
`BuildOutcome`, with the exceptions of a row that has a NULL; `Route`, the topic, or
the exception that leaves the loop; `ToJson`, `FromJson` in the order of its
checks, `Classify`; `BucketCreated`; and `TableTakes`, the types and `CHECK`s of the
DDL. A payload is any record of JSON values; bytes that are no JSON object are the
record without fields.

The id is modelled by the text that is hashed, as the sequence of words between
colons: an ISO timestamp is three words, NULL one empty word. Two texts are equal
exactly when their words are; a minute and a number are taken for words that may
agree ("05" and "5" do not in the code), so that the model's id tells no more rows
apart than the code's. Timestamps count minutes: the seconds are a word that is
always 0. That SHA-256, cut to its length, does not
collide is assumed by calling the text the id.

`SilverEvents` is `SilverTransform` with these functions applied to what
`accepted` holds, so its properties are about rows that a run has really written.

### EventBridge

Composes the others by what they are shown to do: its consumers are `SliceReplay`'s
and its producers `PartitionDelivery`'s, with the topic, Silver and the history
below around them; that they are is proved (`ConsumerSide`, `ProducerSide`). `IdOf` need not be injective;
`Quarantine` holds the rows that Silver accepts and the event contract refuses,
such as those with a NaN fare. `Route` is the partition of a routing key, of
which slice and hour are parts. Three history variables say what "produced, then
counted" means: a slice is `complete` when a producer run that listed its present
rows has returned, a consumer run is `fresh` when it began after that, and a slice
is `settled` while the last publication is that of a fresh run.

## 3. The runs

| Run | Instance | Shows |
|---|---|---|
| `consumer_serialized` | 2 partitions of at most 2 records, 4 events in 2 slices and 2 hours, one invoker | each replay counts its window exactly once; a slice's rows are always those of one window, with no hour left over; counts never shrink |
| `consumer_concurrent` | 1 partition of at most 2 records, 3 events, 2 hours, two overlapping runs | the consumer implements `SliceReplay`: one whole window or nothing; every run ends |
| `consumer_retention` | 2 partitions, 2 events, records expire | only expired records are missed; no row ever counts too much |
| `consumer_expired` | 2 partitions of one record, records expire | **violation of `RunEnds`**, see below |
| `producer` | partitions of 0, 2 and 3 rows, one for quarantine, queue of 2, slices in range or not, partition paths that are a directory or a single file, any topics at the start | ensured topics exist, and a call that nobody refuses returns; a run that returns has delivered exactly once; no row has two records; a result is refused only for an argument, and after delivery; runs implement `PartitionDelivery`; every run ends |
| `producer_overrun` | the same | **violation of `NeverOverruns`**, see below |
| `sink` | 2 clients, 1 slice, 2 hours, counts up to 2, the table there or not | the table is there after `ensure_table`, whoever created it, and every call of it ends; upserts implement `AtomicUpsert`, hold rows only while in progress, and end |
| `bronze` | 2 runs, 3 files (as the contract has it, with other spellings and types, with a column too many), limits 0 and 1, 1 failure | a month is written once, with the contract's columns or not at all; no run touches another month or evicts its own file; the cache is trimmed |
| `bronze_retry` | one run, one failure | **violation of `RerunSucceeds`**, see below |
| `silver` | 2 months, 2 runs, Bronze contents with clean, dirty and uncastable rows, 29 JSON values | silver holds clean rows only; partitions are whole; what a run returns is stored; each row becomes an event, with an id of its own; no change of a field of its payload makes a consumer fail |
| `silver_rerun` | one month, 2 ingestions | **violation of `TablesReconcile`**, see below |
| `bridge` | 1 producer, 2 consumers, 2 slices, rows with equal ids and one for quarantine | a slice that was produced and then counted has the counts of its distinct events, and reconciles with Silver under the named conditions |

Bounds: `MaxLen` bounds the records of a partition (the code has no bound). Two
records per partition give a duplicate within a partition, across partitions, a
record that arrives after the capture in the window's own partition and in an
initially empty one, and an hour or a slice that first appears in a later window.
Two calls and two rows are the smallest deadlock. Three rows against a queue of two
make a full queue, and one row more than it; two rows fit it, and an empty partition
sends nothing. Every safety property of these runs is
proved for all sizes; the liveness properties rest on the runs. `MaxCount` bounds
the counts of the sink's buckets. `MaxFaults` bounds the failures of Bronze runs,
`MaxIngestions` the rewrites of a Bronze month: one rewrite is enough to invalidate
a frame, and a second content to tell a mixture from a half. The rows of `silver`
are chosen for the contract as well: two with one location, which only the place of
the empty word tells apart; a free trip, on the bound of the fare; a NaN fare; and a
pickup in the hour 23. `MCJsonValue` has each bound of each rule and the values next
to it, and one value of every other JSON type. Two consumers against one producer
give an old run that publishes after a fresh one; a producer that fails and starts
again gives duplicates. Deadlock is checked in every run.

`SnapshotWhole` and `CountsNeverShrink` need runs of a slice not to overlap
(`Serialized`; with the one invoker of that run it holds by itself): of two
overlapping runs, the one with the older window may commit last, and a slice
then shows older counts until the next run.
`ReadsEachOffsetOnce` needs the broker to keep the records: the statement of
decision 44 that each range is read exactly once is about topics that do not
expire.

### Fairness

Consumer: weak fairness of `Capture`, of `Poll` per partition, of `Finish` and
`Upsert`: the process keeps running and librdkafka serves every assigned partition
that has records. None for aborts, producers, retention or the next run. Producer:
weak fairness of the driver only; `flush` has its own timeout, so `RunEnds` holds
with a broker that never answers. `ensure_topics`: weak fairness of the wait and of
the answers to its requests, which are refusals when the client's timeout is up. Sink:
strong fairness of each client's next statement, because Postgres queues the
transactions that wait for a row; weak fairness of the deadlock detector and of a
commit that was sent. `ensure_table`: the statements that are sent are executed, and
one that waits for the catalog is resumed even if others keep creating (strong
fairness, since failures may free the name again and again). `bronze_retry` is about
somebody who runs the ingestion again and again: weak fairness of a run's own steps
and strong fairness of every start, with every limit, while failures stop after
`MaxFaults`. Nothing is assumed of Silver or of the bridge, whose properties are
safety.

### Findings

* `consumer_expired`: `_capture_replay_window` ignores the low watermark and
  keeps every partition with `high > 0`. A partition whose records have all
  expired has `low = high > 0`; the loop waits for offset `high - 1`, which no
  poll will ever return, and times out forever. The topics are created without
  a retention setting.
* `producer_overrun`: `poll(0)` does not wait, so a broker slower than the
  iteration lets librdkafka's queue fill up, and `produce()` raises
  `BufferError`; the docstring promises `KafkaException`.
* `bronze_retry`: a download writes straight to the cache path, and any file that
  exists there is a hit. After a download was cut off, every later run of that
  month with the cache enabled fails to read it; `ingest_bronze_month` promises
  that re-execution is always safe.
* `silver_rerun`: a rerun that rejects nothing has no rejected row to write, so
  dynamic overwrite leaves the rejected partition of the previous run in place
  (and likewise the accepted one). The result reconciles, since it counts frames;
  the tables hold more rows than Bronze, against decision 27 of the design log.

Three more things the models show and no run of its own is needed for. The producer
checks its arguments only in the result it returns: a partition path that is a single
file is read, produced and flushed like any other, and then the result is refused
(`producer/trip_completed.py:139`), although the docstring has the function "callable
against any path layout the caller chooses to materialize" (`:439-441`); and a slice
out of range puts the whole partition on the quarantine topic before it is refused.
`RefusedOnlyForArguments` says that this is the only way to that exception, and that
everything has been delivered then: the caller's retry would produce it all again.
`is_reconciled`
compares numbers, so leftover events of a rewritten month and rows in quarantine
can cancel out. And a NaN passenger count, although tagged or rejectable, aborts
the whole month, because the cast raises first.

## 4. The proofs

All for arbitrary constants, under the named assumptions of the modules.

* `TripConsumerProofs`. `IInv` adds to the types, per run in progress: the
  window lies between the topic at the start and the topic now (`Windowed`); the
  highest offset read is inside the window and before the next fetch
  (`Positioned`); the seen-set holds only records that were read (`SeenSound`)
  and every in-slice one that was fetched and had not expired (`SeenComplete`);
  the buckets are the hourly counts of the seen-set (`Aggregated`). None of the
  properties is inductive alone: that a row never counts too much needs the
  aggregator of every run in progress to be explained by records of the topic.
  From it: `TypeCorrect`, `NoOvercount`, `OnlyExpiredAreLost`. The counters add up in
  every state (`AllCounted`), and at the sink the hourly counts of the seen-set add up
  to its size, so `ChecksNeverFail`.

  While nothing expires, the seen-set is exactly `UniqueEvents` of what was read
  (`SeenExactly`), so `ReplayIsExact`; at the sink that is the whole window
  (`WholeWindow`), so `Upsert` is a `Publish`, an ending without a commit is a
  `WriteNothing`, and all else stutters: `Refinement`. Fetches are contiguous
  (`Contiguous`), so `EachOffsetOnce`; and an unfinished run has a record of its
  window still to fetch (`NeverRunsDry`), which is the safety core of `RunEnds` and
  the reason why `consumer_expired` takes retention. `CallsTheSink` maps the commits
  and the exceptions of a run to `AtomicUpsert`, without assuming anything of
  retention.

  While moreover the runs of a slice take turns, the rows of a slice are those of a
  window that every later run's window contains (`SInv`, `ShowsOneWindow`), from
  which `WholeSnapshots` and `NeverShrink`: an hour of the old window is one of the
  new window, so it is overwritten, and by no smaller count.
* `EventLogProofs`. A larger set has larger counts, and the hourly counts of a set
  add up to its size (`CountsAddUp`). The sum is the community modules' recursion
  over a set; what that recursion computes is shown by a smallest counterexample,
  which needs no induction theorem. This is where hours must be finitely many
  (`EventLogAssumption`).
* `TripProducerProofs`. `IInv` says per row what its status means for the topic
  (`OnTopic`: one message once it has been read, none before, and on the topic when
  reported so), how far a row can be at each place of the driver (`Reached`), and
  that rows counted and rows unread add up to the partition (`Counted`).
  From it: `Delivered`; `AtMostOnce`, because no status ever leads back to `unread`;
  and `RefusedForArguments`, because the counts add up when the loop has ended and
  every row is delivered once no failure was found. `Refinement`: a row leaves what is
  unsent in the step that appends its message, of which there is one;
  and nothing is unsent when a run returns, because
  its failures would have been counted. `OverrunsTakeRows` counts the queue against
  the partition, so `QueueSuffices`: a partition that fits the queue never ends in a
  `BufferError`, and `producer_overrun` takes one that does not. `SetupRefinesProducer`: each
  step of `TopicSetup` is one of `TripProducer` or leaves its variables alone, which
  carries these over. `TopicsExist` needs that a "created" or "exists" of an answer
  was true, and stays so, and that a call has passed the primary topic's answer when
  it waits for the other.
* `PostgresSinkProofs`. `IInv` ties each lock, and the uncommitted count under it,
  to a statement its call has executed. From it `LocksCorrect`, and `Refinement`: a
  transaction that commits holds the rows of its buckets, all of them and no other, so
  it is a `Commit` of `AtomicUpsert`; every statement before it stutters. Hence
  `ReturnedCommitted`. `SortedNeverDeadlocks`: along a circle of waiting calls the
  hours waited for would ascend for ever, so a circle takes calls whose buckets come in
  different orders, as the aggregator's do, whatever the number of calls. (A circle is a
  set of calls each waiting for another of the set; that this is when the model's
  `Deadlocked` holds, a recursive definition, was compared by TLC for three clients and
  three hours.) `TableRefinesSink` carries them over
  to `TableSetup`; `TableExists` needs that a process about to commit has found the
  table or is the one that created it.
* `BronzeIngestProofs`. `ValidMeansCanonical` is about the contract alone: the
  set comparison makes the renaming injective and onto, the per-field check makes
  the types compatible; `SchemaCheckExact` is its converse as well, so no file is
  refused that renaming would have made the contract's. `IInv`: no two runs in progress are for one file, which
  makes a run's partition its own; what is written has been validated; until the
  overwrite the partition is what the run found. From it: `NoDouble`, `Canonicals`,
  `CleanOrPreserved`; the cache plays no part in them.

  The cache has an invariant of its own (`CInv`): a run that nobody has overlapped is
  the only one in progress (`Sole`), its file is the newest from the first byte of the
  download until the files are sorted, and the files it is to evict are others, as many
  as there are too many (`OwnCopy`). It needs what `RemoveFirst` and `Append` do to a
  listing, that a listing has as many entries as files, and that any set of its files
  can be sorted (`SortedExists`, again by a smallest counterexample). From it:
  `TypeCorrect`, `OwnFileKept`, `Trimmed`.
* `SilverTransformProofs`. First the rules: halves, floor and cast by arithmetic,
  then `AcceptedIffClean`, for every row. The inductive invariant is `FramesListed`
  (a run in progress holds an ingestion of its month) with the types, and
  `PartitionsWhole` on top of it, from which, with the rules, `AcceptedAreClean`.
  `ResultValid`: the halves of a finite set add up, so the result's check never
  raises after both tables have been written. `SInv` follows a run between its two
  commits: runs of one month take turns, so what it stored stays stored until it
  returns (`ReturnedStored`); `OwnMonthOnly` reads the two commits off `Next`.
  `ReconcileIff` says when the promise that `silver_rerun` refutes does hold: the halves
  are exact and the tables hold at least them, so the sums are equal exactly when no
  empty half has kept an older partition; in particular where every content has rows
  for both tables (`BothHalvesReconcile`).
* `EventContractProofs`. Most is about functions, for all values, with no state.
  `EventsFitTheTable`, `ReadingNeverRaises`: the type checks come first, so each rule
  has a verdict; then the ranges are compared. `PayloadsNeverBreakARun` puts them
  together for any payload of JSON values. `IdsTellRowsApart` peels the text word by
  word: each of its ten parts is one word or three, and the first word tells which,
  so equal concatenations have equal heads and equal rests. The state comes in
  through `AcceptedAreClean`: the casts do not change a clean row, so that its
  event has every type and range, and `SilverRowsBecomeEvents`,
  `SilverIdsUnambiguous` and `SilverRecordsNeverBreakARun` follow for every state of
  `SilverTransform`.
* `EventBridgeProofs`. `SettledIsExact` is far from inductive. `IInv` follows a row:
  what a producer run listed and need not send any more is on the topic
  (`SentIsOnTopic`); a complete slice is (`CompleteOnTopic`); a fresh run finds it
  below the offsets it began with (`FreshInWindow`), hence in its window; no count
  exceeds the topic (`NeverOvercounts`). From it: `NothingLost` and `Exact`, and with
  `CountsAddUp` that a settled slice reconciles (`Reconcile`). `ConsumerSide` and
  `ProducerSide` map its steps to those of the two abstract specifications, so that
  nothing these theorems rest on is something the detailed modules do not do.

Only model-checked: liveness (`RunEnds` of consumer and producer, `CallEnds`,
`EnsureConverges`), which needs ENABLED and fairness and is out of this prover's
reach (`NeverRunsDry` and `SortedNeverDeadlocks` are safety parts of two of them); and
the four violations, which are counterexamples, three of which have their exact or a
sufficient condition proved (`NeverRunsDry`, `QueueSuffices`, `ReconcileIff`). Every invariant and every
action property of the passing runs is proved.

## 5. Not modelled, and what remains

Components left out: `nyc_cab/config.py` and the two `_env` helpers read
environment variables once into frozen values, and differ only in the texts they
accept; the Spark session is one builder call; the command line is a stub that
prints a message; experiments, metrics, quality, Gold and the orchestration are
empty files.

Of the modelled parts: the wording of violations and logs; message headers; the file
paths and URLs of a slice, and which slices are supported; Spark's execution; the
Kafka group protocol (partitions are assigned, not subscribed); a broker that loses
acknowledged records; changes of the partition count; the limits of the JSON parser
(nesting, digits of a number); the number of arguments of `create_validated`, which
every call gets right; collisions of the hash. Two ingestions of one file, which
would write one path of the cache together, and two transforms of one month, at a
time; messages of an older failed run of the same invoker that arrive after its next
start (a second producer covers late arrivals in general).

Bronze accepts the identifiers in any numeric type of the contract's family. Silver
casts `passenger_count` and `RatecodeID` only, so the others keep the type Bronze has
given them; the event contract's model has them as integers.

The repository has no other code that keeps state. What would extend the models is
what the runs assume away: overlapping runs of one file or of one month, and several
consumers that share a slice beyond the refinement, where the code promises nothing.

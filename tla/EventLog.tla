------------------------------ MODULE EventLog ------------------------------
(***************************************************************************)
(* The vocabulary shared by every module about the event bridge: what the  *)
(* topic trip.completed.v1 holds, and what a replay of it amounts to.      *)
(*                                                                         *)
(* An event id is the truncated SHA-256 of ten source-row fields           *)
(* (contracts/events.py, EVENT_ID_HASH_FIELDS), among them the cab type,   *)
(* the year, the month and the pickup time.  The id of an event therefore  *)
(* determines its slice and its hour, and a record on the topic is an      *)
(* event id or a payload that from_json refuses.                           *)
(***************************************************************************)
EXTENDS Integers, Sequences, FiniteSets

CONSTANTS
  Partition,   \* partition ids of the topic, as the broker's metadata lists them
  EventId,     \* the event ids (64 bits: a finite set)
  Invalid,     \* a record whose payload is None or fails from_json
  Slice,       \* the (cab_type, year, month) triples
  Hour,        \* the hours of the day
  SliceOf,     \* the slice an event belongs to
  HourOf       \* the hour an event belongs to

ASSUME EventLogAssumption ==
  /\ Partition \subseteq Nat
  /\ Partition # {}
  /\ IsFiniteSet(Partition)
  /\ IsFiniteSet(EventId)
  /\ IsFiniteSet(Hour)
  /\ Invalid \notin EventId
  /\ SliceOf \in [EventId -> Slice]
  /\ HourOf \in [EventId -> Hour]

Message == EventId \cup {Invalid}

InSlice(s, m) == m \in EventId /\ SliceOf[m] = s

\* The end offset of every partition: the high watermarks of the topic.
Ends(lg) == [p \in Partition |-> Len(lg[p])]

\* Every way to cut the topic into one prefix per partition.
Windows(lg) ==
  {w \in [Partition -> UNION {0..Len(lg[p]) : p \in Partition}] :
     \A p \in Partition : w[p] <= Len(lg[p])}

\* The distinct events of slice s among the first upto[p] records of each
\* partition p: the seen-set a replay of those records ends with.
UniqueEvents(lg, upto, s) ==
  {e \in EventId : /\ InSlice(s, e)
                   /\ \E p \in Partition : \E i \in 1..upto[p] : lg[p][i] = e}

CountAt(ids, h) == Cardinality({e \in ids : HourOf[e] = h})

HourCounts(ids) == [h \in Hour |-> CountAt(ids, h)]

(***************************************************************************)
(* ON CONFLICT DO UPDATE SET event_count = EXCLUDED.event_count for one    *)
(* bucket per counted hour.  A row is its event count, and 0 stands for a  *)
(* row that was never inserted: no bucket has a count of 0, and SUM cannot *)
(* tell the two apart.  Rows of hours without a bucket are left alone.     *)
(***************************************************************************)
Overwrite(rows, counts) ==
  [h \in Hour |-> IF counts[h] > 0 THEN counts[h] ELSE rows[h]]

=============================================================================

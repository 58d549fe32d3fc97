----------------------------- MODULE SilverEvents -----------------------------
(***************************************************************************)
(* What the event contract makes of the silver table: the rows that the    *)
(* Silver transform has accepted, under a slice of a validated request,    *)
(* as events, payloads, and rows of trip_completed_hourly.                 *)
(***************************************************************************)
EXTENDS SilverTransform, EventContract

CONSTANTS
  Now,        \* when the producer runs
  JsonValue   \* the values that may stand in a payload

ASSUME SilverEventsAssumption ==
  /\ Month \subseteq Slice
  /\ \A m \in Month : SilverRequest(m) = "created"
  /\ Now \in Int
  /\ \A v \in JsonValue : IsJson(v)

\* The event of a row, which Silver holds with its columns cast.
Event(row, m) == EventOf(Normalized(row), m, Now)

\* A row becomes an event, whose payload reads back as the event and counts in
\* its own slice and no other.
BecomesEvent(row, m) ==
  /\ Route(Normalized(row), m, Now) = "primary"
  /\ Parsed(ToJson(Event(row, m))) = Event(row, m)
  /\ \A s \in Month : Classify(ToJson(Event(row, m)), s) =
                        IF s = m THEN "in_slice" ELSE "out_of_slice"

\* The rows for which the producer does what Silver's acceptance promises: a row
\* becomes an event, or is quarantined for a NaN that no comparison of Silver's
\* catches.
Producible ==
  {row \in UNION Contents : \A m \in Month :
     IF NaN \in {row.fare_amount, row.trip_distance}
     THEN Route(Normalized(row), m, Now) = "quarantine"
     ELSE BecomesEvent(row, m)}

\* Each row of silver is one of them; in particular none raises out of the
\* producer's loop (float(None), None.hour), which only catches KeyError and
\* InvalidRequestError.
AcceptedBecomeEvents == \A m \in Month : accepted[m].rows \subseteq Producible

SameHashed(x, y) ==
  /\ x.VendorID = y.VendorID
  /\ x.pickup = y.pickup
  /\ x.dropoff = y.dropoff
  /\ x.PULocationID = y.PULocationID
  /\ x.DOLocationID = y.DOLocationID
  /\ x.fare_amount = y.fare_amount
  /\ x.total_amount = y.total_amount

\* Rows that differ in a hashed field, or in their slice, have different texts to
\* hash, although timestamps contain the separator and NULL is the empty text:
\* "the embedded colons inside individual field strings do not create ambiguity".
IdsUnambiguous ==
  \A m, k \in Month : \A x \in accepted[m].rows : \A y \in accepted[k].rows :
    EventId(Normalized(x), m) = EventId(Normalized(y), k) => m = k /\ SameHashed(x, y)

\* A payload with a field less, a field more, or a field of another value.
Shortened(payload) ==
  {[f \in DOMAIN payload \ {g} |-> payload[f]] : g \in DOMAIN payload}

Extended(payload) ==
  {[f \in DOMAIN payload \cup {"extra"} |->
      IF f = "extra" THEN v ELSE payload[f]] : v \in JsonValue}

Altered(payload) ==
  {[payload EXCEPT ![f] = v] : f \in DOMAIN payload, v \in JsonValue}

Corruptions(payload) == Shortened(payload) \cup Extended(payload) \cup Altered(payload)

\* A consumer of slice s gets over the payload: it is classified, and what it
\* counts makes a bucket and a row the table takes.
GetsOver(data, s) ==
  /\ Classify(data, s) \in {"invalid", "out_of_slice", "in_slice"}
  /\ Classify(data, s) = "in_slice" =>
       /\ BucketCreated(BucketOf(Parsed(data), 1)) = "created"
       /\ TableTakes(BucketOf(Parsed(data), 1))

\* The rows no corruption of whose payload fails a consumer.
Robust ==
  {row \in UNION Contents : \A m, s \in Month :
     \A data \in Corruptions(ToJson(Event(row, m))) : GetsOver(data, s)}

\* Whatever becomes of the payload of a row, "the classification never raises",
\* and an event that passes the contract never fails later, at the construction
\* of its bucket or at the database, where it would fail the replay of a slice.
RecordsNeverBreakARun == \A m \in Month : accepted[m].rows \subseteq Robust

=============================================================================

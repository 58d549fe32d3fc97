---------------------------- MODULE EventContract ----------------------------
(***************************************************************************)
(* The contract of trip.completed.v1                                       *)
(* (nyc_cab_events/contracts/events.py), from a row of the silver table to *)
(* a row of trip_completed_hourly: the event a row becomes, its id, its    *)
(* JSON payload, what a consumer makes of any payload, and the bucket and  *)
(* table row it counts towards.  A slice is the year and month of a        *)
(* request; there is one cab type.                                         *)
(***************************************************************************)
EXTENDS SilverRules, Validation

CabType == <<"yellow">>

SchemaVersion == <<"1">>

Slice == [year : Int, month : Int]

-----------------------------------------------------------------------------
(* Requests for a slice.                                                   *)

RequestSpecs ==
  [cab_type |-> Exactly("str"), year |-> IntNotBool, month |-> IntNotBool]

RequestFor(s) ==
  [cab_type |-> PyStr(CabType), year |-> PyInt(s.year), month |-> PyInt(s.month)]

BronzeRequest(s) ==
  Created(RequestSpecs, RequestFor(s),
    [cab_type |-> NotBlank(PyStr(CabType)),
     year     |-> Within(PyInt(s.year), 1970, 2050),
     month    |-> Within(PyInt(s.month), 1, 12)])

SilverRequest(s) ==
  Created(RequestSpecs, RequestFor(s),
    [cab_type |-> NotBlank(PyStr(CabType)),
     year     |-> Within(PyInt(s.year), 1900, 2100),
     month    |-> Within(PyInt(s.month), 1, 12)])

-----------------------------------------------------------------------------
(* The id: the hash of the fields' texts joined by colons.  A text is the  *)
(* sequence of words the colons split the joined text into: an ISO         *)
(* timestamp is three, NULL is one empty word.  Different words have       *)
(* different texts, except that a minute and a number may agree.  The      *)
(* payload stands for its hash.                                            *)

Word(kind, value) == [kind |-> kind, value |-> value]

\* Fault: a NULL leaves no word.
TextSkippingNull(kind, x) == IF x = Null THEN << >> ELSE <<Word(kind, x)>>

Text(kind, x) == IF x = Null THEN <<Word("empty", Null)>> ELSE <<Word(kind, x)>>

IsoText(t) ==
  IF t = Null THEN Text("hour", t)
  ELSE <<Word("hour", t \div 60), Word("number", t % 60), Word("number", 0)>>

\* derive_event_id.
EventId(row, s) ==
  Text("text", CabType) \o
    (Text("number", s.year) \o
      (Text("number", s.month) \o
        (Text("number", row.VendorID) \o
          (IsoText(row.pickup) \o
            (IsoText(row.dropoff) \o
              (Text("number", row.PULocationID) \o
                (Text("number", row.DOLocationID) \o
                  (Text("float", row.fare_amount) \o
                    Text("float", row.total_amount)))))))))

-----------------------------------------------------------------------------
(* The event.                                                              *)

EventSpecs ==
  [event_id |-> Exactly("str"), schema_version |-> Exactly("str"),
   cab_type |-> Exactly("str"),
   year |-> IntNotBool, month |-> IntNotBool, hour |-> IntNotBool,
   trip_distance |-> Exactly("float"), fare_amount |-> Exactly("float"),
   passenger_count |-> IntNotBool, produced_at |-> Exactly("datetime")]

EventChecks(e) ==
  [event_id        |-> NotBlank(e.event_id),
   schema_version  |-> Verdict(PyEqual(e.schema_version, PyStr(SchemaVersion))),
   cab_type        |-> NotBlank(e.cab_type),
   year            |-> Within(e.year, 1900, 2100),
   month           |-> Within(e.month, 1, 12),
   hour            |-> Within(e.hour, 0, 23),
   trip_distance   |-> AtLeast(e.trip_distance, 0),
   fare_amount     |-> AtLeast(e.fare_amount, 0),
   passenger_count |-> Within(e.passenger_count, 0, 9),
   produced_at     |-> Aware(e.produced_at)]

EventCreated(e) == Created(EventSpecs, e, EventChecks(e))

\* The hour of the pickup.
HourOf(t) == (t \div 60) % 24

\* What _build_event_from_silver_row passes on for a row of the silver table.
EventOf(row, s, now) ==
  [event_id        |-> PyStr(EventId(row, s)),
   schema_version  |-> PyStr(SchemaVersion),
   cab_type        |-> PyStr(CabType),
   year            |-> PyInt(s.year),
   month           |-> PyInt(s.month),
   hour            |-> PyInt(HourOf(row.pickup)),
   trip_distance   |-> PyFloat(row.trip_distance),
   fare_amount     |-> PyFloat(row.fare_amount),
   passenger_count |-> PyInt(row.passenger_count \div 2),
   produced_at     |-> PyDatetime(now, TRUE)]

\* Building raises on a None: None.hour, float(None), int(None).
BuildOutcome(row, s, now) ==
  IF row.pickup = Null THEN "AttributeError"
  ELSE IF Null \in {row.trip_distance, row.fare_amount, row.passenger_count}
  THEN "TypeError"
  ELSE EventCreated(EventOf(row, s, now))

\* _route_silver_row: the topic of the row, or the exception that leaves it.
Route(row, s, now) ==
  LET outcome == BuildOutcome(row, s, now) IN
  CASE outcome = "created" -> "primary"
    [] outcome \in {"KeyError", "InvalidRequestError"} -> "quarantine"
    [] OTHER -> outcome

-----------------------------------------------------------------------------
(* The payload: a JSON object is a record of Python values.  Bytes that    *)
(* are no UTF-8, no JSON, or no object stand as an object without fields:  *)
(* all are refused before a field is looked at.                            *)

IsoWords(t) == <<"iso", t.value[1], t.value[2]>>

ToJson(e) == [e EXCEPT !.produced_at = PyStr(IsoWords(@))]

\* datetime.fromisoformat.
IsIso(words) == Len(words) = 3 /\ words[1] = "iso"

IsoError(v) ==
  IF v.type # "str" THEN "TypeError"
  ELSE IF ~IsIso(v.value) THEN "ValueError"
  ELSE "none"

\* What json.loads makes of a field: no datetime, and ISO texts with a zone or
\* without.
IsJson(v) ==
  /\ v.type # "datetime"
  /\ v.type \in {"int", "bool"} => v.value \in Int
  /\ v.type = "float" => v.value = NaN \/ v.value \in Int
  /\ v.type = "str" /\ IsIso(v.value) => v.value[3] \in BOOLEAN

FromIso(v) == PyDatetime(v.value[2], v.value[3])

Parsed(data) == [data EXCEPT !.produced_at = FromIso(@)]

\* from_json: "event", or the exception that is raised.
FromJson(data) ==
  IF DOMAIN data # DOMAIN EventSpecs THEN "InvalidEventPayloadError"
  ELSE IF ~PyEqual(data.schema_version, PyStr(SchemaVersion))
  THEN "InvalidEventPayloadError"
  ELSE IF IsoError(data.produced_at) \in {"TypeError", "ValueError"}
  THEN "InvalidEventPayloadError"
  ELSE IF ~FromIso(data.produced_at).value[2] THEN "InvalidEventPayloadError"
  ELSE LET outcome == EventCreated(Parsed(data)) IN
       CASE outcome = "created" -> "event"
         [] outcome = "InvalidRequestError" -> "InvalidEventPayloadError"
         [] OTHER -> outcome

\* _classify_message for slice s.
Classify(data, s) ==
  LET outcome == FromJson(data) IN
  CASE outcome = "InvalidEventPayloadError" -> "invalid"
    [] outcome = "event" ->
         IF /\ PyEqual(data.cab_type, PyStr(CabType))
            /\ PyEqual(data.year, PyInt(s.year))
            /\ PyEqual(data.month, PyInt(s.month))
         THEN "in_slice" ELSE "out_of_slice"
    [] OTHER -> outcome

-----------------------------------------------------------------------------
(* The bucket and the row of the table.                                    *)

BucketSpecs ==
  [cab_type |-> Exactly("str"), year |-> IntNotBool, month |-> IntNotBool,
   hour |-> IntNotBool, event_count |-> IntNotBool]

\* The aggregator's key of an event, with a count.
BucketOf(e, n) ==
  [cab_type |-> e.cab_type, year |-> e.year, month |-> e.month, hour |-> e.hour,
   event_count |-> PyInt(n)]

BucketCreated(b) ==
  Created(BucketSpecs, b,
    [cab_type    |-> NotBlank(b.cab_type),
     year        |-> Within(b.year, 1900, 2100),
     month       |-> Within(b.month, 1, 12),
     hour        |-> Within(b.hour, 0, 23),
     event_count |-> AtLeast(b.event_count, 0)])

\* v BETWEEN low AND high, of an integer column.
Between(v, low, high) ==
  v.type = "int" /\ v.value \in Int /\ low <= v.value /\ v.value <= high

\* The types and the CHECKs of the table.
TableTakes(b) ==
  /\ b.cab_type.type = "str"
  /\ Between(b.year, 1900, 2100)
  /\ Between(b.month, 1, 12)
  /\ Between(b.hour, 0, 23)
  /\ b.event_count.type = "int" /\ b.event_count.value \in Nat

=============================================================================

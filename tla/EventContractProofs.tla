------------------------- MODULE EventContractProofs -------------------------
(***************************************************************************)
(* Theorems about the event contract, for every row, slice, payload and    *)
(* count, and about what Silver holds.                                     *)
(*                                                                         *)
(* The structural rules raise on values of a wrong type only, and the type *)
(* checks come first: so what a payload with any values meets is an event  *)
(* or a refusal, and an event's fields are in the ranges that the bucket   *)
(* and the table ask for once more.  A row that Silver accepts has the     *)
(* values those rules want.                                                *)
(***************************************************************************)
EXTENDS SilverEvents, SilverTransformProofs, SequenceTheorems

-----------------------------------------------------------------------------
(* Requests.                                                               *)

\* A request for a slice is valid when its year and month are in range.
LEMMA RequestRanges ==
  ASSUME NEW s \in Slice
  PROVE  /\ BronzeRequest(s) = "created" <=> s.year \in 1970..2050 /\ s.month \in 1..12
         /\ SilverRequest(s) = "created" <=> s.year \in 1900..2100 /\ s.month \in 1..12
<1>1. s.year \in Int /\ s.month \in Int
  BY DEF Slice
<1>2. TypeViolations(RequestSpecs, RequestFor(s)) = {}
  BY DEF TypeViolations, RequestSpecs, RequestFor, IsInstance, Exactly, IntNotBool,
         PyInt, PyStr
<1>3. NotBlank(PyStr(CabType)) = "passes"
  BY DEF NotBlank, PyStr, CabType, Verdict
<1>4. ASSUME NEW n \in Int, NEW low \in Int, NEW high \in Int
      PROVE  Within(PyInt(n), low, high) = IF n \in low..high THEN "passes" ELSE "fails"
  BY <1>4 DEF Within, PyInt, IsNumber, Halves, Verdict
<1>5. ASSUME NEW y \in {"passes", "fails"}, NEW m \in {"passes", "fails"}
      PROVE  Validate([cab_type |-> "passes", year |-> y, month |-> m]) = "created"
               <=> y = "passes" /\ m = "passes"
  BY <1>5 DEF Validate
<1>6. ASSUME NEW low \in Int, NEW high \in Int
      PROVE  Created(RequestSpecs, RequestFor(s),
               [cab_type |-> NotBlank(PyStr(CabType)),
                year     |-> Within(PyInt(s.year), low, high),
                month    |-> Within(PyInt(s.month), 1, 12)]) = "created"
             <=> s.year \in low..high /\ s.month \in 1..12
  <2>1. /\ Within(PyInt(s.year), low, high) \in {"passes", "fails"}
        /\ Within(PyInt(s.month), 1, 12) \in {"passes", "fails"}
        /\ Within(PyInt(s.year), low, high) = "passes" <=> s.year \in low..high
        /\ Within(PyInt(s.month), 1, 12) = "passes" <=> s.month \in 1..12
    BY <1>1, <1>4, <1>6
  <2> QED
    BY <1>2, <1>3, <1>5, <2>1 DEF Created
<1> QED
  BY <1>6 DEF BronzeRequest, SilverRequest

\* Each slice Bronze takes a request for, Silver does too.
THEOREM BronzeSlicesSuitSilver ==
  ASSUME NEW s \in Slice, BronzeRequest(s) = "created"
  PROVE  SilverRequest(s) = "created"
BY RequestRanges

-----------------------------------------------------------------------------
(* Events and buckets.                                                     *)

\* The type of a field whose value violates no spec.
LEMMA FieldTypes ==
  ASSUME NEW specs, NEW args, TypeViolations(specs, args) = {},
         NEW f \in DOMAIN specs
  PROVE  /\ specs[f] = IntNotBool => args[f].type = "int"
         /\ \A type \in {"str", "float", "datetime"} :
              specs[f] = Exactly(type) => args[f].type = type
<1>1. /\ IsInstance(args[f], specs[f].required)
      /\ ~IsInstance(args[f], specs[f].excluded)
  BY DEF TypeViolations
<1> QED
  BY <1>1 DEF IsInstance, IntNotBool, Exactly

\* A rule has a verdict on a value of the right type.
LEMMA RuleVerdicts ==
  ASSUME NEW v, NEW low, NEW high
  PROVE  /\ v.type = "str" => NotBlank(v) \in {"passes", "fails"}
         /\ v.type \in {"int", "float"} => Within(v, low, high) \in {"passes", "fails"}
         /\ v.type \in {"int", "float"} => AtLeast(v, low) \in {"passes", "fails"}
         /\ v.type = "datetime" => Aware(v) \in {"passes", "fails"}
<1>1. \A P \in BOOLEAN : Verdict(P) \in {"passes", "fails"}
  BY DEF Verdict
<1>2. v.type \in {"int", "float"} => IsNumber(v)
  BY DEF IsNumber
<1>3. v.type = "str" => NotBlank(v) \in {"passes", "fails"}
  BY DEF NotBlank, Verdict
<1>4. v.type = "datetime" => Aware(v) \in {"passes", "fails"}
  BY Zenon DEF Aware, Verdict
<1>5. IsNumber(v) => Within(v, low, high) \in {"passes", "fails"}
  BY Zenon DEF Within, Verdict
<1>6. IsNumber(v) => AtLeast(v, low) \in {"passes", "fails"}
  BY Zenon DEF AtLeast, Verdict
<1> QED
  BY <1>2, <1>3, <1>4, <1>5, <1>6

\* What the rules say of an int.
LEMMA IntRules ==
  ASSUME NEW v, v.type = "int", v.value \in Int, NEW low \in Int, NEW high \in Int
  PROVE  /\ Within(v, low, high) = IF Between(v, low, high) THEN "passes" ELSE "fails"
         /\ AtLeast(v, low) = IF v.value >= low THEN "passes" ELSE "fails"
<1>1. IsNumber(v) /\ Halves(v) = 2 * v.value
  BY DEF IsNumber, Halves
<1>2. /\ Halves(v) \in Int
      /\ 2 * low <= Halves(v) <=> low <= v.value
      /\ Halves(v) <= 2 * high <=> v.value <= high
      /\ Halves(v) >= 2 * low <=> v.value >= low
  BY <1>1
<1> QED
  BY <1>1, <1>2 DEF Within, AtLeast, Between, Verdict

\* The rules of an event have a verdict on values of the right types.
LEMMA EventVerdicts ==
  ASSUME NEW e, TypeViolations(EventSpecs, e) = {}
  PROVE  \A f \in DOMAIN EventChecks(e) : EventChecks(e)[f] \in {"passes", "fails"}
<1>1. /\ e.event_id.type = "str"
      /\ e.cab_type.type = "str"
      /\ e.year.type = "int"
      /\ e.month.type = "int"
      /\ e.hour.type = "int"
      /\ e.trip_distance.type = "float"
      /\ e.fare_amount.type = "float"
      /\ e.passenger_count.type = "int"
      /\ e.produced_at.type = "datetime"
  BY FieldTypes DEF EventSpecs
<1>2. /\ NotBlank(e.event_id) \in {"passes", "fails"}
      /\ NotBlank(e.cab_type) \in {"passes", "fails"}
      /\ Aware(e.produced_at) \in {"passes", "fails"}
      /\ Verdict(PyEqual(e.schema_version, PyStr(SchemaVersion))) \in {"passes", "fails"}
  BY <1>1, RuleVerdicts DEF Verdict
<1>3. /\ Within(e.year, 1900, 2100) \in {"passes", "fails"}
      /\ Within(e.month, 1, 12) \in {"passes", "fails"}
      /\ Within(e.hour, 0, 23) \in {"passes", "fails"}
      /\ AtLeast(e.trip_distance, 0) \in {"passes", "fails"}
      /\ AtLeast(e.fare_amount, 0) \in {"passes", "fails"}
      /\ Within(e.passenger_count, 0, 9) \in {"passes", "fails"}
  BY <1>1, RuleVerdicts
<1> QED
  BY <1>2, <1>3 DEF EventChecks

\* An event that passes has an hour, a month and a year in range.
LEMMA EventRanges ==
  ASSUME NEW e, EventCreated(e) = "created", e.year.type = "int" => e.year.value \in Int,
         e.month.type = "int" => e.month.value \in Int,
         e.hour.type = "int" => e.hour.value \in Int
  PROVE  /\ e.cab_type.type = "str" /\ e.cab_type.value # << >>
         /\ Between(e.year, 1900, 2100)
         /\ Between(e.month, 1, 12)
         /\ Between(e.hour, 0, 23)
<1>1. TypeViolations(EventSpecs, e) = {}
  BY DEF EventCreated, Created
<1>2. Validate(EventChecks(e)) = "created"
  BY <1>1 DEF EventCreated, Created
<1>3. /\ e.cab_type.type = "str"
      /\ e.year.type = "int"
      /\ e.month.type = "int"
      /\ e.hour.type = "int"
  BY <1>1, FieldTypes DEF EventSpecs
<1>4. /\ EventChecks(e).cab_type # "fails"
      /\ EventChecks(e).year # "fails"
      /\ EventChecks(e).month # "fails"
      /\ EventChecks(e).hour # "fails"
  BY <1>2 DEF Validate, EventChecks
<1>5. /\ NotBlank(e.cab_type) # "fails"
      /\ Within(e.year, 1900, 2100) # "fails"
      /\ Within(e.month, 1, 12) # "fails"
      /\ Within(e.hour, 0, 23) # "fails"
  BY <1>4 DEF EventChecks
<1>6. e.cab_type.value # << >>
  BY <1>3, <1>5 DEF NotBlank, Verdict
<1>7. /\ Between(e.year, 1900, 2100)
      /\ Between(e.month, 1, 12)
      /\ Between(e.hour, 0, 23)
  BY <1>3, <1>5, IntRules
<1> QED
  BY <1>3, <1>6, <1>7

\* What the table takes is a valid bucket.
LEMMA TableTakesBuckets ==
  ASSUME NEW b, TableTakes(b), b.cab_type.value # << >>
  PROVE  BucketCreated(b) = "created"
<1>1. TypeViolations(BucketSpecs, b) = {}
  BY DEF TypeViolations, BucketSpecs, IsInstance, Exactly, IntNotBool, TableTakes, Between
<1>2. NotBlank(b.cab_type) = "passes"
  BY DEF NotBlank, Verdict, TableTakes
<1>3. ASSUME NEW v, NEW low \in Int, NEW high \in Int, Between(v, low, high)
      PROVE  Within(v, low, high) = "passes"
  <2>1. v.type = "int" /\ v.value \in Int
    BY <1>3 DEF Between
  <2> QED
    BY <1>3, <2>1, IntRules
<1>4. /\ Within(b.year, 1900, 2100) = "passes"
      /\ Within(b.month, 1, 12) = "passes"
      /\ Within(b.hour, 0, 23) = "passes"
  BY <1>3 DEF TableTakes
<1>5. AtLeast(b.event_count, 0) = "passes"
  <2>1. ASSUME NEW v, v.type = "int", v.value \in Nat
        PROVE  AtLeast(v, 0) = "passes"
    <3>1. v.value \in Int /\ v.value >= 0
      BY <2>1
    <3>2. AtLeast(v, 0) = IF v.value >= 0 THEN "passes" ELSE "fails"
      BY <2>1, <3>1, IntRules
    <3> QED
      BY <3>1, <3>2
  <2> QED
    BY <2>1 DEF TableTakes
<1> QED
  BY <1>1, <1>2, <1>4, <1>5 DEF BucketCreated, Created, Validate

\* What passes the event contract passes the bucket's and the table's: the ranges
\* are written down three times, and they agree.
THEOREM EventsFitTheTable ==
  ASSUME NEW e, EventCreated(e) = "created", NEW n \in Nat,
         e.year.type = "int" => e.year.value \in Int,
         e.month.type = "int" => e.month.value \in Int,
         e.hour.type = "int" => e.hour.value \in Int
  PROVE  BucketCreated(BucketOf(e, n)) = "created" /\ TableTakes(BucketOf(e, n))
<1>1. /\ e.cab_type.type = "str" /\ e.cab_type.value # << >>
      /\ Between(e.year, 1900, 2100)
      /\ Between(e.month, 1, 12)
      /\ Between(e.hour, 0, 23)
  BY EventRanges
<1>2. TableTakes(BucketOf(e, n))
  BY <1>1 DEF TableTakes, BucketOf, PyInt
<1>3. BucketOf(e, n).cab_type.value # << >>
  BY <1>1 DEF BucketOf
<1> QED
  BY <1>2, <1>3, TableTakesBuckets

-----------------------------------------------------------------------------
(* Payloads.                                                               *)

\* Making an event, of any values, succeeds or fails with InvalidRequestError.
LEMMA EventOutcomes ==
  ASSUME NEW e
  PROVE  EventCreated(e) \in {"created", "InvalidRequestError"}
<1>1. CASE TypeViolations(EventSpecs, e) # {}
  BY <1>1 DEF EventCreated, Created
<1>2. CASE TypeViolations(EventSpecs, e) = {}
  <2>1. \A f \in DOMAIN EventChecks(e) : EventChecks(e)[f] \in {"passes", "fails"}
    BY <1>2, EventVerdicts
  <2>2. Validate(EventChecks(e)) \in {"created", "InvalidRequestError"}
    BY <2>1 DEF Validate
  <2> QED
    BY <1>2, <2>2 DEF EventCreated, Created
<1> QED
  BY <1>1, <1>2

\* Reading any payload, of any values, makes an event or is refused with
\* InvalidEventPayloadError: no other exception leaves from_json.
THEOREM ReadingNeverRaises ==
  ASSUME NEW data
  PROVE  /\ FromJson(data) \in {"event", "InvalidEventPayloadError"}
         /\ FromJson(data) = "event" =>
              /\ DOMAIN data = DOMAIN EventSpecs
              /\ EventCreated(Parsed(data)) = "created"
<1>1. EventCreated(Parsed(data)) \in {"created", "InvalidRequestError"}
  BY EventOutcomes
<1> QED
  BY <1>1, Zenon DEF FromJson

\* So no payload fails the classification, whatever has become of it.
LEMMA ClassifyingNeverRaises ==
  ASSUME NEW data, NEW s
  PROVE  /\ Classify(data, s) \in {"invalid", "out_of_slice", "in_slice"}
         /\ Classify(data, s) = "in_slice" => FromJson(data) = "event"
BY ReadingNeverRaises, Zenon DEF Classify

\* A consumer gets over every payload of JSON values: one it counts has a bucket
\* and a row in the table.
THEOREM PayloadsNeverBreakARun ==
  ASSUME NEW data, data = [f \in DOMAIN data |-> data[f]],
         \A f \in DOMAIN data : IsJson(data[f]), NEW s
  PROVE  GetsOver(data, s)
<1>1. Classify(data, s) \in {"invalid", "out_of_slice", "in_slice"}
  BY ClassifyingNeverRaises
<1>2. ASSUME Classify(data, s) = "in_slice"
      PROVE  /\ BucketCreated(BucketOf(Parsed(data), 1)) = "created"
             /\ TableTakes(BucketOf(Parsed(data), 1))
  <2>1. DOMAIN data = DOMAIN EventSpecs /\ EventCreated(Parsed(data)) = "created"
    BY <1>2, ClassifyingNeverRaises, ReadingNeverRaises
  <2>2. "year" \in DOMAIN data /\ "month" \in DOMAIN data /\ "hour" \in DOMAIN data
    BY <2>1 DEF EventSpecs
  <2>3. /\ Parsed(data).year = data.year
        /\ Parsed(data).month = data.month
        /\ Parsed(data).hour = data.hour
    BY <2>2 DEF Parsed
  <2>4. IsJson(data.year) /\ IsJson(data.month) /\ IsJson(data.hour)
    BY <2>2
  <2>5. \A v : IsJson(v) /\ v.type = "int" => v.value \in Int
    BY DEF IsJson
  <2> QED
    BY <2>1, <2>3, <2>4, <2>5, EventsFitTheTable
<1> QED
  BY <1>1, <1>2 DEF GetsOver

-----------------------------------------------------------------------------
(* Ids.                                                                    *)

TextValue == {CabType} \cup Double

WordSet ==
  [kind : {"text", "number", "hour", "float", "empty"},
   value : TextValue]

\* The parts of two texts agree when the texts do and as many words are in the
\* first parts.
LEMMA Peel ==
  ASSUME NEW W, NEW s \in Seq(W), NEW t \in Seq(W), NEW u \in Seq(W), NEW v \in Seq(W),
         Len(s) = Len(t), s \o u = t \o v
  PROVE  s = t /\ u = v
<1>1. /\ Len(s \o u) = Len(s) + Len(u)
      /\ \A i \in 1 .. Len(s) + Len(u) :
           (s \o u)[i] = IF i <= Len(s) THEN s[i] ELSE u[i - Len(s)]
      /\ Len(t \o v) = Len(t) + Len(v)
      /\ \A i \in 1 .. Len(t) + Len(v) :
           (t \o v)[i] = IF i <= Len(t) THEN t[i] ELSE v[i - Len(t)]
  BY ConcatProperties
<1>2. Len(s) \in Nat /\ Len(u) \in Nat /\ Len(v) \in Nat /\ Len(u) = Len(v)
  BY <1>1
<1>3. \A i \in 1 .. Len(s) : s[i] = t[i]
  BY <1>1, <1>2
<1>4. \A i \in 1 .. Len(u) : u[i] = v[i]
  <2> TAKE i \in 1 .. Len(u)
  <2>1. /\ i + Len(s) \in 1 .. Len(s) + Len(u)
        /\ ~(i + Len(s) <= Len(s))
        /\ (i + Len(s)) - Len(s) = i
    BY <1>2
  <2> QED
    BY <1>1, <1>2, <2>1
<1> QED
  BY <1>2, <1>3, <1>4, SeqEqual

\* The text of a value is one word, from which the value can be told.
LEMMA TextWord ==
  ASSUME NEW kind \in {"text", "number", "hour", "float"}, NEW x \in TextValue
  PROVE  /\ Text(kind, x) \in Seq(WordSet)
         /\ Len(Text(kind, x)) = 1
         /\ \A y : Text(kind, x) = Text(kind, y) => x = y
<1>1. Word(kind, x) \in WordSet /\ Word("empty", Null) \in WordSet
  BY DEF Word, WordSet, TextValue, Double
<1>2. \A y : Word(kind, x) = Word(kind, y) => x = y
  BY DEF Word
<1>3. \A y : Word(kind, x) # Word("empty", y) /\ Word("empty", x) # Word(kind, y)
  BY DEF Word
<1>4. /\ Text(kind, x) \in Seq(WordSet)
      /\ Len(Text(kind, x)) = 1
  BY <1>1 DEF Text
<1>5. ASSUME NEW y, Text(kind, x) = Text(kind, y)
      PROVE  x = y
  <2>1. Text(kind, x)[1] = Text(kind, y)[1]
    BY <1>5
  <2>2. \A z : Text(kind, z)[1] = IF z = Null THEN Word("empty", Null) ELSE Word(kind, z)
    BY DEF Text
  <2>3. Word("empty", Null) # Word(kind, x) /\ Word("empty", Null) # Word(kind, y)
    BY DEF Word
  <2> QED
    BY <1>2, <2>1, <2>2, <2>3
<1> QED
  BY <1>4, <1>5

\* The text of a timestamp is three words, from which it can be told.
LEMMA IsoTextWords ==
  ASSUME NEW t \in Int
  PROVE  /\ IsoText(t) \in Seq(WordSet)
         /\ Len(IsoText(t)) = 3
         /\ \A u \in Int : IsoText(t) = IsoText(u) => t = u
<1>1. \A u \in Int :
        IsoText(u) = <<Word("hour", u \div 60), Word("number", u % 60), Word("number", 0)>>
  BY SilverRulesAssumption DEF IsoText
<1>2. /\ t \div 60 \in Int /\ t % 60 \in Int
      /\ t = 60 * (t \div 60) + (t % 60)
  BY Z3
<1>3. /\ Word("hour", t \div 60) \in WordSet
      /\ Word("number", t % 60) \in WordSet
      /\ Word("number", 0) \in WordSet
  BY <1>2 DEF Word, WordSet, TextValue, Double
<1>4. IsoText(t) \in Seq(WordSet) /\ Len(IsoText(t)) = 3
  <2>1. \A a, b, c \in WordSet : <<a, b, c>> \in Seq(WordSet) /\ Len(<<a, b, c>>) = 3
    OBVIOUS
  <2> QED
    BY <1>1, <1>3, <2>1
<1>5. ASSUME NEW u \in Int, IsoText(t) = IsoText(u)
      PROVE  t = u
  <2>1. /\ Word("hour", t \div 60) = Word("hour", u \div 60)
        /\ Word("number", t % 60) = Word("number", u % 60)
    BY <1>1, <1>5
  <2>2. t \div 60 = u \div 60 /\ t % 60 = u % 60
    BY <2>1 DEF Word
  <2>3. u = 60 * (u \div 60) + (u % 60)
    BY Z3
  <2> QED
    BY <1>2, <2>2, <2>3
<1> QED
  BY <1>4, <1>5

\* A text and the texts after it: concatenation is kept from the solver.
TextThen(kind, x, rest) == Text(kind, x) \o rest

IsoThen(t, rest) == IsoText(t) \o rest

\* A value at the front of a text can be told, and what follows it.
LEMMA PeelText ==
  ASSUME NEW kind \in {"text", "number", "hour", "float"},
         NEW x \in TextValue, NEW y \in TextValue,
         NEW u \in Seq(WordSet), NEW v \in Seq(WordSet),
         TextThen(kind, x, u) = TextThen(kind, y, v)
  PROVE  x = y /\ u = v
<1>1. /\ Text(kind, x) \in Seq(WordSet)
      /\ Text(kind, y) \in Seq(WordSet)
      /\ Len(Text(kind, x)) = Len(Text(kind, y))
  BY TextWord
<1>2. Text(kind, x) = Text(kind, y) /\ u = v
  BY <1>1, Peel DEF TextThen
<1> QED
  BY <1>2, TextWord

LEMMA PeelIsoText ==
  ASSUME NEW t1 \in Int, NEW t2 \in Int, NEW u \in Seq(WordSet), NEW v \in Seq(WordSet),
         IsoThen(t1, u) = IsoThen(t2, v)
  PROVE  t1 = t2 /\ u = v
<1>1. /\ IsoText(t1) \in Seq(WordSet)
      /\ IsoText(t2) \in Seq(WordSet)
      /\ Len(IsoText(t1)) = Len(IsoText(t2))
  BY IsoTextWords
<1>2. IsoText(t1) = IsoText(t2) /\ u = v
  BY <1>1, Peel DEF IsoThen
<1> QED
  BY <1>2, IsoTextWords

\* The fields of a row with both of its timestamps, and of a slice.
LEMMA HashedTypes ==
  ASSUME NEW row \in Row, row.pickup # Null, row.dropoff # Null
  PROVE  /\ row.VendorID \in TextValue
         /\ row.PULocationID \in TextValue
         /\ row.DOLocationID \in TextValue
         /\ row.fare_amount \in TextValue
         /\ row.total_amount \in TextValue
         /\ row.pickup \in Int
         /\ row.dropoff \in Int
BY DEF Row, Double, Timestamp, Identifier, TextValue

LEMMA SliceTypes ==
  ASSUME NEW s \in Slice
  PROVE  s.year \in TextValue /\ s.month \in TextValue
BY DEF Slice, Double, TextValue

\* What is left of the text to hash without its first 3, 5, 7 and 8 values.
Rest8(row) == TextThen("float", row.fare_amount, Text("float", row.total_amount))
Rest7(row) == TextThen("number", row.DOLocationID, Rest8(row))
Rest6(row) == TextThen("number", row.PULocationID, Rest7(row))
Rest5(row) == IsoThen(row.dropoff, Rest6(row))
Rest4(row) == IsoThen(row.pickup, Rest5(row))
Rest3(row) == TextThen("number", row.VendorID, Rest4(row))
Rest2(row, s) == TextThen("number", s.month, Rest3(row))
Rest1(row, s) == TextThen("number", s.year, Rest2(row, s))

LEMMA RestTypes ==
  ASSUME NEW row \in Row, row.pickup # Null, row.dropoff # Null, NEW s \in Slice
  PROVE  /\ Text("float", row.total_amount) \in Seq(WordSet)
         /\ Rest8(row) \in Seq(WordSet)
         /\ Rest7(row) \in Seq(WordSet)
         /\ Rest6(row) \in Seq(WordSet)
         /\ Rest5(row) \in Seq(WordSet)
         /\ Rest4(row) \in Seq(WordSet)
         /\ Rest3(row) \in Seq(WordSet)
         /\ Rest2(row, s) \in Seq(WordSet)
         /\ Rest1(row, s) \in Seq(WordSet)
<1>1. /\ Text("number", row.VendorID) \in Seq(WordSet)
      /\ Text("number", row.PULocationID) \in Seq(WordSet)
      /\ Text("number", row.DOLocationID) \in Seq(WordSet)
      /\ Text("float", row.fare_amount) \in Seq(WordSet)
      /\ Text("float", row.total_amount) \in Seq(WordSet)
      /\ Text("number", s.month) \in Seq(WordSet)
      /\ Text("number", s.year) \in Seq(WordSet)
  BY HashedTypes, SliceTypes, TextWord
<1>2. IsoText(row.pickup) \in Seq(WordSet) /\ IsoText(row.dropoff) \in Seq(WordSet)
  BY HashedTypes, IsoTextWords
<1>3. \A t, u \in Seq(WordSet) : t \o u \in Seq(WordSet)
  BY ConcatProperties
<1> QED
  BY <1>1, <1>2, <1>3
     DEF Rest8, Rest7, Rest6, Rest5, Rest4, Rest3, Rest2, Rest1, TextThen, IsoThen

\* Two rows with the same text to hash have the same fields, although there are
\* separators in the timestamps and NULL is the empty text.
THEOREM IdsTellRowsApart ==
  ASSUME NEW x \in Row, x.pickup # Null, x.dropoff # Null, NEW s \in Slice,
         NEW y \in Row, y.pickup # Null, y.dropoff # Null, NEW k \in Slice,
         EventId(x, s) = EventId(y, k)
  PROVE  s = k /\ SameHashed(x, y)
<1>1. /\ Rest1(x, s) \in Seq(WordSet) /\ Rest1(y, k) \in Seq(WordSet)
      /\ Rest2(x, s) \in Seq(WordSet) /\ Rest2(y, k) \in Seq(WordSet)
      /\ Rest3(x) \in Seq(WordSet) /\ Rest3(y) \in Seq(WordSet)
      /\ Rest4(x) \in Seq(WordSet) /\ Rest4(y) \in Seq(WordSet)
      /\ Rest5(x) \in Seq(WordSet) /\ Rest5(y) \in Seq(WordSet)
      /\ Rest6(x) \in Seq(WordSet) /\ Rest6(y) \in Seq(WordSet)
      /\ Rest7(x) \in Seq(WordSet) /\ Rest7(y) \in Seq(WordSet)
      /\ Rest8(x) \in Seq(WordSet) /\ Rest8(y) \in Seq(WordSet)
      /\ Text("float", x.total_amount) \in Seq(WordSet)
      /\ Text("float", y.total_amount) \in Seq(WordSet)
  BY RestTypes
<1>2. Rest1(x, s) = Rest1(y, k)
  <2>1. TextThen("text", CabType, Rest1(x, s)) = TextThen("text", CabType, Rest1(y, k))
    BY DEF EventId, TextThen, IsoThen, Rest1, Rest2, Rest3, Rest4, Rest5, Rest6, Rest7, Rest8
  <2>2. CabType \in TextValue
    BY DEF TextValue
  <2> QED
    BY <1>1, <2>1, <2>2, PeelText
<1>3. s.year = k.year /\ Rest2(x, s) = Rest2(y, k)
  BY <1>1, <1>2, SliceTypes, PeelText DEF Rest1
<1>4. s.month = k.month /\ Rest3(x) = Rest3(y)
  BY <1>1, <1>3, SliceTypes, PeelText DEF Rest2
<1>5. /\ x.VendorID \in TextValue /\ y.VendorID \in TextValue
      /\ x.PULocationID \in TextValue /\ y.PULocationID \in TextValue
      /\ x.DOLocationID \in TextValue /\ y.DOLocationID \in TextValue
      /\ x.fare_amount \in TextValue /\ y.fare_amount \in TextValue
      /\ x.total_amount \in TextValue /\ y.total_amount \in TextValue
      /\ x.pickup \in Int /\ y.pickup \in Int
      /\ x.dropoff \in Int /\ y.dropoff \in Int
  BY HashedTypes
<1>6. x.VendorID = y.VendorID /\ Rest4(x) = Rest4(y)
  <2>1. TextThen("number", x.VendorID, Rest4(x)) = TextThen("number", y.VendorID, Rest4(y))
    BY <1>4 DEF Rest3
  <2>2. x.VendorID \in TextValue /\ y.VendorID \in TextValue
    BY <1>5
  <2>3. Rest4(x) \in Seq(WordSet) /\ Rest4(y) \in Seq(WordSet)
    BY <1>1
  <2> QED
    BY <2>1, <2>2, <2>3, PeelText
<1>7. x.pickup = y.pickup /\ Rest5(x) = Rest5(y)
  <2>1. IsoThen(x.pickup, Rest5(x)) = IsoThen(y.pickup, Rest5(y))
    BY <1>6 DEF Rest4
  <2>2. x.pickup \in Int /\ y.pickup \in Int
    BY <1>5
  <2>3. Rest5(x) \in Seq(WordSet) /\ Rest5(y) \in Seq(WordSet)
    BY <1>1
  <2> QED
    BY <2>1, <2>2, <2>3, PeelIsoText
<1>8. x.dropoff = y.dropoff /\ Rest6(x) = Rest6(y)
  <2>1. IsoThen(x.dropoff, Rest6(x)) = IsoThen(y.dropoff, Rest6(y))
    BY <1>7 DEF Rest5
  <2>2. x.dropoff \in Int /\ y.dropoff \in Int
    BY <1>5
  <2>3. Rest6(x) \in Seq(WordSet) /\ Rest6(y) \in Seq(WordSet)
    BY <1>1
  <2> QED
    BY <2>1, <2>2, <2>3, PeelIsoText
<1>9. x.PULocationID = y.PULocationID /\ Rest7(x) = Rest7(y)
  <2>1. TextThen("number", x.PULocationID, Rest7(x))
          = TextThen("number", y.PULocationID, Rest7(y))
    BY <1>8 DEF Rest6
  <2>2. x.PULocationID \in TextValue /\ y.PULocationID \in TextValue
    BY <1>5
  <2>3. Rest7(x) \in Seq(WordSet) /\ Rest7(y) \in Seq(WordSet)
    BY <1>1
  <2> QED
    BY <2>1, <2>2, <2>3, PeelText
<1>10. x.DOLocationID = y.DOLocationID /\ Rest8(x) = Rest8(y)
  <2>1. TextThen("number", x.DOLocationID, Rest8(x))
          = TextThen("number", y.DOLocationID, Rest8(y))
    BY <1>9 DEF Rest7
  <2>2. x.DOLocationID \in TextValue /\ y.DOLocationID \in TextValue
    BY <1>5
  <2>3. Rest8(x) \in Seq(WordSet) /\ Rest8(y) \in Seq(WordSet)
    BY <1>1
  <2> QED
    BY <2>1, <2>2, <2>3, PeelText
<1>11. /\ x.fare_amount = y.fare_amount
       /\ Text("float", x.total_amount) = Text("float", y.total_amount)
  <2>1. TextThen("float", x.fare_amount, Text("float", x.total_amount))
          = TextThen("float", y.fare_amount, Text("float", y.total_amount))
    BY <1>10 DEF Rest8
  <2>2. x.fare_amount \in TextValue /\ y.fare_amount \in TextValue
    BY <1>5
  <2>3. /\ Text("float", x.total_amount) \in Seq(WordSet)
        /\ Text("float", y.total_amount) \in Seq(WordSet)
    BY <1>1
  <2> QED
    BY <2>1, <2>2, <2>3, PeelText
<1>12. x.total_amount = y.total_amount
  BY <1>5, <1>11, TextWord
<1>13. s = k
  BY <1>3, <1>4 DEF Slice
<1> QED
  BY <1>6, <1>7, <1>8, <1>9, <1>10, <1>11, <1>12, <1>13 DEF SameHashed

-----------------------------------------------------------------------------
(* What Silver holds.                                                      *)

RowsClean ==
  \A m \in Month : \A row \in accepted[m].rows :
    row \in Row /\ row \in UNION Contents /\ Clean(row)

LEMMA RowsAreClean == Spec => []RowsClean
<1>1. Inv /\ PartitionsWhole /\ AcceptedAreClean => RowsClean
  <2> SUFFICES ASSUME Inv, PartitionsWhole, AcceptedAreClean,
                      NEW m \in Month, NEW row \in accepted[m].rows
               PROVE  row \in Row /\ row \in UNION Contents /\ Clean(row)
    BY DEF RowsClean
  <2>1. accepted[m] # Missing
    BY DEF Missing
  <2>2. PICK n \in DOMAIN ingested[m] : accepted[m].rows = Accepts(ingested[m][n])
    BY <2>1 DEF PartitionsWhole
  <2>3. /\ row \in ingested[m][n]
        /\ ingested[m][n] \in Contents
        /\ ingested[m][n] \subseteq Row
    BY <2>2, IngestionType DEF Accepts, Inv
  <2> QED
    BY <2>3 DEF AcceptedAreClean
<1> QED
  BY <1>1, TypeCorrect, WholePartitions, AcceptedClean, PTL

\* The cast leaves a clean row as it is.
LEMMA CleanIsNormal ==
  ASSUME NEW row \in Row, Clean(row)
  PROVE  Normalized(row) = row
<1>1. row.passenger_count \in Int /\ row.passenger_count % 2 = 0
  <2>1. PICK n \in 0..9 : row.passenger_count = 2 * n
    BY DEF Clean
  <2> QED
    BY <2>1
<1>2. Cast(row.passenger_count) = row.passenger_count
  BY <1>1, CastIntegral
<1>3. Cast(row.RatecodeID) = row.RatecodeID
  <2>1. CASE row.RatecodeID = Null
    BY <2>1 DEF Cast
  <2>2. CASE row.RatecodeID # Null
    <3>1. row.RatecodeID \in Int /\ row.RatecodeID % 2 = 0
      BY <2>2 DEF Clean, Row, Double
    <3> QED
      BY <3>1, CastIntegral
  <2> QED
    BY <2>1, <2>2
<1> QED
  BY <1>2, <1>3 DEF Normalized, Row

\* Any two rows of the silver table, of one slice or of two, have different texts
\* to hash when they differ in a hashed field.
THEOREM SilverIdsUnambiguous == Spec => []IdsUnambiguous
<1>1. RowsClean => IdsUnambiguous
  <2> SUFFICES ASSUME RowsClean, NEW m \in Month, NEW k \in Month,
                      NEW x \in accepted[m].rows, NEW y \in accepted[k].rows,
                      EventId(Normalized(x), m) = EventId(Normalized(y), k)
               PROVE  m = k /\ SameHashed(x, y)
    BY DEF IdsUnambiguous
  <2>1. x \in Row /\ Clean(x) /\ y \in Row /\ Clean(y)
    BY DEF RowsClean
  <2>2. EventId(x, m) = EventId(y, k)
    BY <2>1, CleanIsNormal
  <2>3. /\ x.pickup # Null /\ x.dropoff # Null
        /\ y.pickup # Null /\ y.dropoff # Null
    BY <2>1 DEF Clean
  <2>4. m \in Slice /\ k \in Slice
    BY SilverEventsAssumption
  <2> QED
    BY <2>1, <2>2, <2>3, <2>4, IdsTellRowsApart
<1> QED
  BY <1>1, RowsAreClean, PTL

\* The text to hash has more than three words, so it is no timestamp.
LEMMA IdLength ==
  ASSUME NEW row \in Row, row.pickup # Null, row.dropoff # Null, NEW s \in Slice
  PROVE  Len(EventId(row, s)) # 3 /\ EventId(row, s) # << >>
<1>1. /\ Rest1(row, s) \in Seq(WordSet) /\ Rest2(row, s) \in Seq(WordSet)
      /\ Rest3(row) \in Seq(WordSet) /\ Rest4(row) \in Seq(WordSet)
  BY RestTypes
<1>2. ASSUME NEW kind \in {"text", "number", "hour", "float"}, NEW x \in TextValue,
             NEW u \in Seq(WordSet)
      PROVE  Len(TextThen(kind, x, u)) = 1 + Len(u)
  <2>1. Text(kind, x) \in Seq(WordSet) /\ Len(Text(kind, x)) = 1
    BY <1>2, TextWord
  <2>2. Len(Text(kind, x) \o u) = Len(Text(kind, x)) + Len(u)
    BY <1>2, <2>1, ConcatProperties
  <2> QED
    BY <2>1, <2>2 DEF TextThen
<1>3. EventId(row, s) = TextThen("text", CabType, Rest1(row, s))
  BY DEF EventId, TextThen, IsoThen, Rest1, Rest2, Rest3, Rest4, Rest5, Rest6, Rest7, Rest8
<1>4. Len(EventId(row, s)) = 1 + Len(Rest1(row, s))
  <2>1. CabType \in TextValue
    BY DEF TextValue
  <2>2. Len(TextThen("text", CabType, Rest1(row, s))) = 1 + Len(Rest1(row, s))
    BY <1>1, <1>2, <2>1
  <2> QED
    BY <1>3, <2>2
<1>5. Len(Rest1(row, s)) = 1 + Len(Rest2(row, s))
  BY <1>1, <1>2, SliceTypes DEF Rest1
<1>6. Len(Rest2(row, s)) = 1 + Len(Rest3(row))
  BY <1>1, <1>2, SliceTypes DEF Rest2
<1>7. Len(Rest3(row)) = 1 + Len(Rest4(row))
  BY <1>1, <1>2, HashedTypes DEF Rest3
<1>8. Len(Rest4(row)) \in Nat
  BY <1>1
<1> QED
  BY <1>4, <1>5, <1>6, <1>7, <1>8

\* The values of a clean row's columns.
LEMMA CleanValues ==
  ASSUME NEW row \in Row, Clean(row)
  PROVE  /\ row.pickup \in Int /\ row.dropoff \in Int
         /\ row.fare_amount = NaN \/ (row.fare_amount \in Int /\ row.fare_amount >= 0)
         /\ row.trip_distance = NaN \/ (row.trip_distance \in Int /\ row.trip_distance >= 0)
         /\ row.passenger_count \in Int
         /\ row.passenger_count \div 2 \in 0..9
         /\ HourOf(row.pickup) \in 0..23
<1>1. row.pickup \in Int /\ row.dropoff \in Int
  BY DEF Clean, Row, Timestamp
<1>2. /\ row.fare_amount = NaN \/ (row.fare_amount \in Int /\ row.fare_amount >= 0)
      /\ row.trip_distance = NaN \/ (row.trip_distance \in Int /\ row.trip_distance >= 0)
  BY DEF Clean, Row, Double
<1>3. row.passenger_count \in Int /\ row.passenger_count \div 2 \in 0..9
  <2>1. PICK n \in 0..9 : row.passenger_count = 2 * n
    BY DEF Clean
  <2>2. (2 * n) \div 2 = n
    BY Z3
  <2> QED
    BY <2>1, <2>2
<1>4. HourOf(row.pickup) \in 0..23
  <2>1. ASSUME NEW t \in Int PROVE (t \div 60) % 24 \in 0..23
    <3>1. t \div 60 \in Int
      BY Z3
    <3>2. \A n \in Int : n % 24 \in 0..23
      BY Z3
    <3> QED
      BY <3>1, <3>2
  <2> QED
    BY <1>1, <2>1 DEF HourOf
<1> QED
  BY <1>1, <1>2, <1>3, <1>4

\* The payload of a clean row has the fields of an event, with JSON values.
LEMMA PayloadValues ==
  ASSUME NEW row \in Row, Clean(row), NEW m \in Slice
  PROVE  /\ DOMAIN ToJson(Event(row, m)) = DOMAIN EventSpecs
         /\ ToJson(Event(row, m)) =
              [f \in DOMAIN ToJson(Event(row, m)) |-> ToJson(Event(row, m))[f]]
         /\ \A f \in DOMAIN ToJson(Event(row, m)) : IsJson(ToJson(Event(row, m))[f])
<1> DEFINE Fields(p) ==
      [event_id        |-> PyStr(EventId(row, m)),
       schema_version  |-> PyStr(SchemaVersion),
       cab_type        |-> PyStr(CabType),
       year            |-> PyInt(m.year),
       month           |-> PyInt(m.month),
       hour            |-> PyInt(HourOf(row.pickup)),
       trip_distance   |-> PyFloat(row.trip_distance),
       fare_amount     |-> PyFloat(row.fare_amount),
       passenger_count |-> PyInt(row.passenger_count \div 2),
       produced_at     |-> p]
           payload == Fields(PyStr(<<"iso", Now, TRUE>>))
<1>1. ToJson(Event(row, m)) = payload
  <2>1. Event(row, m) = EventOf(row, m, Now)
    BY CleanIsNormal DEF Event
  <2>2. EventOf(row, m, Now) = Fields(PyDatetime(Now, TRUE))
    BY DEF EventOf
  <2>3. IsoWords(PyDatetime(Now, TRUE)) = <<"iso", Now, TRUE>>
    BY DEF IsoWords, PyDatetime
  <2>4. \A p, q : Fields(p).produced_at = p /\ [Fields(p) EXCEPT !.produced_at = q] = Fields(q)
    OBVIOUS
  <2> HIDE DEF Fields
  <2> QED
    BY <2>1, <2>2, <2>3, <2>4 DEF ToJson
<1>2. DOMAIN payload = DOMAIN EventSpecs
  BY DEF EventSpecs
<1>3. \A n \in Int : IsJson(PyInt(n))
  BY DEF IsJson, PyInt
<1>4. \A x : x = NaN \/ x \in Int => IsJson(PyFloat(x))
  BY DEF IsJson, PyFloat
<1>5. \A words : Len(words) # 3 => IsJson(PyStr(words))
  BY DEF IsJson, PyStr, IsIso
<1>6. IsJson(PyStr(<<"iso", Now, TRUE>>))
  BY DEF IsJson, PyStr, IsIso
<1>7. /\ IsJson(payload.event_id)
      /\ IsJson(payload.schema_version)
      /\ IsJson(payload.cab_type)
  <2>1. Len(EventId(row, m)) # 3
    BY IdLength DEF Clean
  <2>2. Len(SchemaVersion) # 3 /\ Len(CabType) # 3
    BY DEF SchemaVersion, CabType
  <2> QED
    BY <1>5, <2>1, <2>2
<1>8. /\ IsJson(payload.year) /\ IsJson(payload.month)
      /\ IsJson(payload.hour) /\ IsJson(payload.passenger_count)
  BY <1>3, CleanValues DEF Slice
<1>9. IsJson(payload.trip_distance) /\ IsJson(payload.fare_amount)
  BY <1>4, CleanValues
<1>10. \A f \in DOMAIN payload : IsJson(payload[f])
  BY <1>6, <1>7, <1>8, <1>9
<1> QED
  BY <1>1, <1>2, <1>10

\* What becomes of a payload of JSON values has JSON values.
LEMMA CorruptionsAreJson ==
  ASSUME NEW payload, \A f \in DOMAIN payload : IsJson(payload[f]),
         NEW data \in Corruptions(payload)
  PROVE  /\ data = [f \in DOMAIN data |-> data[f]]
         /\ \A f \in DOMAIN data : IsJson(data[f])
<1>1. \A v \in JsonValue : IsJson(v)
  BY SilverEventsAssumption
<1>2. CASE data \in Shortened(payload)
  <2>1. PICK g \in DOMAIN payload : data = [f \in DOMAIN payload \ {g} |-> payload[f]]
    BY <1>2 DEF Shortened
  <2> QED
    BY <2>1
<1>3. CASE data \in Extended(payload)
  <2>1. PICK v \in JsonValue :
          data = [f \in DOMAIN payload \cup {"extra"} |->
                    IF f = "extra" THEN v ELSE payload[f]]
    BY <1>3 DEF Extended
  <2> QED
    BY <1>1, <2>1
<1>4. CASE data \in Altered(payload)
  <2>1. PICK g \in DOMAIN payload, v \in JsonValue : data = [payload EXCEPT ![g] = v]
    BY <1>4 DEF Altered
  <2> QED
    BY <1>1, <2>1
<1> QED
  BY <1>2, <1>3, <1>4 DEF Corruptions

\* Nothing that becomes of the payload of a row in the silver table fails a
\* consumer.
THEOREM SilverRecordsNeverBreakARun == Spec => []RecordsNeverBreakARun
<1>1. RowsClean => RecordsNeverBreakARun
  <2> SUFFICES ASSUME RowsClean, NEW k \in Month, NEW row \in accepted[k].rows
               PROVE  row \in Robust
    BY DEF RecordsNeverBreakARun
  <2>1. row \in Row /\ row \in UNION Contents /\ Clean(row)
    BY DEF RowsClean
  <2> SUFFICES ASSUME NEW m \in Month, NEW s \in Month,
                      NEW data \in Corruptions(ToJson(Event(row, m)))
               PROVE  GetsOver(data, s)
    BY <2>1 DEF Robust
  <2>2. \A f \in DOMAIN ToJson(Event(row, m)) : IsJson(ToJson(Event(row, m))[f])
    BY <2>1, PayloadValues, SilverEventsAssumption
  <2>3. /\ data = [f \in DOMAIN data |-> data[f]]
        /\ \A f \in DOMAIN data : IsJson(data[f])
    BY <2>2, CorruptionsAreJson
  <2> QED
    BY <2>1, <2>3, PayloadsNeverBreakARun
<1> QED
  BY <1>1, RowsAreClean, PTL

\* An int in range passes.
LEMMA InRange ==
  ASSUME NEW n \in Int, NEW low \in Int, NEW high \in Int, low <= n, n <= high
  PROVE  Within(PyInt(n), low, high) = "passes"
<1>1. PyInt(n).type = "int" /\ PyInt(n).value = n
  BY DEF PyInt
<1>2. Between(PyInt(n), low, high)
  BY <1>1 DEF Between
<1> QED
  BY <1>1, <1>2, IntRules

\* A clean row passes the event's rules, but for a NaN fare or distance.
LEMMA CleanRowPasses ==
  ASSUME NEW row \in Row, Clean(row), NEW m \in Slice, SilverRequest(m) = "created"
  PROVE  EventCreated(EventOf(row, m, Now)) =
           IF NaN \in {row.fare_amount, row.trip_distance}
           THEN "InvalidRequestError" ELSE "created"
<1> DEFINE e == EventOf(row, m, Now)
<1>1. TypeViolations(EventSpecs, e) = {}
  BY DEF TypeViolations, EventSpecs, EventOf, IsInstance, Exactly, IntNotBool, PyInt,
         PyStr, PyFloat, PyDatetime
<1>2. /\ NotBlank(e.event_id) = "passes"
      /\ NotBlank(e.cab_type) = "passes"
  <2>1. EventId(row, m) # << >>
    BY IdLength DEF Clean
  <2>2. CabType # << >>
    BY DEF CabType
  <2>3. ASSUME NEW words, words # << >>
        PROVE  NotBlank(PyStr(words)) = "passes"
    BY <2>3 DEF NotBlank, PyStr, Verdict
  <2> QED
    BY <2>1, <2>2, <2>3 DEF EventOf
<1>3. Verdict(PyEqual(e.schema_version, PyStr(SchemaVersion))) = "passes"
  BY DEF EventOf, PyEqual, PyStr, IsNumber, Verdict
<1>4. Aware(e.produced_at) = "passes"
  BY DEF EventOf, Aware, PyDatetime, Verdict
<1>5. /\ Within(e.year, 1900, 2100) = "passes"
      /\ Within(e.month, 1, 12) = "passes"
  <2>1. /\ m.year \in Int /\ 1900 <= m.year /\ m.year <= 2100
        /\ m.month \in Int /\ 1 <= m.month /\ m.month <= 12
    BY RequestRanges DEF Slice
  <2> QED
    BY <2>1, InRange DEF EventOf
<1>6. /\ Within(e.hour, 0, 23) = "passes"
      /\ Within(e.passenger_count, 0, 9) = "passes"
  <2>1. \A n \in 0..23 : n \in Int /\ 0 <= n /\ n <= 23
    OBVIOUS
  <2>2. \A n \in 0..9 : n \in Int /\ 0 <= n /\ n <= 9
    OBVIOUS
  <2> QED
    BY <2>1, <2>2, CleanValues, InRange DEF EventOf
<1>7. ASSUME NEW x, x = NaN \/ (x \in Int /\ x >= 0)
      PROVE  AtLeast(PyFloat(x), 0) = IF x = NaN THEN "fails" ELSE "passes"
  <2>1. CASE x = NaN
    BY <2>1, SilverRulesAssumption DEF AtLeast, PyFloat, IsNumber, Halves, Verdict
  <2>2. CASE x \in Int /\ x >= 0
    BY <2>2, SilverRulesAssumption DEF AtLeast, PyFloat, IsNumber, Halves, Verdict
  <2> QED
    BY <1>7, <2>1, <2>2
<1>8. /\ AtLeast(e.trip_distance, 0) =
           IF row.trip_distance = NaN THEN "fails" ELSE "passes"
      /\ AtLeast(e.fare_amount, 0) =
           IF row.fare_amount = NaN THEN "fails" ELSE "passes"
  BY <1>7, CleanValues DEF EventOf
<1>9. Validate(EventChecks(e)) =
        IF NaN \in {row.fare_amount, row.trip_distance}
        THEN "InvalidRequestError" ELSE "created"
  <2> HIDE DEF e
  <2> QED
    BY <1>2, <1>3, <1>4, <1>5, <1>6, <1>8 DEF Validate, EventChecks
<1> QED
  BY <1>1, <1>9 DEF EventCreated, Created

\* So the producer produces it or quarantines it, and nothing leaves its loop.
LEMMA CleanRowRoute ==
  ASSUME NEW row \in Row, Clean(row), NEW m \in Slice, SilverRequest(m) = "created"
  PROVE  Route(row, m, Now) =
           IF NaN \in {row.fare_amount, row.trip_distance}
           THEN "quarantine" ELSE "primary"
<1>1. row.pickup # Null /\ Null \notin {row.trip_distance, row.fare_amount, row.passenger_count}
  BY CleanValues, SilverRulesAssumption DEF Clean
<1>2. BuildOutcome(row, m, Now) = EventCreated(EventOf(row, m, Now))
  BY <1>1 DEF BuildOutcome
<1> QED
  BY <1>2, CleanRowPasses, Zenon DEF Route

\* The payload of an event has the event's fields, but for the time of its
\* production, which stands there as a text.
LEMMA PayloadFields ==
  ASSUME NEW row, NEW m
  PROVE  LET e == EventOf(row, m, Now)
             payload == ToJson(e) IN
         /\ DOMAIN payload = DOMAIN EventSpecs
         /\ payload.produced_at = PyStr(<<"iso", Now, TRUE>>)
         /\ payload.schema_version = PyStr(SchemaVersion)
         /\ payload.cab_type = PyStr(CabType)
         /\ payload.year = PyInt(m.year)
         /\ payload.month = PyInt(m.month)
         /\ Parsed(payload) = e
<1> DEFINE Fields(p) ==
      [event_id        |-> PyStr(EventId(row, m)),
       schema_version  |-> PyStr(SchemaVersion),
       cab_type        |-> PyStr(CabType),
       year            |-> PyInt(m.year),
       month           |-> PyInt(m.month),
       hour            |-> PyInt(HourOf(row.pickup)),
       trip_distance   |-> PyFloat(row.trip_distance),
       fare_amount     |-> PyFloat(row.fare_amount),
       passenger_count |-> PyInt(row.passenger_count \div 2),
       produced_at     |-> p]
           iso == PyStr(<<"iso", Now, TRUE>>)
<1>1. EventOf(row, m, Now) = Fields(PyDatetime(Now, TRUE))
  BY DEF EventOf
<1>2. \A p, q : Fields(p).produced_at = p /\ [Fields(p) EXCEPT !.produced_at = q] = Fields(q)
  OBVIOUS
<1>3. \A p : /\ DOMAIN Fields(p) = DOMAIN EventSpecs
             /\ Fields(p).schema_version = PyStr(SchemaVersion)
             /\ Fields(p).cab_type = PyStr(CabType)
             /\ Fields(p).year = PyInt(m.year)
             /\ Fields(p).month = PyInt(m.month)
  BY DEF EventSpecs
<1>4. PyStr(IsoWords(PyDatetime(Now, TRUE))) = iso
  BY DEF IsoWords, PyDatetime
<1>5. FromIso(iso) = PyDatetime(Now, TRUE)
  BY DEF FromIso, PyStr
<1> HIDE DEF Fields, iso
<1>6. ToJson(EventOf(row, m, Now)) = Fields(iso)
  <2>1. ToJson(Fields(PyDatetime(Now, TRUE))) = Fields(iso)
    BY <1>2, <1>4 DEF ToJson
  <2> QED
    BY <1>1, <2>1
<1>7. Parsed(Fields(iso)) = Fields(PyDatetime(Now, TRUE))
  BY <1>2, <1>5 DEF Parsed
<1> QED
  BY <1>1, <1>2, <1>3, <1>6, <1>7 DEF iso

\* A consumer of any slice reads the payload of a valid event as one of its slice
\* exactly when it is.
LEMMA PayloadRead ==
  ASSUME NEW row, NEW m \in Slice, EventCreated(EventOf(row, m, Now)) = "created",
         NEW s \in Slice
  PROVE  Classify(ToJson(EventOf(row, m, Now)), s) =
           IF s = m THEN "in_slice" ELSE "out_of_slice"
<1> DEFINE payload == ToJson(EventOf(row, m, Now))
<1>1. /\ DOMAIN payload = DOMAIN EventSpecs
      /\ payload.produced_at = PyStr(<<"iso", Now, TRUE>>)
      /\ payload.schema_version = PyStr(SchemaVersion)
      /\ payload.cab_type = PyStr(CabType)
      /\ payload.year = PyInt(m.year)
      /\ payload.month = PyInt(m.month)
      /\ Parsed(payload) = EventOf(row, m, Now)
  BY PayloadFields
<1> HIDE DEF payload
<1>2. PyEqual(payload.schema_version, PyStr(SchemaVersion))
  BY <1>1 DEF PyEqual, PyStr, IsNumber
<1>3. IsoError(payload.produced_at) = "none"
  BY <1>1 DEF IsoError, IsIso, PyStr
<1>4. FromIso(payload.produced_at).value[2]
  BY <1>1 DEF FromIso, PyStr, PyDatetime
<1>5. FromJson(payload) = "event"
  BY <1>1, <1>2, <1>3, <1>4, Zenon DEF FromJson
<1>6. PyEqual(payload.cab_type, PyStr(CabType))
  BY <1>1 DEF PyEqual, PyStr, IsNumber
<1>7. \A x, y \in Int : PyEqual(PyInt(x), PyInt(y)) <=> x = y
  BY DEF PyEqual, PyInt, IsNumber, Halves
<1>8. /\ PyEqual(payload.year, PyInt(s.year)) <=> m.year = s.year
      /\ PyEqual(payload.month, PyInt(s.month)) <=> m.month = s.month
  BY <1>1, <1>7 DEF Slice
<1>9. s = m <=> m.year = s.year /\ m.month = s.month
  BY DEF Slice
<1>10. Classify(payload, s) = IF s = m THEN "in_slice" ELSE "out_of_slice"
  BY <1>5, <1>6, <1>8, <1>9, Zenon DEF Classify
<1> QED
  BY <1>10 DEF payload

\* Each row of the silver table becomes an event of its own slice, or is
\* quarantined for a NaN: none fails the producer's loop.
THEOREM SilverRowsBecomeEvents == Spec => []AcceptedBecomeEvents
<1>1. RowsClean => AcceptedBecomeEvents
  <2> SUFFICES ASSUME RowsClean, NEW k \in Month, NEW row \in accepted[k].rows
               PROVE  row \in Producible
    BY DEF AcceptedBecomeEvents
  <2>1. row \in Row /\ row \in UNION Contents /\ Clean(row)
    BY DEF RowsClean
  <2>2. Normalized(row) = row
    BY <2>1, CleanIsNormal
  <2>3. ASSUME NEW m \in Month
        PROVE  IF NaN \in {row.fare_amount, row.trip_distance}
               THEN Route(Normalized(row), m, Now) = "quarantine"
               ELSE BecomesEvent(row, m)
    <3>1. m \in Slice /\ SilverRequest(m) = "created"
      BY SilverEventsAssumption
    <3>2. Route(row, m, Now) = IF NaN \in {row.fare_amount, row.trip_distance}
                               THEN "quarantine" ELSE "primary"
      BY <2>1, <3>1, CleanRowRoute
    <3>3. ASSUME NaN \notin {row.fare_amount, row.trip_distance}
          PROVE  BecomesEvent(row, m)
      <4>1. EventCreated(EventOf(row, m, Now)) = "created"
        BY <2>1, <3>1, <3>3, CleanRowPasses
      <4>2. Event(row, m) = EventOf(row, m, Now)
        BY <2>2 DEF Event
      <4>3. Parsed(ToJson(Event(row, m))) = Event(row, m)
        BY <4>2, PayloadFields
      <4>4. \A s \in Month : Classify(ToJson(Event(row, m)), s) =
                               IF s = m THEN "in_slice" ELSE "out_of_slice"
        BY <3>1, <4>1, <4>2, PayloadRead, SilverEventsAssumption
      <4> QED
        BY <2>2, <3>2, <3>3, <4>3, <4>4 DEF BecomesEvent
    <3> QED
      BY <2>2, <3>2, <3>3
  <2> QED
    BY <2>1, <2>3 DEF Producible
<1> QED
  BY <1>1, RowsAreClean, PTL

=============================================================================

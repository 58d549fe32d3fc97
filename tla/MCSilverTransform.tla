-------------------------- MODULE MCSilverTransform --------------------------
(***************************************************************************)
(* Small instances of the Silver transform and of the events of its rows:  *)
(* rows that are clean, rows for one rule or several, rows whose cast      *)
(* raises in either table, and rows whose hashed texts are alike.          *)
(***************************************************************************)
EXTENDS SilverEvents, TLC

CONSTANTS run1, run2

jan == [year |-> 2023, month |-> 1]

feb == [year |-> 2023, month |-> 2]

MCMonth == {jan, feb}

MCOneMonth == {jan}

\* A trip from 23:59 to 0:02.
Plain ==
  [fare_amount |-> 10, trip_distance |-> 4, passenger_count |-> 4,
   RatecodeID |-> 2, pickup |-> 1439, dropoff |-> 1442,
   VendorID |-> 1, PULocationID |-> 5, DOLocationID |-> 5, total_amount |-> 10]

\* Two trips with one location between them.
FromNowhere == [Plain EXCEPT !.PULocationID = Null]

ToNowhere == [Plain EXCEPT !.DOLocationID = Null]

Free == [Plain EXCEPT !.fare_amount = 0]

NaNFare == [Plain EXCEPT !.fare_amount = NaN]

HalfPassenger == [Plain EXCEPT !.passenger_count = 3]

NullRefund == [Plain EXCEPT !.fare_amount = -10, !.dropoff = Null]

NullFare == [Plain EXCEPT !.fare_amount = Null]

NaNRatecode == [Plain EXCEPT !.RatecodeID = NaN]

HugeRatecode == [Plain EXCEPT !.RatecodeID = 2 * MaxInt + 2]

\* Rows for both tables, for silver only, and for silver_rejected only, where
\* the cast of the second raises after silver has been written.
MCContents ==
  {{FromNowhere, ToNowhere, HalfPassenger, NullRefund}, {Free, NaNFare},
   {NullFare, NaNRatecode}}

\* Partitions of one table or both, and one whose cast raises in silver.
MCRerunContents ==
  {{Plain, HalfPassenger}, {Plain, NaNFare}, {NullRefund}, {Plain, HugeRatecode}}

\* Values around the bounds of every rule, and of every JSON type.
MCJsonValue ==
  {PyInt(n) : n \in {-1, 0, 1, 9, 10, 12, 13, 23, 24, 1899, 1900, 2100, 2101}} \cup
  {PyFloat(x) : x \in {-1, 0, 2, NaN}} \cup
  {PyStr(words) : words \in {<< >>, <<"1">>, <<"2">>, <<"green">>,
                             <<"iso", 0, FALSE>>, <<"iso", 0, TRUE>>}} \cup
  {[type |-> "bool", value |-> 0], [type |-> "bool", value |-> 1],
   [type |-> "NoneType", value |-> Null], [type |-> "list", value |-> Null]}

MCSymmetry == Permutations(Run)

=============================================================================

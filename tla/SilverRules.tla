----------------------------- MODULE SilverRules -----------------------------
(***************************************************************************)
(* The accept-or-reject rules of the Silver layer, row by row              *)
(* (nyc_cab/transform/silver_validators.py and silver_transforms.py, with  *)
(* the reasons and normalizations of nyc_cab/contracts/silver.py).         *)
(*                                                                         *)
(* A double is NaN, Null, or a multiple of one half, given as the number   *)
(* of halves: 3 is 1.5.  That is enough to tell integral values from       *)
(* others.  NaN stands for the infinities as well where a column is cast.  *)
(*                                                                         *)
(* Spark: when(c, ...) takes a NULL condition for false, NaN is larger     *)
(* than every number, and cast("int") of a double drops its fraction and,  *)
(* in the ANSI mode of the pinned Spark 4, raises on NaN and on overflow.  *)
(***************************************************************************)
EXTENDS Integers

CONSTANTS
  Null,
  NaN,
  MaxInt   \* the largest value of Spark's int type

ASSUME SilverRulesAssumption ==
  /\ Null \notin Int
  /\ NaN \notin Int
  /\ Null # NaN
  /\ MaxInt \in Nat
  /\ MaxInt >= 9

Double == Int \cup {Null, NaN}

Timestamp == Int \cup {Null}

Identifier == Int \cup {Null}

\* The columns the rules and the event contract look at; a timestamp counts
\* minutes.
Row == [fare_amount : Double, trip_distance : Double,
        passenger_count : Double, RatecodeID : Double,
        pickup : Timestamp, dropoff : Timestamp,
        VendorID : Identifier, PULocationID : Identifier,
        DOLocationID : Identifier, total_amount : Double]

\* The whole number below x, and the whole number x is cut down to.
Floor(x) == 2 * (x \div 2)

Truncated(x) == IF x < 0 THEN -Floor(-x) ELSE Floor(x)

\* col != floor(col).  floor(NaN) is 0, and NULL != NULL is NULL.
NonIntegral(x) == x # Null /\ (x = NaN \/ x # Floor(x))

\* cast("int") raises.
CastFails(x) ==
  x # Null /\ (x = NaN \/ Truncated(x) < -2 * (MaxInt + 1) \/ Truncated(x) > 2 * MaxInt)

Cast(x) == IF x \in {Null, NaN} THEN x ELSE Truncated(x)

\* apply_type_normalizations.
Normalized(row) ==
  [row EXCEPT !.passenger_count = Cast(@), !.RatecodeID = Cast(@)]

\* array_append of a reason whose condition holds.
Tag(reason, condition) == IF condition THEN {reason} ELSE {}

PreNormalizationReasons(row) ==
  Tag("non_integral_passenger_count", NonIntegral(row.passenger_count)) \cup
  Tag("non_integral_ratecode", NonIntegral(row.RatecodeID)) \cup
  Tag("null_fare_amount", row.fare_amount = Null) \cup
  Tag("null_trip_distance", row.trip_distance = Null) \cup
  Tag("null_passenger_count", row.passenger_count = Null) \cup
  Tag("null_pickup_datetime", row.pickup = Null) \cup
  Tag("null_dropoff_datetime", row.dropoff = Null)

\* x < n and x > n, false when x is NULL.
Below(x, n) == x \notin {Null, NaN} /\ x < n

Above(x, n) == x # Null /\ (x = NaN \/ x > n)

PostNormalizationReasons(row) ==
  Tag("negative_fare", Below(row.fare_amount, 0)) \cup
  Tag("negative_distance", Below(row.trip_distance, 0)) \cup
  Tag("invalid_passenger_count",
      Below(row.passenger_count, 0) \/ Above(row.passenger_count, 18)) \cup
  Tag("pickup_after_dropoff",
      row.pickup # Null /\ row.dropoff # Null /\ row.pickup >= row.dropoff)

\* Fault: the integrality check comes after the cast.
RejectionReasonsAfterCast(row) ==
  PreNormalizationReasons(Normalized(row)) \cup
  PostNormalizationReasons(Normalized(row))

\* The _rejection_reasons column: both phases, with the casts in between.
RejectionReasons(row) ==
  PreNormalizationReasons(row) \cup PostNormalizationReasons(Normalized(row))

\* What the contract's descriptions say of an accepted row, read off the Bronze
\* row.  A NaN fare or distance is not negative.
Clean(row) ==
  /\ row.fare_amount = NaN \/ (row.fare_amount # Null /\ row.fare_amount >= 0)
  /\ row.trip_distance = NaN \/ (row.trip_distance # Null /\ row.trip_distance >= 0)
  /\ row.passenger_count \in {2 * n : n \in 0..9}
  /\ row.RatecodeID # Null => row.RatecodeID # NaN /\ row.RatecodeID % 2 = 0
  /\ row.pickup # Null
  /\ row.dropoff # Null
  /\ row.pickup < row.dropoff

=============================================================================

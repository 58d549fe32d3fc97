---------------------------- MODULE MCBronzeIngest ----------------------------
(***************************************************************************)
(* Small instances of Bronze ingestion: a contract of two columns, and     *)
(* three monthly files: one with the contract's columns, one with another  *)
(* spelling and another numeric type, one with an additional column.       *)
(***************************************************************************)
EXTENDS BronzeIngest

CONSTANTS jan, feb, mar, ingest1, ingest2

MCName == {"fare_amount", "FareAmount", "pickup", "tip"}

MCType == {"double", "bigint", "timestamp", "boolean"}

MCKey == [name \in MCName |-> IF name = "FareAmount" THEN "fare_amount" ELSE name]

MCFamily ==
  [type \in MCType |->
     CASE type \in {"double", "bigint"} -> "numeric"
       [] type = "timestamp"            -> "timestamp"
       [] OTHER                         -> "no family"]

Nullable(name, type) == [name |-> name, type |-> type, nullable |-> TRUE]

MCContract == {Nullable("fare_amount", "double"), Nullable("pickup", "timestamp")}

MCColumns ==
  [month \in File |->
     CASE month = jan -> <<Nullable("fare_amount", "double"), Nullable("pickup", "timestamp")>>
       [] month = feb -> <<Nullable("pickup", "timestamp"), Nullable("FareAmount", "bigint")>>
       [] month = mar -> <<Nullable("fare_amount", "double"), Nullable("pickup", "timestamp"),
                           Nullable("tip", "double")>>]

MCSymmetry == Permutations(Run)

=============================================================================

---------------------------- MODULE BronzeSchema ----------------------------
(***************************************************************************)
(* The comparison of a source file's columns with the Bronze contract      *)
(* (nyc_cab/contracts/bronze.py).  Monthly files differ in casing,         *)
(* underscores and numeric types; two names are equivalent when they have  *)
(* one normalized key, two types when they are equal or of one family.     *)
(*                                                                         *)
(* The columns observed in a file are a sequence of records, and the       *)
(* contract is a set of them; the text of names, keys and types does not   *)
(* matter, so Key and Family are constants.                                *)
(***************************************************************************)
EXTENDS Integers, Sequences, FiniteSets

CONSTANTS
  Name,      \* column names
  Type,      \* Spark types
  Key,       \* normalize_bronze_column_name: the key of a name
  Family,    \* the family of a type, or NoFamily
  NoFamily,  \* a type BRONZE_TYPE_FAMILIES does not list
  Contract   \* the expected fields

Column == [name : Name, type : Type, nullable : BOOLEAN]

ASSUME BronzeSchemaAssumption ==
  /\ Key \in [Name -> Name]
  /\ DOMAIN Family = Type
  /\ Contract \subseteq Column
  /\ \A x, y \in Contract : Key[x.name] = Key[y.name] => x = y

Names(cols) == {cols[i].name : i \in DOMAIN cols}

Keys(names) == {Key[n] : n \in names}

CanonicalNames == {x.name : x \in Contract}

Compatible(expected, observed) ==
  \/ expected = observed
  \/ Family[expected] # NoFamily /\ Family[expected] = Family[observed]

\* validate_bronze_column_set: no two columns of one key, none missing and
\* none unexpected.  Two columns of one name have one key as well.
ColumnSetValid(cols) ==
  /\ \A i, j \in DOMAIN cols : Key[cols[i].name] = Key[cols[j].name] => i = j
  /\ Keys(CanonicalNames) = Keys(Names(cols))

\* get_bronze_schema_field_checks: presence, type and nullability by key.
FieldsValid(cols) ==
  \A x \in Contract : \E i \in DOMAIN cols :
    /\ Key[cols[i].name] = Key[x.name]
    /\ Compatible(x.type, cols[i].type)
    /\ cols[i].nullable = x.nullable

\* Fault: the per-field check alone, which says nothing of extra columns.
SchemaValidPerField(cols) == FieldsValid(cols)

SchemaValid(cols) == ColumnSetValid(cols) /\ FieldsValid(cols)

\* get_bronze_schema_rename_plan: what a column is called afterwards.
Canonical(name) ==
  IF \E x \in Contract : Key[x.name] = Key[name]
  THEN (CHOOSE x \in Contract : Key[x.name] = Key[name]).name
  ELSE name

Canonicalized(cols) ==
  [i \in DOMAIN cols |-> [cols[i] EXCEPT !.name = Canonical(@)]]

\* The columns are those of the contract: each field once, under its own
\* name, with a compatible type.
MatchesContract(cols) ==
  /\ Names(cols) = CanonicalNames
  /\ \A i, j \in DOMAIN cols : cols[i].name = cols[j].name => i = j
  /\ \A x \in Contract : \A i \in DOMAIN cols :
       cols[i].name = x.name =>
         Compatible(x.type, cols[i].type) /\ cols[i].nullable = x.nullable

=============================================================================

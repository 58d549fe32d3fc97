------------------------------ MODULE Validation ------------------------------
(***************************************************************************)
(* The validation protocol of nyc_cab/_validation.py.  create_validated    *)
(* takes values of any Python type, checks all the types first, and then   *)
(* the structural rules, which compare numbers and strip strings and so    *)
(* raise when a value is none.                                             *)
(*                                                                         *)
(* A Python value is a record of its type and what the rules look at: the  *)
(* number of halves of a float, the number of an int, 0 or 1 for a bool,   *)
(* the words of a str, the instant of a datetime and whether it has a      *)
(* zone.  The arguments of a call are a record: every call in the code     *)
(* passes as many as there are specs.                                      *)
(***************************************************************************)
EXTENDS Integers, Sequences

PyInt(n) == [type |-> "int", value |-> n]

PyFloat(halves) == [type |-> "float", value |-> halves]

PyStr(words) == [type |-> "str", value |-> words]

PyDatetime(instant, aware) == [type |-> "datetime", value |-> <<instant, aware>>]

\* isinstance: a bool is an int.
IsInstance(v, type) == v.type = type \/ (v.type = "bool" /\ type = "int")

\* A CheckSpec, without and with an excluded type.
Exactly(type) == [required |-> type, excluded |-> "nothing"]

IntNotBool == [required |-> "int", excluded |-> "bool"]

-----------------------------------------------------------------------------
(* Structural rules: what one says of a value, or that it raises.          *)

Verdict(passed) == IF passed THEN "passes" ELSE "fails"

IsNumber(v) == v.type \in {"int", "bool", "float"}

\* Numbers of all types on one scale.
Halves(v) == IF v.type = "float" THEN v.value ELSE 2 * v.value

\* v.strip() != "".
NotBlank(v) == IF v.type = "str" THEN Verdict(v.value # << >>) ELSE "raises"

\* low <= v <= high, and v >= low; neither holds of a NaN.
Within(v, low, high) ==
  IF IsNumber(v)
  THEN Verdict(Halves(v) \in Int /\ 2 * low <= Halves(v) /\ Halves(v) <= 2 * high)
  ELSE "raises"

\* Fault: v > low.
MoreThan(v, low) ==
  IF IsNumber(v) THEN Verdict(Halves(v) \in Int /\ Halves(v) > 2 * low) ELSE "raises"

AtLeast(v, low) ==
  IF IsNumber(v) THEN Verdict(Halves(v) \in Int /\ Halves(v) >= 2 * low) ELSE "raises"

\* v.tzinfo is not None.
Aware(v) == IF v.type = "datetime" THEN Verdict(v.value[2]) ELSE "raises"

\* v == w.
PyEqual(v, w) ==
  IF IsNumber(v) /\ IsNumber(w) THEN Halves(v) = Halves(w)
  ELSE v.type = w.type /\ v.value = w.value

-----------------------------------------------------------------------------
(* create_validated.                                                       *)

\* Fault: the excluded type is no longer looked at.
TypeViolationsBoolIsInt(specs, args) ==
  {f \in DOMAIN specs : ~IsInstance(args[f], specs[f].required)}

TypeViolations(specs, args) ==
  {f \in DOMAIN specs : \/ ~IsInstance(args[f], specs[f].required)
                        \/ IsInstance(args[f], specs[f].excluded)}

\* What validate() does, given the verdicts of the rules.
Validate(checks) ==
  IF \E f \in DOMAIN checks : checks[f] = "raises" THEN "TypeError"
  ELSE IF \E f \in DOMAIN checks : checks[f] = "fails" THEN "InvalidRequestError"
  ELSE "created"

Created(specs, args, checks) ==
  IF TypeViolations(specs, args) # {} THEN "InvalidRequestError"
  ELSE Validate(checks)

=============================================================================

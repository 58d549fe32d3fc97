--------------------------- MODULE MCTripConsumer ---------------------------
(***************************************************************************)
(* Small instances of the consumer: two partitions, two slices, one slice  *)
(* with two hours and two events in one of them, so that duplicates, other *)
(* slices' events, invalid payloads and hours that appear later all occur. *)
(***************************************************************************)
EXTENDS TripConsumer, TLC

CONSTANTS ea, eb, ec, ed, s1, s2, r1, r2

MCSliceOf == [e \in EventId |-> IF e = ed THEN s2 ELSE s1]
MCHourOf == [e \in EventId |-> IF e = ec THEN 2 ELSE 1]

\* ea and eb belong to the same slice and hour.
MCSymmetry == Permutations({ea, eb})

=============================================================================

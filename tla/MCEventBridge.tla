---------------------------- MODULE MCEventBridge ----------------------------
(***************************************************************************)
(* A small instance of the event bridge: two slices; the first has two     *)
(* rows of one event, one of another hour, and one for the quarantine.     *)
(***************************************************************************)
EXTENDS EventBridge, TLC

CONSTANTS jan, feb, morning, evening, ea, eb, ec, bad, a1, a2, b1, c1, nan,
          p1, p2, run1, run2

MCSliceOf == [e \in EventId |-> IF e = ec THEN feb ELSE jan]

MCHourOf == [e \in EventId |-> IF e = eb THEN evening ELSE morning]

MCIdOf ==
  [row \in Row |-> CASE row \in {a1, a2} -> ea
                     [] row \in {b1, nan} -> eb
                     [] OTHER -> ec]

MCContents == {{a1, b1}, {a1, a2, nan}, {c1}}

MCRoute == [key \in Slice \X Hour |-> IF key[2] = morning THEN 0 ELSE 1]

MCSymmetry == Permutations(Run) \cup Permutations(Producer)

=============================================================================

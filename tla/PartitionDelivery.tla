-------------------------- MODULE PartitionDelivery --------------------------
(***************************************************************************)
(* What the producer side of the event bridge promises about one topic,    *)
(* with no librdkafka in it (produce_trip_completed_events).               *)
(*                                                                         *)
(* A run lists the rows whose messages belong on the topic.  Each of them  *)
(* reaches the topic at most once, at any time until the run returns; the  *)
(* run returns only when every one of them is there.  After a run has      *)
(* failed, the messages it gave up on may still arrive.                    *)
(***************************************************************************)
CONSTANTS
  Run,  \* the invokers of the producer
  Row   \* the rows whose messages belong on the topic

VARIABLES
  phase,  \* where each run is
  unsent  \* the rows of each run that are not on the topic

vars == <<phase, unsent>>

Init ==
  /\ phase = [r \in Run |-> "idle"]
  /\ unsent = [r \in Run |-> {}]

Start(r, rows) ==
  /\ phase[r] # "sending"
  /\ phase' = [phase EXCEPT ![r] = "sending"]
  /\ unsent' = [unsent EXCEPT ![r] = rows]

Arrive(r, row) ==
  /\ phase[r] \in {"sending", "failed"}
  /\ row \in unsent[r]
  /\ unsent' = [unsent EXCEPT ![r] = @ \ {row}]
  /\ UNCHANGED phase

Return(r) ==
  /\ phase[r] = "sending"
  /\ unsent[r] = {}
  /\ phase' = [phase EXCEPT ![r] = "done"]
  /\ UNCHANGED unsent

Fail(r) ==
  /\ phase[r] = "sending"
  /\ phase' = [phase EXCEPT ![r] = "failed"]
  /\ UNCHANGED unsent

Next ==
  \E r \in Run :
    \/ \E rows \in SUBSET Row : Start(r, rows)
    \/ \E row \in Row : Arrive(r, row)
    \/ Return(r)
    \/ Fail(r)

Spec == Init /\ [][Next]_vars

=============================================================================

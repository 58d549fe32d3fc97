----------------------------- MODULE SliceReplay -----------------------------
(***************************************************************************)
(* What the consumer side of the event bridge promises, with no Kafka      *)
(* consumer in it: "read the complete slice or write nothing" (consumer    *)
(* module docstring, design log decision 42).                              *)
(*                                                                         *)
(* A run ends by publishing, or without writing anything.  Publishing is   *)
(* one atomic step that replaces the hourly rows of the run's slice by the *)
(* counts of the distinct events of one window of the topic.  The window   *)
(* holds at least every record the topic held when the run began, and is a *)
(* prefix of every partition.  Nothing else ever touches a row.            *)
(***************************************************************************)
EXTENDS EventLog

CONSTANTS
  Run,         \* the invokers of the consumer
  MaxLen       \* bound on the records of one partition

VARIABLES
  log,     \* the records of each partition, oldest first
  table,   \* the committed event counts, per slice and hour
  active,  \* the runs in progress
  slice,   \* the slice each run is for
  since    \* the end offsets of the topic when each run in progress began

vars == <<log, table, active, slice, since>>

Nowhere == [p \in Partition |-> 0]

Init ==
  /\ log = [p \in Partition |-> << >>]
  /\ table = [s \in Slice |-> [h \in Hour |-> 0]]
  /\ active = {}
  /\ slice \in [Run -> Slice]
  /\ since = [r \in Run |-> Nowhere]

Produce(p, m) ==
  /\ Len(log[p]) < MaxLen
  /\ log' = [log EXCEPT ![p] = Append(@, m)]
  /\ UNCHANGED <<table, active, slice, since>>

Begin(r, s) ==
  /\ r \notin active
  /\ active' = active \cup {r}
  /\ slice' = [slice EXCEPT ![r] = s]
  /\ since' = [since EXCEPT ![r] = Ends(log)]
  /\ UNCHANGED <<log, table>>

End(r) ==
  /\ r \in active
  /\ active' = active \ {r}
  /\ since' = [since EXCEPT ![r] = Nowhere]
  /\ UNCHANGED <<log, slice>>

Publish(r, w) ==
  /\ \A p \in Partition : since[r][p] <= w[p]
  /\ End(r)
  /\ table' = [table EXCEPT ![slice[r]] =
                 Overwrite(@, HourCounts(UniqueEvents(log, w, slice[r])))]

WriteNothing(r) == End(r) /\ UNCHANGED table

Next ==
  \/ \E p \in Partition, m \in Message : Produce(p, m)
  \/ \E r \in Run : \/ \E s \in Slice : Begin(r, s)
                    \/ \E w \in Windows(log) : Publish(r, w)
                    \/ WriteNothing(r)

Spec == Init /\ [][Next]_vars

=============================================================================

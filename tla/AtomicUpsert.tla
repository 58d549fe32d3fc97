---------------------------- MODULE AtomicUpsert ----------------------------
(***************************************************************************)
(* What the sink promises its callers, with no connection, statement or    *)
(* row lock in it: "commit-on-success / rollback-on-exception" (_connect), *)
(* "partial writes are not supported by the contract"                      *)
(* (upsert_hourly_counts).                                                 *)
(*                                                                         *)
(* A call names the counts of some hours of a slice.  It takes effect in   *)
(* one step, in which each of its hours gets its count and no other row    *)
(* changes, or it takes none.                                              *)
(***************************************************************************)
EXTENDS Integers

CONSTANTS
  Client,   \* the callers of the sink
  Slice,    \* the (cab_type, year, month) triples
  Hour,     \* the hours of the day
  MaxCount  \* bound on the count of one hour

VARIABLES
  table,    \* the event counts; 0 for a row that is not there
  requests  \* the calls in progress; an hour a call leaves alone has count 0

vars == <<table, requests>>

Init ==
  /\ table = [s \in Slice |-> [h \in Hour |-> 0]]
  /\ requests = {}

Call(c, s, counts) ==
  /\ \A q \in requests : q.client # c
  /\ requests' = requests \cup {[client |-> c, slice |-> s, count |-> counts]}
  /\ UNCHANGED table

Commit(q) ==
  /\ requests' = requests \ {q}
  /\ table' = [table EXCEPT ![q.slice] =
                 [h \in Hour |-> IF q.count[h] > 0 THEN q.count[h] ELSE @[h]]]

Raise(q) ==
  /\ requests' = requests \ {q}
  /\ UNCHANGED table

Next ==
  \/ \E c \in Client, s \in Slice, counts \in [Hour -> 0..MaxCount] :
       Call(c, s, counts)
  \/ \E q \in requests : Commit(q) \/ Raise(q)

Spec == Init /\ [][Next]_vars

=============================================================================

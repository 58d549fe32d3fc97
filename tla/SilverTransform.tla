--------------------------- MODULE SilverTransform ---------------------------
(***************************************************************************)
(* The Silver transform (nyc_cab/transform/silver_entrypoint.py): runs of  *)
(* transform_silver_month read a Bronze partition, split its rows by the   *)
(* rules, and overwrite the partition of their month in two tables, one    *)
(* after the other.                                                        *)
(*                                                                         *)
(* A data frame is lazy: every count and every write reads the Bronze      *)
(* files again, the ones listed when the frame was made.  An ingestion     *)
(* that rewrites the partition removes them, so reading fails from then on *)
(* but never yields other rows.  Spark commits a dynamic partition         *)
(* overwrite by deleting the old partition and renaming the staged one; a  *)
(* job without rows stages no partition and replaces none.                 *)
(*                                                                         *)
(* At most one run per month is in progress; runs of several months        *)
(* overlap.  Any of them may fail or die anywhere.                         *)
(***************************************************************************)
EXTENDS SilverRules, Sequences, FiniteSets

CONSTANTS
  Month,         \* the slices the Silver contract supports
  Contents,      \* the sets of rows a Bronze partition may hold
  Run,           \* the invokers of transform_silver_month
  MaxIngestions  \* bound on the ingestions of one month

ASSUME SilverTransformAssumption ==
  /\ \A rows \in Contents : rows \subseteq Row /\ rows # {} /\ IsFiniteSet(rows)
  /\ MaxIngestions \in Nat

VARIABLES
  ingested,  \* what each month's Bronze partition has held, the last one now
  accepted,  \* the silver table, per month
  rejected,  \* the silver_rejected table, per month
  pc,        \* where the run is
  month,     \* the month the run transforms
  read       \* the ingestion whose files the run's frame lists

tables == <<accepted, rejected>>
vars == <<ingested, tables, pc, month, read>>

Active == {"count_bronze", "write_accepted", "replace_accepted",
           "write_rejected", "replace_rejected", "count_outputs"}
Ended  == {"done", "failed", "lost", "invalid_result"}

\* A partition on disk: absent, or rows and the ingestion they come from.
Missing == [from |-> 0, rows |-> {}]

Partition == [from : Nat, rows : SUBSET Row]

TypeOK ==
  /\ ingested \in [Month -> Seq(Contents)]
  /\ accepted \in [Month -> Partition]
  /\ rejected \in [Month -> Partition]
  /\ pc \in [Run -> {"idle"} \cup Active \cup Ended]
  /\ month \in [Run -> Month]
  /\ read \in [Run -> Nat]

Init ==
  /\ ingested = [m \in Month |-> << >>]
  /\ accepted = [m \in Month |-> Missing]
  /\ rejected = [m \in Month |-> Missing]
  /\ pc = [r \in Run |-> "idle"]
  /\ month \in [Run -> Month]
  /\ read = [r \in Run |-> 0]

Goto(r, where) == pc' = [pc EXCEPT ![r] = where]

\* Bronze is rewritten by an ingestion of the month.
Ingest(m, rows) ==
  /\ Len(ingested[m]) < MaxIngestions
  /\ ingested' = [ingested EXCEPT ![m] = Append(@, rows)]
  /\ UNCHANGED <<tables, pc, month, read>>

-----------------------------------------------------------------------------
(* One run.                                                                *)

\* The request is for a slice the contract does not support.
Refuse(r) ==
  /\ pc[r] \in {"idle"} \cup Ended
  /\ Goto(r, "failed")
  /\ UNCHANGED <<ingested, tables, month, read>>

\* The Bronze partition is opened, which fails when there is none.
Start(r, m) ==
  /\ pc[r] \in {"idle"} \cup Ended
  /\ \A q \in Run : month[q] = m => pc[q] \notin Active
  /\ month' = [month EXCEPT ![r] = m]
  /\ read' = [read EXCEPT ![r] = Len(ingested[m])]
  /\ Goto(r, IF ingested[m] = << >> THEN "failed" ELSE "count_bronze")
  /\ UNCHANGED <<ingested, tables>>

\* The rows of the run's frame.
Frame(r) == ingested[month[r]][read[r]]

\* The files of the frame are still there.
Readable(r) == read[r] = Len(ingested[month[r]])

\* Fault: a row with a single reason is in neither half.
RejectsOfSeveral(rows) ==
  {row \in rows : RejectionReasons(row) # {}
                  /\ \E x, y \in RejectionReasons(row) : x # y}

\* split_accepted_rejected.
Accepts(rows) == {row \in rows : RejectionReasons(row) = {}}

Rejects(rows) == {row \in rows : RejectionReasons(row) # {}}

\* A job that writes the rows out of frame raises on a cast.  The filter looks
\* at every row's passenger_count; the rest is cast in the rows it lets through.
CastRaises(frame, out) ==
  \/ \E row \in frame : CastFails(row.passenger_count)
  \/ \E row \in out : CastFails(row.RatecodeID)

CountBronze(r) ==
  /\ pc[r] = "count_bronze"
  /\ Goto(r, IF Readable(r) THEN "write_accepted" ELSE "failed")
  /\ UNCHANGED <<ingested, tables, month, read>>

WriteAccepted(r) ==
  /\ pc[r] = "write_accepted"
  /\ Goto(r, IF Readable(r) /\ ~CastRaises(Frame(r), Accepts(Frame(r)))
             THEN "replace_accepted" ELSE "failed")
  /\ UNCHANGED <<ingested, tables, month, read>>

\* Fault: mode("append").
Appended(table, m, output) ==
  [table EXCEPT ![m] = [from |-> output.from, rows |-> @.rows \cup output.rows]]

\* Fault: mode("ignore") writes only where nothing is.
KeptIfPresent(table, m, output) ==
  IF table[m] = Missing THEN [table EXCEPT ![m] = output] ELSE table

\* Fault: static overwrite, which clears the whole table.
OnlyOutput(table, m, output) ==
  [k \in Month |-> IF k = m THEN output ELSE Missing]

\* Dynamic partition overwrite.
Overwritten(table, m, output) ==
  IF output.rows = {} THEN table ELSE [table EXCEPT ![m] = output]

ReplaceAccepted(r) ==
  /\ pc[r] = "replace_accepted"
  /\ accepted' = Overwritten(accepted, month[r],
                             [from |-> read[r], rows |-> Accepts(Frame(r))])
  /\ Goto(r, "write_rejected")
  /\ UNCHANGED <<ingested, rejected, month, read>>

WriteRejected(r) ==
  /\ pc[r] = "write_rejected"
  /\ Goto(r, IF Readable(r) /\ ~CastRaises(Frame(r), Rejects(Frame(r)))
             THEN "replace_rejected" ELSE "failed")
  /\ UNCHANGED <<ingested, tables, month, read>>

ReplaceRejected(r) ==
  /\ pc[r] = "replace_rejected"
  /\ rejected' = Overwritten(rejected, month[r],
                             [from |-> read[r], rows |-> Rejects(Frame(r))])
  /\ Goto(r, "count_outputs")
  /\ UNCHANGED <<ingested, accepted, month, read>>

\* The structural check of SilverTransformResult that is not settled before the
\* run starts: the request it repeats has been validated, the two paths are
\* directories Spark has written or nothing, and a count is never negative.
Reconciles(rows) ==
  Cardinality(rows) = Cardinality(Accepts(rows)) + Cardinality(Rejects(rows))

\* Both halves are counted, and the result is validated.
CountOutputs(r) ==
  /\ pc[r] = "count_outputs"
  /\ Goto(r, IF ~Readable(r) THEN "failed"
             ELSE IF Reconciles(Frame(r)) THEN "done" ELSE "invalid_result")
  /\ UNCHANGED <<ingested, tables, month, read>>

\* Spark or the disk fails, or the process dies.
Fail(r) ==
  /\ pc[r] \in Active
  /\ Goto(r, "failed")
  /\ UNCHANGED <<ingested, tables, month, read>>

\* The process dies after a partition was deleted and before the staged one has
\* its name.
FailBetweenDeleteAndRename(r) ==
  /\ \/ /\ pc[r] = "replace_accepted"
        /\ Accepts(Frame(r)) # {}
        /\ accepted' = [accepted EXCEPT ![month[r]] = Missing]
        /\ UNCHANGED rejected
     \/ /\ pc[r] = "replace_rejected"
        /\ Rejects(Frame(r)) # {}
        /\ rejected' = [rejected EXCEPT ![month[r]] = Missing]
        /\ UNCHANGED accepted
  /\ Goto(r, "lost")
  /\ UNCHANGED <<ingested, month, read>>

Step(r) ==
  \/ Refuse(r)
  \/ \E m \in Month : Start(r, m)
  \/ CountBronze(r)
  \/ WriteAccepted(r)
  \/ ReplaceAccepted(r)
  \/ WriteRejected(r)
  \/ ReplaceRejected(r)
  \/ CountOutputs(r)
  \/ Fail(r)
  \/ FailBetweenDeleteAndRename(r)

Next ==
  \/ \E m \in Month, rows \in Contents : Ingest(m, rows)
  \/ \E r \in Run : Step(r)

Spec == Init /\ [][Next]_vars

-----------------------------------------------------------------------------
(* What the transform promises.                                            *)

\* Every row in silver satisfies every constraint of the contract, whatever the
\* cast would have made of it.
AcceptedAreClean == \A m \in Month : \A row \in accepted[m].rows : Clean(row)

\* Whatever fails or is run again, and while other months are transformed and Bronze
\* is rewritten, a partition is absent or the whole half of one ingestion: never a
\* part of it, and never a mixture.  Two runs of one month at a time are left out.
PartitionsWhole ==
  \A m \in Month :
    /\ \/ accepted[m] = Missing
       \/ /\ accepted[m].from \in DOMAIN ingested[m]
          /\ accepted[m].rows = Accepts(ingested[m][accepted[m].from])
    /\ \/ rejected[m] = Missing
       \/ /\ rejected[m].from \in DOMAIN ingested[m]
          /\ rejected[m].rows = Rejects(ingested[m][rejected[m].from])

\* The reconciliation invariant of the result never fails: it would be raised
\* after both tables have been written.
NeverInvalidResult == \A r \in Run : pc[r] # "invalid_result"

Returns(r) == pc[r] = "count_outputs" /\ pc'[r] = "done"

\* A run that returns has left every row of its frame in the one table or the
\* other, replacing what older runs had written there.
ReturnedMeansStored ==
  [][\A r \in Run : Returns(r) =>
       \A row \in Frame(r) :
         \/ accepted[month[r]].from = read[r] /\ row \in accepted[month[r]].rows
         \/ rejected[month[r]].from = read[r] /\ row \in rejected[month[r]].rows]_vars

\* A run writes the partitions of its own month only.
OtherMonthsUntouched ==
  [][\A m \in Month :
       accepted'[m] # accepted[m] \/ rejected'[m] # rejected[m] =>
         \E r \in Run : month[r] = m /\ pc[r] \in {"replace_accepted", "replace_rejected"}
    ]_tables

\* The two partitions together count what Bronze counts, when a run returns:
\* "This guarantees Bronze count = Silver accepted + Silver rejected, provably
\* and inspectably" (design log, decision 27).
TablesReconcile ==
  [][\A r \in Run : Returns(r) =>
       Cardinality(Frame(r)) =
         Cardinality(accepted[month[r]].rows) + Cardinality(rejected[month[r]].rows)]_vars

=============================================================================

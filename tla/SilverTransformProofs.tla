------------------------- MODULE SilverTransformProofs -------------------------
(***************************************************************************)
(* Theorems about the Silver rules, for every row, and about the Silver    *)
(* transform, for any months, rows, runs and ingestions.                   *)
(*                                                                         *)
(* That a partition is whole is inductive once the frame of a run in       *)
(* progress is known to be one of the month's ingestions; that silver      *)
(* holds clean rows only then follows from the rules.  What a run that     *)
(* returns has stored rests on the runs of a month taking turns.           *)
(***************************************************************************)
EXTENDS SilverTransform, FiniteSetTheorems, TLAPS

-----------------------------------------------------------------------------
(* The rules.                                                              *)

\* Halves: a number is integral exactly when it is its own floor.
LEMMA FloorInt ==
  ASSUME NEW x \in Int
  PROVE  /\ Floor(x) \in Int
         /\ x = Floor(x) <=> x % 2 = 0
         /\ Floor(x) <= x
         /\ x < Floor(x) + 2
BY Z3 DEF Floor

\* The cast changes no integral value.
LEMMA CastIntegral ==
  ASSUME NEW x \in Int, x % 2 = 0
  PROVE  Cast(x) = x
<1>1. (-x) % 2 = 0
  BY Z3
<1>2. Floor(x) = x /\ Floor(-x) = -x
  BY <1>1, FloorInt
<1> QED
  BY <1>2, SilverRulesAssumption DEF Cast, Truncated

\* The passenger counts the rules let through are the whole numbers from 0 to 9.
LEMMA PassengerRule ==
  ASSUME NEW x \in Double
  PROVE  (/\ ~NonIntegral(x)
          /\ x # Null
          /\ ~Below(Cast(x), 0)
          /\ ~Above(Cast(x), 18))
         <=> x \in {2 * n : n \in 0..9}
<1>1. CASE x \in {Null, NaN}
  <2>1. x \notin {2 * n : n \in 0..9}
    BY <1>1, SilverRulesAssumption
  <2> QED
    BY <1>1, <2>1 DEF NonIntegral
<1>2. CASE x \in Int
  <2>1. x # Null /\ x # NaN
    BY <1>2, SilverRulesAssumption
  <2>2. NonIntegral(x) <=> x % 2 # 0
    BY <1>2, <2>1, FloorInt DEF NonIntegral
  <2>3. CASE x % 2 = 0
    <3>1. Cast(x) = x
      BY <1>2, <2>3, CastIntegral
    <3>2. (~Below(Cast(x), 0) /\ ~Above(Cast(x), 18)) <=> (0 <= x /\ x <= 18)
      BY <1>2, <2>1, <3>1 DEF Below, Above
    <3>3. PICK k \in Int : x = 2 * k
      BY <1>2, <2>3, Z3
    <3>4. x \in {2 * n : n \in 0..9} <=> (0 <= x /\ x <= 18)
      BY <1>2, <3>3
    <3> QED
      BY <2>1, <2>2, <2>3, <3>2, <3>4
  <2>4. CASE x % 2 # 0
    <3>1. x \notin {2 * n : n \in 0..9}
      BY <1>2, <2>4
    <3> QED
      BY <2>2, <2>4, <3>1
  <2> QED
    BY <2>3, <2>4
<1> QED
  BY <1>1, <1>2 DEF Double

\* The rate codes the rules let through are NULL and the whole numbers.
LEMMA RatecodeRule ==
  ASSUME NEW x \in Double
  PROVE  ~NonIntegral(x) <=> (x # Null => x # NaN /\ x % 2 = 0)
<1>1. CASE x \in {Null, NaN}
  BY <1>1, SilverRulesAssumption DEF NonIntegral
<1>2. CASE x \in Int
  BY <1>2, FloorInt, SilverRulesAssumption DEF NonIntegral
<1> QED
  BY <1>1, <1>2 DEF Double

\* A fare or a distance is let through when it is NaN or not negative.
LEMMA AmountRule ==
  ASSUME NEW x \in Double
  PROVE  (x # Null /\ ~Below(x, 0)) <=> (x = NaN \/ (x # Null /\ x >= 0))
<1>1. CASE x \in {Null, NaN}
  BY <1>1, SilverRulesAssumption DEF Below
<1>2. CASE x \in Int
  BY <1>2, SilverRulesAssumption DEF Below
<1> QED
  BY <1>1, <1>2 DEF Double

\* The phases together: what an empty _rejection_reasons column says of a row.
LEMMA NoReasons ==
  ASSUME NEW row \in Row
  PROVE  RejectionReasons(row) = {} <=>
           /\ ~NonIntegral(row.passenger_count)
           /\ row.passenger_count # Null
           /\ ~Below(Cast(row.passenger_count), 0)
           /\ ~Above(Cast(row.passenger_count), 18)
           /\ ~NonIntegral(row.RatecodeID)
           /\ row.fare_amount # Null /\ ~Below(row.fare_amount, 0)
           /\ row.trip_distance # Null /\ ~Below(row.trip_distance, 0)
           /\ row.pickup # Null /\ row.dropoff # Null /\ ~(row.pickup >= row.dropoff)
<1> DEFINE norm == Normalized(row)
<1>1. /\ norm.passenger_count = Cast(row.passenger_count)
      /\ norm.fare_amount = row.fare_amount
      /\ norm.trip_distance = row.trip_distance
      /\ norm.pickup = row.pickup
      /\ norm.dropoff = row.dropoff
  BY DEF Normalized, Row
<1>2. PreNormalizationReasons(row) = {} <=>
        /\ ~NonIntegral(row.passenger_count)
        /\ ~NonIntegral(row.RatecodeID)
        /\ row.fare_amount # Null
        /\ row.trip_distance # Null
        /\ row.passenger_count # Null
        /\ row.pickup # Null
        /\ row.dropoff # Null
  BY DEF PreNormalizationReasons, Tag
<1>3. PostNormalizationReasons(norm) = {} <=>
        /\ ~Below(row.fare_amount, 0)
        /\ ~Below(row.trip_distance, 0)
        /\ ~(Below(Cast(row.passenger_count), 0) \/ Above(Cast(row.passenger_count), 18))
        /\ ~(row.pickup # Null /\ row.dropoff # Null /\ row.pickup >= row.dropoff)
  <2> HIDE DEF norm
  <2> QED
    BY <1>1 DEF PostNormalizationReasons, Tag
<1>4. RejectionReasons(row) = {} <=>
        PreNormalizationReasons(row) = {} /\ PostNormalizationReasons(norm) = {}
  BY DEF RejectionReasons
<1> QED
  BY <1>2, <1>3, <1>4

\* The two phases with the casts in between accept exactly the rows that satisfy
\* every constraint the contract describes, for every row of doubles, nulls and
\* NaNs: the order of the phases loses nothing and lets nothing through.
THEOREM AcceptedIffClean ==
  ASSUME NEW row \in Row
  PROVE  RejectionReasons(row) = {} <=> Clean(row)
<1>1. /\ row.passenger_count \in Double
      /\ row.RatecodeID \in Double
      /\ row.fare_amount \in Double
      /\ row.trip_distance \in Double
      /\ row.pickup \in Timestamp
      /\ row.dropoff \in Timestamp
  BY DEF Row
<1>2. (/\ ~NonIntegral(row.passenger_count)
       /\ row.passenger_count # Null
       /\ ~Below(Cast(row.passenger_count), 0)
       /\ ~Above(Cast(row.passenger_count), 18))
      <=> row.passenger_count \in {2 * n : n \in 0..9}
  BY <1>1, PassengerRule
<1>3. ~NonIntegral(row.RatecodeID) <=>
        (row.RatecodeID # Null => row.RatecodeID # NaN /\ row.RatecodeID % 2 = 0)
  BY <1>1, RatecodeRule
<1>4. /\ (row.fare_amount # Null /\ ~Below(row.fare_amount, 0)) <=>
           (row.fare_amount = NaN \/ (row.fare_amount # Null /\ row.fare_amount >= 0))
      /\ (row.trip_distance # Null /\ ~Below(row.trip_distance, 0)) <=>
           (row.trip_distance = NaN \/ (row.trip_distance # Null /\ row.trip_distance >= 0))
  BY <1>1, AmountRule
<1>5. (row.pickup # Null /\ row.dropoff # Null /\ ~(row.pickup >= row.dropoff)) <=>
        (row.pickup # Null /\ row.dropoff # Null /\ row.pickup < row.dropoff)
  BY <1>1, SilverRulesAssumption DEF Timestamp
<1> QED
  BY <1>2, <1>3, <1>4, <1>5, NoReasons DEF Clean

\* The two halves of a partition have its rows between them, each row in one.
LEMMA HalvesReconcile ==
  ASSUME NEW rows, IsFiniteSet(rows)
  PROVE  Reconciles(rows)
<1>1. /\ IsFiniteSet(Accepts(rows))
      /\ IsFiniteSet(Rejects(rows))
  BY FS_Subset DEF Accepts, Rejects
<1>2. /\ Accepts(rows) \cup Rejects(rows) = rows
      /\ Accepts(rows) \cap Rejects(rows) = {}
  BY DEF Accepts, Rejects
<1>3. /\ Cardinality(Accepts(rows)) \in Nat
      /\ Cardinality(Rejects(rows)) \in Nat
  BY <1>1, FS_CardinalityType
<1>4. Cardinality(Accepts(rows) \cup Rejects(rows)) =
        Cardinality(Accepts(rows)) + Cardinality(Rejects(rows))
          - Cardinality(Accepts(rows) \cap Rejects(rows))
  BY <1>1, FS_Union
<1>5. Cardinality(Accepts(rows) \cap Rejects(rows)) = 0
  BY <1>2, FS_EmptySet
<1>6. Cardinality(Accepts(rows)) + Cardinality(Rejects(rows)) - 0 =
        Cardinality(Accepts(rows)) + Cardinality(Rejects(rows))
  BY <1>3
<1>7. Cardinality(Accepts(rows) \cup Rejects(rows)) =
        Cardinality(Accepts(rows)) + Cardinality(Rejects(rows))
  BY <1>4, <1>5, <1>6, Zenon
<1> QED
  BY <1>2, <1>7, Zenon DEF Reconciles

-----------------------------------------------------------------------------
(* The types, and the frames of runs in progress.                          *)

\* A run in progress reads an ingestion of its month, which need not be the
\* last one any more.
FramesListed ==
  \A r \in Run : pc[r] \in Active => read[r] \in DOMAIN ingested[month[r]]

Inv == TypeOK /\ FramesListed

\* What an ingestion is.
LEMMA IngestionType ==
  ASSUME TypeOK, NEW m \in Month, NEW n \in DOMAIN ingested[m]
  PROVE  /\ ingested[m][n] \in Contents
         /\ ingested[m][n] \subseteq Row
         /\ IsFiniteSet(ingested[m][n])
         /\ n \in Nat
<1>1. ingested[m] \in Seq(Contents)
  BY DEF TypeOK
<1>2. n \in Nat /\ ingested[m][n] \in Contents
  BY <1>1
<1> QED
  BY <1>2, SilverTransformAssumption

\* An ingestion keeps the months' history.
LEMMA IngestKeeps ==
  ASSUME TypeOK, NEW m \in Month, NEW rows \in Contents, Ingest(m, rows)
  PROVE  /\ ingested' \in [Month -> Seq(Contents)]
         /\ \A k \in Month : \A n \in DOMAIN ingested[k] :
              n \in DOMAIN ingested'[k] /\ ingested'[k][n] = ingested[k][n]
<1>1. ingested \in [Month -> Seq(Contents)]
  BY DEF TypeOK
<1>2. ASSUME NEW k \in Month, NEW n \in DOMAIN ingested[k]
      PROVE  n \in DOMAIN ingested'[k] /\ ingested'[k][n] = ingested[k][n]
  <2>1. ingested[k] \in Seq(Contents)
    BY <1>1
  <2>2. CASE k = m
    <3>1. ingested'[k] = Append(ingested[k], rows)
      BY <1>1, <2>2 DEF Ingest
    <3> QED
      BY <2>1, <3>1
  <2>3. CASE k # m
    BY <1>1, <2>3 DEF Ingest
  <2> QED
    BY <2>2, <2>3
<1> QED
  BY <1>1, <1>2 DEF Ingest

\* What a job writes is a partition.
LEMMA OverwrittenType ==
  ASSUME NEW table \in [Month -> Partition], NEW m \in Month,
         NEW output \in Partition
  PROVE  Overwritten(table, m, output) \in [Month -> Partition]
BY DEF Overwritten

\* The halves of a frame in progress are partitions.
LEMMA HalvesType ==
  ASSUME Inv, NEW r \in Run, pc[r] \in Active
  PROVE  /\ month[r] \in Month
         /\ Frame(r) \subseteq Row
         /\ [from |-> read[r], rows |-> Accepts(Frame(r))] \in Partition
         /\ [from |-> read[r], rows |-> Rejects(Frame(r))] \in Partition
<1>1. month[r] \in Month /\ read[r] \in Nat
  BY DEF Inv, TypeOK
<1>2. Frame(r) \subseteq Row
  BY <1>1, IngestionType DEF Inv, FramesListed, Frame
<1>3. Accepts(Frame(r)) \subseteq Row /\ Rejects(Frame(r)) \subseteq Row
  BY <1>2 DEF Accepts, Rejects
<1> QED
  BY <1>1, <1>2, <1>3 DEF Partition

\* An absent partition is a partition.
LEMMA MissingType == Missing \in Partition
BY DEF Missing, Partition

\* Nothing has been ingested or read at first.
LEMMA InitInv == Init => Inv
<1> SUFFICES ASSUME Init PROVE Inv
  OBVIOUS
<1>1. TypeOK
  BY MissingType DEF Init, TypeOK
<1>2. FramesListed
  BY DEF Init, FramesListed, Active
<1> QED
  BY <1>1, <1>2 DEF Inv

\* A run changes its own place only, and keeps its frame until it starts anew.
LEMMA StepInv ==
  ASSUME Inv, NEW r \in Run, Step(r)
  PROVE  Inv'
<1> USE DEF Inv
<1>1. ASSUME NEW m \in Month, Start(r, m) PROVE Inv'
  <2>1. ingested[m] \in Seq(Contents)
    BY DEF TypeOK
  <2>2. ingested[m] # << >> => Len(ingested[m]) \in DOMAIN ingested[m]
    BY <2>1
  <2>3. TypeOK'
    BY <1>1, <2>1 DEF Start, Goto, TypeOK, tables, Active, Ended
  <2>4. FramesListed'
    BY <1>1, <2>2 DEF Start, Goto, TypeOK, FramesListed, Active
  <2> QED
    BY <2>3, <2>4
<1>2. ASSUME UNCHANGED <<ingested, month, read>>,
             pc[r] \in Active,
             pc' = [pc EXCEPT ![r] = pc'[r]],
             pc'[r] \in Active \cup Ended,
             accepted' \in [Month -> Partition],
             rejected' \in [Month -> Partition]
      PROVE  Inv'
  <2>1. TypeOK'
    BY <1>2 DEF TypeOK
  <2>2. FramesListed'
    BY <1>2 DEF TypeOK, FramesListed
  <2> QED
    BY <2>1, <2>2
<1>3. CASE CountBronze(r)
  BY <1>2, <1>3 DEF CountBronze, Goto, TypeOK, tables, Active, Ended
<1>4. CASE WriteAccepted(r)
  BY <1>2, <1>4 DEF WriteAccepted, Goto, TypeOK, tables, Active, Ended
<1>5. CASE ReplaceAccepted(r)
  <2>1. pc[r] \in Active
    BY <1>5 DEF ReplaceAccepted, Active
  <2>2. accepted' \in [Month -> Partition]
    BY <1>5, <2>1, HalvesType, OverwrittenType DEF ReplaceAccepted, TypeOK
  <2> QED
    BY <1>2, <1>5, <2>2 DEF ReplaceAccepted, Goto, TypeOK, Active, Ended
<1>6. CASE WriteRejected(r)
  BY <1>2, <1>6 DEF WriteRejected, Goto, TypeOK, tables, Active, Ended
<1>7. CASE ReplaceRejected(r)
  <2>1. pc[r] \in Active
    BY <1>7 DEF ReplaceRejected, Active
  <2>2. rejected' \in [Month -> Partition]
    BY <1>7, <2>1, HalvesType, OverwrittenType DEF ReplaceRejected, TypeOK
  <2> QED
    BY <1>2, <1>7, <2>2 DEF ReplaceRejected, Goto, TypeOK, Active, Ended
<1>8. CASE CountOutputs(r)
  BY <1>2, <1>8 DEF CountOutputs, Goto, TypeOK, tables, Active, Ended
<1>9. CASE Fail(r)
  BY <1>2, <1>9 DEF Fail, Goto, TypeOK, tables, Ended
<1>10. CASE FailBetweenDeleteAndRename(r)
  <2>1. ASSUME NEW table \in [Month -> Partition]
        PROVE  [table EXCEPT ![month[r]] = Missing] \in [Month -> Partition]
    BY MissingType
  <2>2. /\ accepted \in [Month -> Partition]
        /\ rejected \in [Month -> Partition]
    BY DEF TypeOK
  <2>3. \/ /\ accepted' = [accepted EXCEPT ![month[r]] = Missing]
           /\ rejected' = rejected
        \/ /\ rejected' = [rejected EXCEPT ![month[r]] = Missing]
           /\ accepted' = accepted
    BY <1>10, Zenon DEF FailBetweenDeleteAndRename
  <2>4. /\ accepted' \in [Month -> Partition]
        /\ rejected' \in [Month -> Partition]
    BY <2>1, <2>2, <2>3, Zenon
  <2> QED
    BY <1>2, <1>10, <2>4 DEF FailBetweenDeleteAndRename, Goto, TypeOK, Active, Ended
<1>11. CASE Refuse(r)
  BY <1>11 DEF Refuse, Goto, TypeOK, FramesListed, tables, Active, Ended
<1> QED
  BY <1>1, <1>3, <1>4, <1>5, <1>6, <1>7, <1>8, <1>9, <1>10, <1>11 DEF Step

\* The types and the frames are inductive.
LEMMA NextInv == Inv /\ [Next]_vars => Inv'
<1>1. ASSUME Inv, NEW m \in Month, NEW rows \in Contents, Ingest(m, rows)
      PROVE  Inv'
  <2>1. TypeOK'
    BY <1>1, IngestKeeps DEF Inv, Ingest, TypeOK, tables
  <2>2. FramesListed'
    BY <1>1, IngestKeeps DEF Inv, Ingest, TypeOK, FramesListed
  <2> QED
    BY <2>1, <2>2 DEF Inv
<1>2. Inv /\ UNCHANGED vars => Inv'
  BY DEF Inv, TypeOK, FramesListed, vars, tables
<1> QED
  BY <1>1, <1>2, StepInv DEF Next

\* Every variable stays within its type, and a run never holds a frame that no
\* ingestion of its month has written.
THEOREM TypeCorrect == Spec => []Inv
BY InitInv, NextInv, PTL DEF Spec

-----------------------------------------------------------------------------
(* Whole partitions.                                                       *)

AcceptedWhole(m) ==
  \/ accepted[m] = Missing
  \/ /\ accepted[m].from \in DOMAIN ingested[m]
     /\ accepted[m].rows = Accepts(ingested[m][accepted[m].from])

RejectedWhole(m) ==
  \/ rejected[m] = Missing
  \/ /\ rejected[m].from \in DOMAIN ingested[m]
     /\ rejected[m].rows = Rejects(ingested[m][rejected[m].from])

\* PartitionsWhole speaks of each month and table by itself.
LEMMA WholeEach ==
  PartitionsWhole <=> \A m \in Month : AcceptedWhole(m) /\ RejectedWhole(m)
BY DEF PartitionsWhole, AcceptedWhole, RejectedWhole

\* What is whole stays so when more is ingested, as the run that wrote it keeps
\* the ingestion it comes from.
LEMMA IngestWhole ==
  ASSUME Inv, PartitionsWhole, NEW m \in Month, NEW rows \in Contents,
         Ingest(m, rows)
  PROVE  PartitionsWhole'
<1>1. UNCHANGED <<accepted, rejected>>
  BY DEF Ingest, tables
<1>2. ASSUME NEW k \in Month
      PROVE  AcceptedWhole(k)' /\ RejectedWhole(k)'
  <2>1. \A n \in DOMAIN ingested[k] :
          n \in DOMAIN ingested'[k] /\ ingested'[k][n] = ingested[k][n]
    BY <1>2, IngestKeeps DEF Inv
  <2>2. AcceptedWhole(k) /\ RejectedWhole(k)
    BY <1>2, WholeEach
  <2> QED
    BY <1>1, <2>1, <2>2 DEF AcceptedWhole, RejectedWhole
<1> QED
  BY <1>2 DEF PartitionsWhole, AcceptedWhole, RejectedWhole

\* A job that commits replaces one partition by a whole half of its frame.
LEMMA ReplaceWhole ==
  ASSUME Inv, PartitionsWhole, NEW r \in Run,
         ReplaceAccepted(r) \/ ReplaceRejected(r)
  PROVE  PartitionsWhole'
<1>1. /\ UNCHANGED ingested
      /\ pc[r] \in Active
  BY DEF ReplaceAccepted, ReplaceRejected, Active
<1>2. read[r] \in DOMAIN ingested[month[r]] /\ month[r] \in Month
  BY <1>1 DEF Inv, FramesListed, TypeOK
<1>3. /\ accepted \in [Month -> Partition]
      /\ rejected \in [Month -> Partition]
  BY DEF Inv, TypeOK
<1>4. ASSUME NEW k \in Month
      PROVE  AcceptedWhole(k)' /\ RejectedWhole(k)'
  <2>1. AcceptedWhole(k) /\ RejectedWhole(k)
    BY <1>4, WholeEach
  <2>2. \/ accepted'[k] = accepted[k]
        \/ k = month[r] /\ accepted'[k] = [from |-> read[r], rows |-> Accepts(Frame(r))]
    BY <1>3 DEF ReplaceAccepted, ReplaceRejected, Overwritten
  <2>3. \/ rejected'[k] = rejected[k]
        \/ k = month[r] /\ rejected'[k] = [from |-> read[r], rows |-> Rejects(Frame(r))]
    BY <1>3 DEF ReplaceAccepted, ReplaceRejected, Overwritten
  <2>4. AcceptedWhole(k)'
    BY <1>1, <1>2, <2>1, <2>2 DEF AcceptedWhole, Frame
  <2>5. RejectedWhole(k)'
    BY <1>1, <1>2, <2>1, <2>3 DEF RejectedWhole, Frame
  <2> QED
    BY <2>4, <2>5
<1> QED
  BY <1>4 DEF PartitionsWhole, AcceptedWhole, RejectedWhole

\* A death between the delete and the rename leaves the partition absent.
LEMMA LossWhole ==
  ASSUME Inv, PartitionsWhole, NEW r \in Run, FailBetweenDeleteAndRename(r)
  PROVE  PartitionsWhole'
<1>1. /\ accepted \in [Month -> Partition]
      /\ rejected \in [Month -> Partition]
  BY DEF Inv, TypeOK
<1>2. UNCHANGED ingested
  BY DEF FailBetweenDeleteAndRename
<1>3. ASSUME NEW k \in Month
      PROVE  AcceptedWhole(k)' /\ RejectedWhole(k)'
  <2>1. /\ accepted'[k] \in {accepted[k], Missing}
        /\ rejected'[k] \in {rejected[k], Missing}
    BY <1>1 DEF FailBetweenDeleteAndRename
  <2>2. AcceptedWhole(k) /\ RejectedWhole(k)
    BY <1>3, WholeEach
  <2> QED
    BY <1>2, <2>1, <2>2 DEF AcceptedWhole, RejectedWhole
<1> QED
  BY <1>3 DEF PartitionsWhole, AcceptedWhole, RejectedWhole

\* Whatever fails or is run again, and whatever runs of other months do meanwhile,
\* each partition of each table is absent or the whole half of one ingestion of its
\* month.
THEOREM WholePartitions == Spec => []PartitionsWhole
<1>1. Init => PartitionsWhole
  BY DEF Init, PartitionsWhole
<1>2. Inv /\ PartitionsWhole /\ [Next]_vars => PartitionsWhole'
  <2>1. ASSUME PartitionsWhole, UNCHANGED <<ingested, tables>>
        PROVE  PartitionsWhole'
    BY <2>1 DEF PartitionsWhole, tables
  <2>2. ASSUME Inv, PartitionsWhole, NEW r \in Run, Step(r)
        PROVE  PartitionsWhole'
    <3>1. CASE UNCHANGED <<ingested, tables>>
      BY <2>1, <2>2, <3>1
    <3>2. CASE ReplaceAccepted(r) \/ ReplaceRejected(r)
      BY <2>2, <3>2, ReplaceWhole
    <3>3. CASE FailBetweenDeleteAndRename(r)
      BY <2>2, <3>3, LossWhole
    <3> QED
      BY <2>2, <3>1, <3>2, <3>3
      DEF Step, Refuse, Start, CountBronze, WriteAccepted, WriteRejected, CountOutputs, Fail
  <2>3. UNCHANGED vars => UNCHANGED <<ingested, tables>>
    BY DEF vars
  <2> QED
    BY <2>1, <2>2, <2>3, IngestWhole DEF Next
<1> QED
  BY <1>1, <1>2, TypeCorrect, PTL DEF Spec

-----------------------------------------------------------------------------
(* What Silver holds, and what a result says.                              *)

\* Silver holds clean rows only: a partition is a whole half, and that half is
\* the clean rows of its ingestion.
THEOREM AcceptedClean == Spec => []AcceptedAreClean
<1>1. Inv /\ PartitionsWhole => AcceptedAreClean
  <2> SUFFICES ASSUME Inv, PartitionsWhole,
                      NEW m \in Month, NEW row \in accepted[m].rows
               PROVE  Clean(row)
    BY DEF AcceptedAreClean
  <2>1. accepted[m] # Missing
    BY DEF Missing
  <2>2. PICK n \in DOMAIN ingested[m] : accepted[m].rows = Accepts(ingested[m][n])
    BY <2>1 DEF PartitionsWhole
  <2>3. ingested[m][n] \subseteq Row
    BY IngestionType DEF Inv
  <2>4. row \in Row /\ RejectionReasons(row) = {}
    BY <2>2, <2>3 DEF Accepts
  <2> QED
    BY <2>4, AcceptedIffClean
<1> QED
  BY <1>1, TypeCorrect, WholePartitions, PTL

\* The reconciliation invariant of SilverTransformResult never fails, for any
\* rows: no run ends by raising it after it has written both tables.
THEOREM ResultValid == Spec => []NeverInvalidResult
<1>1. Init => NeverInvalidResult
  BY DEF Init, NeverInvalidResult
<1>2. Inv /\ NeverInvalidResult /\ [Next]_vars => NeverInvalidResult'
  <2> SUFFICES ASSUME Inv, NeverInvalidResult, [Next]_vars
               PROVE  NeverInvalidResult'
    OBVIOUS
  <2>1. CASE UNCHANGED pc
    BY <2>1 DEF NeverInvalidResult
  <2>2. ASSUME NEW r \in Run, NEW where, pc' = [pc EXCEPT ![r] = where],
               where # "invalid_result"
        PROVE  NeverInvalidResult'
    BY <2>2 DEF NeverInvalidResult, Inv, TypeOK
  <2>3. ASSUME NEW r \in Run, CountOutputs(r)
        PROVE  NeverInvalidResult'
    <3>1. month[r] \in Month /\ read[r] \in DOMAIN ingested[month[r]]
      BY <2>3 DEF CountOutputs, Inv, TypeOK, FramesListed, Active
    <3>2. IsFiniteSet(Frame(r))
      BY <3>1, IngestionType DEF Inv, Frame
    <3>3. Reconciles(Frame(r))
      BY <3>2, HalvesReconcile
    <3> QED
      BY <2>2, <2>3, <3>3 DEF CountOutputs, Goto
  <2>4. ASSUME NEW r \in Run, Step(r)
        PROVE  NeverInvalidResult'
    BY <2>2, <2>3, <2>4
    DEF Step, Refuse, Start, CountBronze, WriteAccepted, ReplaceAccepted, WriteRejected,
        ReplaceRejected, Fail, FailBetweenDeleteAndRename, Goto
  <2> QED
    BY <2>1, <2>4 DEF Next, Ingest, vars
<1> QED
  BY <1>1, <1>2, TypeCorrect, PTL DEF Spec

-----------------------------------------------------------------------------
(* What a run that returns has stored.                                     *)

\* No two runs in progress transform one month.
TakeTurns ==
  \A q, r \in Run : q # r /\ pc[q] \in Active /\ pc[r] \in Active =>
    month[q] # month[r]

\* Table holds the half of a run's frame, or the half is empty.
Holds(table, r, half) ==
  half # {} => table[month[r]] = [from |-> read[r], rows |-> half]

AfterAccepted == {"write_rejected", "replace_rejected", "count_outputs"}

\* What a run has written it finds there as long as it is in progress.
Stored(r) ==
  /\ pc[r] \in AfterAccepted => Holds(accepted, r, Accepts(Frame(r)))
  /\ pc[r] = "count_outputs" => Holds(rejected, r, Rejects(Frame(r)))

SInv == TakeTurns /\ \A r \in Run : Stored(r)

\* Whoever starts finds no run of the month in progress.
LEMMA TurnsKept ==
  ASSUME Inv, TakeTurns, NEW r \in Run, Step(r)
  PROVE  TakeTurns'
<1>1. ASSUME NEW m \in Month, Start(r, m) PROVE TakeTurns'
  <2>1. \A q \in Run : /\ month'[q] = IF q = r THEN m ELSE month[q]
                       /\ q # r => pc'[q] = pc[q]
                       /\ pc[q] \in Active => month[q] # m
    BY <1>1 DEF Start, Goto, Inv, TypeOK
  <2> QED
    BY <2>1 DEF TakeTurns
<1>2. ASSUME UNCHANGED month, \A q \in Run : pc'[q] \in Active => pc[q] \in Active
      PROVE  TakeTurns'
  BY <1>2 DEF TakeTurns
<1>3. ASSUME NEW where, Goto(r, where), UNCHANGED month,
             where \in Active => pc[r] \in Active
      PROVE  TakeTurns'
  BY <1>2, <1>3 DEF Goto, Inv, TypeOK
<1> QED
  BY <1>1, <1>3
  DEF Step, Refuse, CountBronze, WriteAccepted, ReplaceAccepted, WriteRejected,
      ReplaceRejected, CountOutputs, Fail, FailBetweenDeleteAndRename, Active, Ended

\* What a step of another run leaves alone.
LEMMA OthersKept ==
  ASSUME Inv, TakeTurns, NEW r \in Run, Step(r), NEW q \in Run, q # r,
         pc[q] \in Active
  PROVE  /\ pc'[q] = pc[q]
         /\ month'[q] = month[q]
         /\ read'[q] = read[q]
         /\ ingested' = ingested
         /\ accepted'[month[q]] = accepted[month[q]]
         /\ rejected'[month[q]] = rejected[month[q]]
<1>1. month[q] \in Month /\ month[r] \in Month
  BY DEF Inv, TypeOK
<1>2. pc[r] \in Active => month[q] # month[r]
  BY DEF TakeTurns
<1>3. CASE pc[r] \in Active
  BY <1>1, <1>2, <1>3
  DEF Step, Start, Refuse, CountBronze, WriteAccepted, ReplaceAccepted, WriteRejected,
      ReplaceRejected, CountOutputs, Fail, FailBetweenDeleteAndRename, Overwritten,
      Goto, Inv, TypeOK, tables
<1>4. CASE pc[r] \notin Active
  BY <1>4
  DEF Step, Start, Refuse, CountBronze, WriteAccepted, ReplaceAccepted, WriteRejected,
      ReplaceRejected, CountOutputs, Fail, FailBetweenDeleteAndRename, Goto, Active,
      Inv, TypeOK, tables
<1> QED
  BY <1>3, <1>4

\* An overwrite leaves the half in the table, unless the half is empty.
LEMMA OverwrittenHolds ==
  ASSUME NEW table \in [Month -> Partition], NEW m \in Month, NEW n, NEW half,
         half # {}
  PROVE  Overwritten(table, m, [from |-> n, rows |-> half])[m]
           = [from |-> n, rows |-> half]
BY DEF Overwritten

\* A step of a run keeps what the run has stored before, and adds to it.
LEMMA OwnStored ==
  ASSUME Inv, NEW r \in Run, Stored(r), Step(r)
  PROVE  Stored(r)'
<1> USE DEF AfterAccepted
<1>1. /\ accepted \in [Month -> Partition]
      /\ rejected \in [Month -> Partition]
      /\ month[r] \in Month
  BY DEF Inv, TypeOK
<1>2. ASSUME NEW where, Goto(r, where), where \notin AfterAccepted
      PROVE  Stored(r)'
  BY <1>2 DEF Goto, Stored, Inv, TypeOK
<1>3. CASE ReplaceAccepted(r)
  <2>1. /\ pc'[r] = "write_rejected"
        /\ UNCHANGED <<ingested, month, read>>
        /\ accepted' = Overwritten(accepted, month[r],
                         [from |-> read[r], rows |-> Accepts(Frame(r))])
    BY <1>3 DEF ReplaceAccepted, Goto, Inv, TypeOK
  <2>2. Holds(accepted, r, Accepts(Frame(r)))'
    BY <1>1, <2>1, OverwrittenHolds DEF Holds, Frame
  <2> QED
    BY <2>1, <2>2 DEF Stored
<1>4. CASE WriteRejected(r) \/ CountOutputs(r)
  <2>1. /\ UNCHANGED <<ingested, tables, month, read>>
        /\ pc[r] \in {"write_rejected", "count_outputs"}
        /\ pc'[r] \in {"replace_rejected", "failed", "done", "invalid_result"}
        /\ pc'[r] = "replace_rejected" => pc[r] = "write_rejected"
    BY <1>4 DEF WriteRejected, CountOutputs, Goto, Inv, TypeOK
  <2> QED
    BY <2>1 DEF Stored, Holds, Frame, Accepts, tables
<1>5. CASE ReplaceRejected(r)
  <2>1. /\ pc[r] = "replace_rejected"
        /\ pc'[r] = "count_outputs"
        /\ UNCHANGED <<ingested, accepted, month, read>>
        /\ rejected' = Overwritten(rejected, month[r],
                         [from |-> read[r], rows |-> Rejects(Frame(r))])
    BY <1>5 DEF ReplaceRejected, Goto, Inv, TypeOK
  <2>2. Holds(rejected, r, Rejects(Frame(r)))'
    BY <1>1, <2>1, OverwrittenHolds DEF Holds, Frame
  <2>3. Holds(accepted, r, Accepts(Frame(r)))'
    BY <2>1 DEF Stored, Holds, Frame, Accepts
  <2> QED
    BY <2>1, <2>2, <2>3 DEF Stored
<1> QED
  BY <1>2, <1>3, <1>4, <1>5
  DEF Step, Start, Refuse, CountBronze, WriteAccepted, Fail, FailBetweenDeleteAndRename

\* What a run in progress has written stays, as nobody else writes its month.
THEOREM StoredStays == Spec => []SInv
<1>1. Init => SInv
  BY DEF Init, SInv, TakeTurns, Stored, Active, AfterAccepted
<1>2. ASSUME Inv, SInv, NEW r \in Run, Step(r) PROVE SInv'
  <2>1. ASSUME NEW q \in Run PROVE Stored(q)'
    <3>1. CASE q = r
      BY <1>2, <3>1, OwnStored DEF SInv
    <3>2. CASE q # r /\ pc[q] \in Active
      <4>1. Stored(q)
        BY <1>2 DEF SInv
      <4> QED
        BY <1>2, <3>2, <4>1, OthersKept DEF SInv, Stored, Holds, Frame, Accepts, Rejects
    <3>3. CASE q # r /\ pc[q] \notin Active
      <4>1. pc'[q] = pc[q]
        BY <1>2, <3>3
        DEF Step, Start, Refuse, CountBronze, WriteAccepted, ReplaceAccepted,
            WriteRejected, ReplaceRejected, CountOutputs, Fail,
            FailBetweenDeleteAndRename, Goto, Inv, TypeOK
      <4> QED
        BY <3>3, <4>1 DEF Stored, Active, AfterAccepted
    <3> QED
      BY <3>1, <3>2, <3>3
  <2> QED
    BY <1>2, <2>1, TurnsKept DEF SInv
<1>3. ASSUME Inv, SInv, NEW m \in Month, NEW rows \in Contents, Ingest(m, rows)
      PROVE  SInv'
  <2>1. UNCHANGED <<accepted, rejected, pc, month, read>>
    BY <1>3 DEF Ingest, tables
  <2>2. ASSUME NEW r \in Run PROVE Stored(r)'
    <3>1. Stored(r) /\ month[r] \in Month
      BY <1>3 DEF SInv, Inv, TypeOK
    <3>2. CASE pc[r] \in Active
      <4>1. Frame(r)' = Frame(r)
        BY <1>3, <2>1, <3>1, <3>2, IngestKeeps DEF Inv, FramesListed, Frame
      <4> QED
        BY <2>1, <3>1, <4>1 DEF Stored, Holds, Accepts, Rejects
    <3>3. CASE pc[r] \notin Active
      BY <2>1, <3>3 DEF Stored, Active, AfterAccepted
    <3> QED
      BY <3>2, <3>3
  <2> QED
    BY <1>3, <2>1, <2>2 DEF SInv, TakeTurns
<1>4. Inv /\ SInv /\ UNCHANGED vars => SInv'
  BY DEF SInv, TakeTurns, Stored, Holds, Frame, Accepts, Rejects, vars, tables
<1>5. Inv /\ SInv /\ [Next]_vars => SInv'
  BY <1>2, <1>3, <1>4 DEF Next
<1> QED
  BY <1>1, <1>5, TypeCorrect, PTL DEF Spec

\* A run that returns has left every row of its frame in one of the tables.
THEOREM ReturnedStored == Spec => ReturnedMeansStored
<1>1. Inv /\ SInv /\ [Next]_vars =>
        [\A r \in Run : Returns(r) =>
           \A row \in Frame(r) :
             \/ accepted[month[r]].from = read[r] /\ row \in accepted[month[r]].rows
             \/ rejected[month[r]].from = read[r] /\ row \in rejected[month[r]].rows]_vars
  <2> SUFFICES ASSUME SInv, NEW r \in Run, Returns(r), NEW row \in Frame(r)
               PROVE
             \/ accepted[month[r]].from = read[r] /\ row \in accepted[month[r]].rows
             \/ rejected[month[r]].from = read[r] /\ row \in rejected[month[r]].rows
    OBVIOUS
  <2>1. /\ Holds(accepted, r, Accepts(Frame(r)))
        /\ Holds(rejected, r, Rejects(Frame(r)))
    BY DEF SInv, Stored, Returns, AfterAccepted
  <2>2. row \in Accepts(Frame(r)) \/ row \in Rejects(Frame(r))
    BY DEF Accepts, Rejects
  <2> QED
    BY <2>1, <2>2 DEF Holds
<1> QED
  BY <1>1, TypeCorrect, StoredStays, PTL DEF Spec, ReturnedMeansStored

\* A run writes the partitions of its own month only.
THEOREM OwnMonthOnly == Spec => OtherMonthsUntouched
<1>1. Inv /\ [Next]_vars =>
        [\A m \in Month :
           accepted'[m] # accepted[m] \/ rejected'[m] # rejected[m] =>
             \E r \in Run :
               month[r] = m /\ pc[r] \in {"replace_accepted", "replace_rejected"}
        ]_tables
  <2> SUFFICES ASSUME Inv, [Next]_vars, NEW m \in Month,
                      accepted'[m] # accepted[m] \/ rejected'[m] # rejected[m]
               PROVE  \E r \in Run : /\ month[r] = m
                                     /\ pc[r] \in {"replace_accepted", "replace_rejected"}
    OBVIOUS
  <2>1. /\ accepted \in [Month -> Partition]
        /\ rejected \in [Month -> Partition]
    BY DEF Inv, TypeOK
  <2>2. PICK r \in Run : Step(r)
    BY DEF Next, Ingest, vars, tables
  <2>3. \/ ReplaceAccepted(r)
        \/ ReplaceRejected(r)
        \/ FailBetweenDeleteAndRename(r)
    BY <2>2 DEF Step, Start, Refuse, CountBronze, WriteAccepted, WriteRejected,
                CountOutputs, Fail, tables
  <2>4. pc[r] \in {"replace_accepted", "replace_rejected"}
    BY <2>3 DEF ReplaceAccepted, ReplaceRejected, FailBetweenDeleteAndRename
  <2>5. month[r] = m
    BY <2>1, <2>3
    DEF ReplaceAccepted, ReplaceRejected, FailBetweenDeleteAndRename, Overwritten
  <2> QED
    BY <2>4, <2>5
<1> QED
  BY <1>1, TypeCorrect, PTL DEF Spec, OtherMonthsUntouched

-----------------------------------------------------------------------------
(* When the two tables count what Bronze counts.                           *)

\* The rows an older run left in the partition of a half that is now empty.
LeftOver(table, r, half) == IF half = {} THEN table[month[r]].rows ELSE {}

Exact(r) ==
  Cardinality(Frame(r)) =
    Cardinality(accepted[month[r]].rows) + Cardinality(rejected[month[r]].rows)

\* When a run returns, the two partitions count what its frame counts exactly
\* when no older run left rows in the partition of an empty half.
OnlyLeftOversMiscount ==
  [][\A r \in Run : Returns(r) =>
       (Exact(r) <=> /\ LeftOver(accepted, r, Accepts(Frame(r))) = {}
                     /\ LeftOver(rejected, r, Rejects(Frame(r))) = {})]_vars

\* A partition counts its half and what is left over.
LEMMA HeldCount ==
  ASSUME NEW table, NEW r \in Run, NEW half, IsFiniteSet(half),
         IsFiniteSet(table[month[r]].rows), Holds(table, r, half)
  PROVE  /\ Cardinality(table[month[r]].rows) \in Nat
         /\ Cardinality(half) \in Nat
         /\ Cardinality(table[month[r]].rows) >= Cardinality(half)
         /\ Cardinality(table[month[r]].rows) = Cardinality(half)
              <=> LeftOver(table, r, half) = {}
<1>1. /\ Cardinality(table[month[r]].rows) \in Nat
      /\ Cardinality(half) \in Nat
  BY FS_CardinalityType
<1>2. CASE half = {}
  <2>1. Cardinality(half) = 0
    BY <1>2, FS_EmptySet
  <2>2. Cardinality(table[month[r]].rows) = 0 <=> table[month[r]].rows = {}
    BY FS_EmptySet
  <2> QED
    BY <1>1, <1>2, <2>1, <2>2 DEF LeftOver
<1>3. CASE half # {}
  <2>1. table[month[r]].rows = half
    BY <1>3 DEF Holds
  <2> QED
    BY <1>1, <1>3, <2>1 DEF LeftOver
<1> QED
  BY <1>2, <1>3

\* A partition on disk is finite.
LEMMA TablesFinite ==
  ASSUME Inv, PartitionsWhole, NEW m \in Month
  PROVE  IsFiniteSet(accepted[m].rows) /\ IsFiniteSet(rejected[m].rows)
<1>1. IsFiniteSet({})
  BY FS_EmptySet
<1>2. ASSUME NEW n \in DOMAIN ingested[m]
      PROVE  /\ IsFiniteSet(Accepts(ingested[m][n]))
             /\ IsFiniteSet(Rejects(ingested[m][n]))
  <2>1. IsFiniteSet(ingested[m][n])
    BY IngestionType DEF Inv
  <2> QED
    BY <2>1, FS_Subset DEF Accepts, Rejects
<1> QED
  BY <1>1, <1>2 DEF PartitionsWhole, Missing

\* The halves are exact, so a miscount is the rows an empty half left over, and
\* no two of them cancel out.
THEOREM ReconcileIff == Spec => OnlyLeftOversMiscount
<1>1. Inv /\ SInv /\ PartitionsWhole /\ [Next]_vars =>
        [\A r \in Run : Returns(r) =>
           (Exact(r) <=> /\ LeftOver(accepted, r, Accepts(Frame(r))) = {}
                         /\ LeftOver(rejected, r, Rejects(Frame(r))) = {})]_vars
  <2> SUFFICES ASSUME Inv, SInv, PartitionsWhole, NEW r \in Run, Returns(r)
               PROVE  Exact(r) <=> /\ LeftOver(accepted, r, Accepts(Frame(r))) = {}
                                   /\ LeftOver(rejected, r, Rejects(Frame(r))) = {}
    OBVIOUS
  <2> DEFINE inAccepted == Cardinality(accepted[month[r]].rows)
             inRejected == Cardinality(rejected[month[r]].rows)
             accepts == Cardinality(Accepts(Frame(r)))
             rejects == Cardinality(Rejects(Frame(r)))
  <2>1. month[r] \in Month /\ IsFiniteSet(Frame(r))
    <3>1. month[r] \in Month /\ read[r] \in DOMAIN ingested[month[r]]
      BY DEF Returns, Inv, TypeOK, FramesListed, Active
    <3> QED
      BY <3>1, IngestionType DEF Inv, Frame
  <2>2. /\ IsFiniteSet(Accepts(Frame(r)))
        /\ IsFiniteSet(Rejects(Frame(r)))
    BY <2>1, FS_Subset DEF Accepts, Rejects
  <2>3. /\ IsFiniteSet(accepted[month[r]].rows)
        /\ IsFiniteSet(rejected[month[r]].rows)
    BY <2>1, TablesFinite
  <2>4. /\ Holds(accepted, r, Accepts(Frame(r)))
        /\ Holds(rejected, r, Rejects(Frame(r)))
    BY DEF SInv, Stored, Returns, AfterAccepted
  <2>5. /\ inAccepted \in Nat /\ accepts \in Nat /\ inAccepted >= accepts
        /\ inAccepted = accepts <=> LeftOver(accepted, r, Accepts(Frame(r))) = {}
    BY <2>2, <2>3, <2>4, HeldCount
  <2>6. /\ inRejected \in Nat /\ rejects \in Nat /\ inRejected >= rejects
        /\ inRejected = rejects <=> LeftOver(rejected, r, Rejects(Frame(r))) = {}
    BY <2>2, <2>3, <2>4, HeldCount
  <2>7. Exact(r) <=> accepts + rejects = inAccepted + inRejected
    BY <2>1, HalvesReconcile DEF Exact, Reconciles
  <2> HIDE DEF inAccepted, inRejected, accepts, rejects
  <2>8. accepts + rejects = inAccepted + inRejected
          <=> inAccepted = accepts /\ inRejected = rejects
    BY <2>5, <2>6
  <2> QED
    BY <2>5, <2>6, <2>7, <2>8
<1> QED
  BY <1>1, TypeCorrect, StoredStays, WholePartitions, PTL
  DEF Spec, OnlyLeftOversMiscount

\* The promise of the design log holds where every partition Bronze may hold has
\* rows for both tables, whatever fails, is run again or runs for other months.
THEOREM BothHalvesReconcile ==
  ASSUME \A rows \in Contents : Accepts(rows) # {} /\ Rejects(rows) # {}
  PROVE  Spec => TablesReconcile
<1>1. Inv /\ [Next]_vars /\
        [\A r \in Run : Returns(r) =>
           (Exact(r) <=> /\ LeftOver(accepted, r, Accepts(Frame(r))) = {}
                         /\ LeftOver(rejected, r, Rejects(Frame(r))) = {})]_vars =>
        [\A r \in Run : Returns(r) =>
           Cardinality(Frame(r)) =
             Cardinality(accepted[month[r]].rows)
               + Cardinality(rejected[month[r]].rows)]_vars
  <2> SUFFICES ASSUME Inv, NEW r \in Run, Returns(r)
               PROVE  /\ LeftOver(accepted, r, Accepts(Frame(r))) = {}
                      /\ LeftOver(rejected, r, Rejects(Frame(r))) = {}
    BY DEF Exact
  <2>1. month[r] \in Month /\ read[r] \in DOMAIN ingested[month[r]]
    BY DEF Returns, Inv, TypeOK, FramesListed, Active
  <2>2. Frame(r) \in Contents
    BY <2>1, IngestionType DEF Inv, Frame
  <2> QED
    BY <2>2 DEF LeftOver
<1> QED
  BY <1>1, TypeCorrect, ReconcileIff, PTL
  DEF Spec, OnlyLeftOversMiscount, TablesReconcile

=============================================================================

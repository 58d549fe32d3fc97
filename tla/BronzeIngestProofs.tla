-------------------------- MODULE BronzeIngestProofs --------------------------
(***************************************************************************)
(* Theorems about the Bronze contract, for any columns, and about Bronze   *)
(* ingestion, for any files, runs, cache limits and failures.              *)
(*                                                                         *)
(* A run that has passed the schema check has a file with a valid schema,  *)
(* and as no two runs in progress are for one file, nobody else changes    *)
(* its partition before it ends; the rest is what the overwrite does.      *)
(* A run that nobody has overlapped is alone with the cache, so the file   *)
(* it downloads stays the newest until the files are sorted.               *)
(***************************************************************************)
EXTENDS BronzeIngest, FiniteSetTheorems, TLAPS

-----------------------------------------------------------------------------
(* The contract.                                                           *)

\* A column of a contract field is renamed to the name of that field.
LEMMA CanonicalName ==
  ASSUME NEW x \in Contract, NEW name \in Name, Key[x.name] = Key[name]
  PROVE  Canonical(name) = x.name
BY BronzeSchemaAssumption DEF Canonical

\* What a renamed column keeps.
LEMMA CanonicalizedColumns ==
  ASSUME NEW cols \in Seq(Column)
  PROVE  /\ DOMAIN Canonicalized(cols) = DOMAIN cols
         /\ \A i \in DOMAIN cols :
              /\ Canonicalized(cols)[i].name = Canonical(cols[i].name)
              /\ Canonicalized(cols)[i].type = cols[i].type
              /\ Canonicalized(cols)[i].nullable = cols[i].nullable
              /\ cols[i].name \in Name
<1> DEFINE out == Canonicalized(cols)
<1>1. \A i \in DOMAIN cols : cols[i] \in Column
  OBVIOUS
<1>2. /\ DOMAIN out = DOMAIN cols
      /\ \A i \in DOMAIN cols :
           out[i] = [cols[i] EXCEPT !.name = Canonical(cols[i].name)]
  BY DEF Canonicalized
<1>3. ASSUME NEW c \in Column, NEW name
      PROVE  /\ [c EXCEPT !.name = name].name = name
             /\ [c EXCEPT !.name = name].type = c.type
             /\ [c EXCEPT !.name = name].nullable = c.nullable
             /\ c.name \in Name
  BY DEF Column
<1> HIDE DEF out
<1>4. ASSUME NEW i \in DOMAIN cols
      PROVE  /\ out[i].name = Canonical(cols[i].name)
             /\ out[i].type = cols[i].type
             /\ out[i].nullable = cols[i].nullable
             /\ cols[i].name \in Name
  <2> DEFINE c == cols[i]
             name == Canonical(c.name)
  <2>1. c \in Column /\ out[i] = [c EXCEPT !.name = name]
    BY <1>1, <1>2
  <2> HIDE DEF c, name
  <2>2. /\ out[i].name = name
        /\ out[i].type = c.type
        /\ out[i].nullable = c.nullable
        /\ c.name \in Name
    BY <1>3, <2>1
  <2> QED
    BY <2>2 DEF c, name
<1> QED
  BY <1>2, <1>4 DEF out

\* A file whose columns pass the comparison is written with the contract's
\* columns, each once, under its own name and with a compatible type: neither the
\* per-field check nor the set comparison would do alone.
THEOREM ValidMeansCanonical ==
  ASSUME NEW cols \in Seq(Column), SchemaValid(cols)
  PROVE  MatchesContract(Canonicalized(cols))
<1> DEFINE out == Canonicalized(cols)
<1>1. /\ DOMAIN out = DOMAIN cols
      /\ \A i \in DOMAIN cols : /\ out[i].name = Canonical(cols[i].name)
                                /\ out[i].type = cols[i].type
                                /\ out[i].nullable = cols[i].nullable
                                /\ cols[i].name \in Name
  BY CanonicalizedColumns
<1> HIDE DEF out
<1>2. ASSUME NEW i \in DOMAIN cols
      PROVE  \E x \in Contract : Key[x.name] = Key[cols[i].name] /\ out[i].name = x.name
  <2>1. Key[cols[i].name] \in Keys(CanonicalNames)
    BY <1>2 DEF SchemaValid, ColumnSetValid, Keys, Names
  <2>2. PICK x \in Contract : Key[x.name] = Key[cols[i].name]
    BY <2>1 DEF Keys, CanonicalNames
  <2> QED
    BY <1>1, <2>2, CanonicalName
<1>3. ASSUME NEW x \in Contract
      PROVE  \E i \in DOMAIN cols : /\ Key[cols[i].name] = Key[x.name]
                                    /\ Compatible(x.type, cols[i].type)
                                    /\ cols[i].nullable = x.nullable
                                    /\ out[i].name = x.name
  <2>1. PICK i \in DOMAIN cols : /\ Key[cols[i].name] = Key[x.name]
                                 /\ Compatible(x.type, cols[i].type)
                                 /\ cols[i].nullable = x.nullable
    BY <1>3 DEF SchemaValid, FieldsValid
  <2> QED
    BY <1>1, <2>1, CanonicalName
<1>4. \A i, j \in DOMAIN cols : Key[cols[i].name] = Key[cols[j].name] => i = j
  BY DEF SchemaValid, ColumnSetValid
<1>5. Names(out) = CanonicalNames
  <2>1. Names(out) \subseteq CanonicalNames
    BY <1>1, <1>2 DEF Names, CanonicalNames
  <2>2. CanonicalNames \subseteq Names(out)
    BY <1>1, <1>3 DEF Names, CanonicalNames
  <2> QED
    BY <2>1, <2>2
<1>6. ASSUME NEW i \in DOMAIN cols, NEW j \in DOMAIN cols, out[i].name = out[j].name
      PROVE  i = j
  <2>1. PICK x \in Contract : Key[x.name] = Key[cols[i].name] /\ out[i].name = x.name
    BY <1>2
  <2>2. PICK y \in Contract : Key[y.name] = Key[cols[j].name] /\ out[j].name = y.name
    BY <1>2
  <2> QED
    BY <1>4, <1>6, <2>1, <2>2
<1>7. ASSUME NEW x \in Contract, NEW i \in DOMAIN cols, out[i].name = x.name
      PROVE  Compatible(x.type, out[i].type) /\ out[i].nullable = x.nullable
  <2>1. PICK j \in DOMAIN cols : /\ Compatible(x.type, cols[j].type)
                                 /\ cols[j].nullable = x.nullable
                                 /\ out[j].name = x.name
    BY <1>3
  <2>2. i = j
    BY <1>6, <1>7, <2>1
  <2> QED
    BY <1>1, <2>1, <2>2
<1> QED
  BY <1>1, <1>5, <1>6, <1>7 DEF MatchesContract, out

\* The comparison refuses no more than it must: columns that renaming turns into
\* the contract's pass it.  So it decides by keys and families, before anything is
\* renamed, exactly what the written partition needs.
THEOREM SchemaCheckExact ==
  ASSUME NEW cols \in Seq(Column)
  PROVE  SchemaValid(cols) <=> MatchesContract(Canonicalized(cols))
<1> DEFINE out == Canonicalized(cols)
<1>1. /\ DOMAIN out = DOMAIN cols
      /\ \A i \in DOMAIN cols : /\ out[i].name = Canonical(cols[i].name)
                                /\ out[i].type = cols[i].type
                                /\ out[i].nullable = cols[i].nullable
                                /\ cols[i].name \in Name
  BY CanonicalizedColumns
<1>2. ASSUME MatchesContract(out) PROVE SchemaValid(cols)
  <2> HIDE DEF out
  <2>1. /\ Names(out) = CanonicalNames
        /\ \A i, j \in DOMAIN cols : out[i].name = out[j].name => i = j
        /\ \A x \in Contract : \A i \in DOMAIN cols : out[i].name = x.name =>
             Compatible(x.type, cols[i].type) /\ cols[i].nullable = x.nullable
    BY <1>1, <1>2 DEF MatchesContract
  <2> DEFINE names == {out[i].name : i \in DOMAIN cols}
  <2>2. names = {x.name : x \in Contract}
    BY <1>1, <2>1 DEF Names, CanonicalNames
  <2>3. ASSUME NEW i \in DOMAIN cols
        PROVE  \E x \in Contract : Key[x.name] = Key[cols[i].name] /\ out[i].name = x.name
    <3>1. PICK y \in Contract : out[i].name = y.name
      BY <2>2
    <3>2. CASE \E x \in Contract : Key[x.name] = Key[cols[i].name]
      BY <1>1, <3>2, CanonicalName
    <3>3. CASE ~\E x \in Contract : Key[x.name] = Key[cols[i].name]
      <4>1. out[i].name = cols[i].name
        BY <1>1, <3>3 DEF Canonical
      <4> QED
        BY <3>1, <3>3, <4>1
    <3> QED
      BY <3>2, <3>3
  <2>4. ASSUME NEW x \in Contract
        PROVE  \E i \in DOMAIN cols : /\ Key[cols[i].name] = Key[x.name]
                                      /\ out[i].name = x.name
    <3>1. PICK i \in DOMAIN cols : out[i].name = x.name
      BY <2>2
    <3>2. PICK y \in Contract : Key[y.name] = Key[cols[i].name] /\ out[i].name = y.name
      BY <2>3
    <3>3. Key[cols[i].name] = Key[x.name]
      BY <3>1, <3>2, Zenon
    <3> QED
      BY <3>1, <3>3
  <2>5. ASSUME NEW i \in DOMAIN cols, NEW j \in DOMAIN cols,
               Key[cols[i].name] = Key[cols[j].name]
        PROVE  i = j
    <3>1. PICK x \in Contract : Key[x.name] = Key[cols[i].name]
      BY <2>3
    <3>2. /\ out[i].name = Canonical(cols[i].name) /\ cols[i].name \in Name
          /\ out[j].name = Canonical(cols[j].name) /\ cols[j].name \in Name
          /\ Key[x.name] = Key[cols[j].name]
      BY <1>1, <2>5, <3>1
    <3>3. out[i].name = x.name /\ out[j].name = x.name
      BY <3>1, <3>2, CanonicalName
    <3> QED
      BY <2>1, <3>3
  <2>6. Keys(CanonicalNames) = Keys(Names(cols))
    <3>1. Keys(CanonicalNames) \subseteq Keys(Names(cols))
      BY <2>4 DEF Keys, Names, CanonicalNames
    <3>2. Keys(Names(cols)) \subseteq Keys(CanonicalNames)
      BY <2>3 DEF Keys, Names, CanonicalNames
    <3> QED
      BY <3>1, <3>2
  <2>7. FieldsValid(cols)
    BY <2>1, <2>4 DEF FieldsValid
  <2> QED
    BY <2>5, <2>6, <2>7 DEF SchemaValid, ColumnSetValid
<1> QED
  BY <1>2, ValidMeansCanonical

-----------------------------------------------------------------------------
(* The inductive invariant.                                                *)

\* What the argument needs to know of the types; the cache plays no part in it.
Typed ==
  /\ bronze \in [File -> Seq(Seq(Column))]
  /\ pc \in [Run -> {"idle"} \cup Active \cup Ended]
  /\ file \in [Run -> File]
  /\ before \in [Run -> Seq(Seq(Column))]

\* No two runs in progress ingest one file.
OneRunPerFile ==
  \A q, r \in Run : q # r /\ pc[q] \in Active /\ pc[r] \in Active => file[q] # file[r]

\* A run writes only what has passed the schema check.
Validated ==
  \A r \in Run : pc[r] \in {"write", "replace", "count"} => SchemaValid(Columns[file[r]])

\* A partition is empty or the one output of a valid file.
OneValidOutput ==
  \A f \in File :
    \/ bronze[f] = << >>
    \/ bronze[f] = <<Output(f)>> /\ SchemaValid(Columns[f])

\* Until the overwrite the partition is what the run has found, then its output.
Preserved ==
  \A r \in Run : pc[r] \in Active =>
    bronze[file[r]] = IF pc[r] = "count" THEN <<Output(file[r])>> ELSE before[r]

IInv == Typed /\ OneRunPerFile /\ Validated /\ OneValidOutput /\ Preserved

\* A step that does not touch the table, of a run in progress or of one that is
\* refused: it passes the schema check before it writes, and it ends after it has
\* counted.
Quiet(r) ==
  /\ UNCHANGED <<bronze, file, before>>
  /\ \E where \in (Active \cup Ended) \ {"count", "lost"} :
       /\ where \in Active => pc[r] \in Active
       /\ pc' = [pc EXCEPT ![r] = where]
       /\ where \in {"write", "replace"} =>
            pc[r] = "write" \/ SchemaValid(Columns[file[r]])
       /\ pc[r] = "count" => where \notin Active

\* Every step of a run is quiet, or its start, or one of the ends of an overwrite.
LEMMA StepKinds ==
  ASSUME NEW r \in Run,
         \/ Refuse(r)
         \/ \E f \in File, n \in Limits : Start(r, f, n)
         \/ Proceed(r)
         \/ Fail(r)
         \/ FailBetweenDeleteAndRename(r)
  PROVE  \/ \E f \in File, n \in Limits : Start(r, f, n)
         \/ Quiet(r)
         \/ Replace(r)
         \/ FailBetweenDeleteAndRename(r)
<1> USE DEF Quiet, Goto, Active, Acquiring, Writing, Ended, locals
<1>1. Hit(r) => Quiet(r)
  BY DEF Hit
<1>2. Open(r) => Quiet(r)
  BY DEF Open
<1>3. Downloaded(r) => Quiet(r)
  BY DEF Downloaded
<1>4. List(r) => Quiet(r)
  BY DEF List
<1>5. Sort(r) => Quiet(r)
  BY DEF Sort
<1>6. Evict(r) => Quiet(r)
  BY DEF Evict
<1>7. Acquired(r) => Quiet(r)
  BY DEF Acquired
<1>8. Read(r) => Quiet(r)
  BY DEF Read
<1>9. Write(r) => Quiet(r)
  BY DEF Write, Staged
<1>10. ASSUME NEW where \in {"done", "failed"},
              pc' = [pc EXCEPT ![r] = where],
              UNCHANGED <<bronze, file, before>>
       PROVE  Quiet(r)
  <2>1. /\ where \in (Active \cup Ended) \ {"count", "lost"}
        /\ where \notin {"write", "replace"}
        /\ where \notin Active
    OBVIOUS
  <2> QED
    BY <1>10, <2>1
<1>11. Count(r) \/ Fail(r) => Quiet(r)
  <2>1. Count(r) => Quiet(r)
    BY <1>10 DEF Count
  <2>2. Fail(r) => Quiet(r)
    BY <1>10 DEF Fail
  <2> QED
    BY <2>1, <2>2
<1>12. Refuse(r) => Quiet(r)
  BY <1>10 DEF Refuse
<1> QED
  BY <1>1, <1>2, <1>3, <1>4, <1>5, <1>6, <1>7, <1>8, <1>9, <1>11, <1>12 DEF Proceed

\* A quiet step keeps the invariant.
LEMMA QuietInv ==
  ASSUME IInv, NEW r \in Run, Quiet(r)
  PROVE  IInv'
<1> USE DEF IInv
<1>1. PICK where \in (Active \cup Ended) \ {"count", "lost"} :
        /\ where \in Active => pc[r] \in Active
        /\ pc' = [pc EXCEPT ![r] = where]
        /\ where \in {"write", "replace"} =>
             pc[r] = "write" \/ SchemaValid(Columns[file[r]])
        /\ pc[r] = "count" => where \notin Active
  BY DEF Quiet
<1>2. UNCHANGED <<bronze, file, before>>
  BY DEF Quiet
<1>3. Typed'
  BY <1>1, <1>2 DEF Typed
<1>4. \A q \in Run : pc'[q] = IF q = r THEN where ELSE pc[q]
  BY <1>1 DEF Typed
<1>5. OneRunPerFile'
  BY <1>1, <1>2, <1>4 DEF OneRunPerFile
<1>6. Validated'
  BY <1>1, <1>2, <1>4 DEF Validated
<1>7. OneValidOutput'
  BY <1>2 DEF OneValidOutput, Output
<1>8. Preserved'
  BY <1>1, <1>2, <1>4 DEF Preserved, Output
<1> QED
  BY <1>3, <1>5, <1>6, <1>7, <1>8

\* A run that starts finds no other run on its file, and remembers its partition.
LEMMA StartInv ==
  ASSUME IInv, NEW r \in Run, NEW f \in File, NEW n \in Limits, Start(r, f, n)
  PROVE  IInv'
<1> USE DEF IInv
<1>1. /\ pc' = [pc EXCEPT ![r] = "lookup"]
      /\ file' = [file EXCEPT ![r] = f]
      /\ before' = [before EXCEPT ![r] = bronze[f]]
      /\ bronze' = bronze
      /\ \A q \in Run : pc[q] \in Active => file[q] # f
  BY DEF Start, Goto, InProgress
<1>2. Typed'
  BY <1>1 DEF Typed, Active, Acquiring
<1>3. \A q \in Run : /\ pc'[q] = IF q = r THEN "lookup" ELSE pc[q]
                     /\ file'[q] = IF q = r THEN f ELSE file[q]
                     /\ before'[q] = IF q = r THEN bronze[f] ELSE before[q]
  BY <1>1 DEF Typed
<1>4. OneRunPerFile'
  BY <1>1, <1>3 DEF OneRunPerFile
<1>5. Validated'
  BY <1>3 DEF Validated
<1>6. OneValidOutput'
  BY <1>1 DEF OneValidOutput, Output
<1>7. Preserved'
  BY <1>1, <1>3 DEF Preserved, Output
<1> QED
  BY <1>2, <1>4, <1>5, <1>6, <1>7

\* Deleting a partition and appending to it leaves the output alone.
LEMMA Replaced ==
  ASSUME Typed, NEW f \in File
  PROVE  /\ WithoutOutput(f) \in [File -> Seq(Seq(Column))]
         /\ \A g \in File : WithoutOutput(f)[g] = IF g = f THEN << >> ELSE bronze[g]
         /\ Append(WithoutOutput(f)[f], Output(f)) = <<Output(f)>>
<1>1. \A g \in File : WithoutOutput(f)[g] = IF g = f THEN << >> ELSE bronze[g]
  BY DEF Typed, WithoutOutput
<1>2. WithoutOutput(f)[f] = << >>
  BY <1>1
<1>3. WithoutOutput(f) \in [File -> Seq(Seq(Column))]
  BY DEF Typed, WithoutOutput
<1> QED
  BY <1>1, <1>2, <1>3

\* Renaming the columns of a file yields columns.
LEMMA OutputType ==
  ASSUME NEW f \in File
  PROVE  Output(f) \in Seq(Column)
<1>1. Columns[f] \in Seq(Column)
  BY BronzeIngestAssumption
<1>2. ASSUME NEW name \in Name PROVE Canonical(name) \in Name
  BY <1>2, BronzeSchemaAssumption DEF Canonical, Column
<1>3. ASSUME NEW c \in Column
      PROVE  [c EXCEPT !.name = Canonical(@)] \in Column
  BY <1>2 DEF Column
<1> QED
  BY <1>1, <1>3 DEF Output, Canonicalized

\* The overwrite leaves the run's output in its partition, and nothing else.
LEMMA ReplaceInv ==
  ASSUME IInv, NEW r \in Run, Replace(r)
  PROVE  IInv'
<1> USE DEF IInv
<1>1. /\ pc[r] = "replace" /\ pc[r] \in Active
      /\ pc' = [pc EXCEPT ![r] = "count"]
      /\ UNCHANGED <<file, before>>
      /\ file[r] \in File
  BY DEF Replace, Goto, locals, Active, Writing, Typed
<1>2. /\ bronze' \in [File -> Seq(Seq(Column))]
      /\ \A f \in File : bronze'[f] = IF f = file[r] THEN <<Output(f)>> ELSE bronze[f]
  <2>1. bronze' = [WithoutOutput(file[r]) EXCEPT
                     ![file[r]] = Append(WithoutOutput(file[r])[file[r]], Output(file[r]))]
    BY DEF Replace
  <2>2. bronze' = [WithoutOutput(file[r]) EXCEPT ![file[r]] = <<Output(file[r])>>]
    BY <1>1, <2>1, Replaced
  <2>3. <<Output(file[r])>> \in Seq(Seq(Column))
    BY <1>1, OutputType
  <2> QED
    BY <1>1, <2>2, <2>3, Replaced
<1>3. \A q \in Run : pc'[q] = IF q = r THEN "count" ELSE pc[q]
  BY <1>1 DEF Typed
<1>4. Typed'
  BY <1>1, <1>2 DEF Typed, Active, Writing
<1>5. OneRunPerFile'
  BY <1>1, <1>3 DEF OneRunPerFile
<1>6. Validated'
  BY <1>1, <1>3 DEF Validated
<1>7. OneValidOutput'
  <2> SUFFICES ASSUME NEW f \in File
               PROVE  \/ bronze'[f] = << >>
                      \/ bronze'[f] = <<Output(f)>> /\ SchemaValid(Columns[f])
    BY DEF OneValidOutput, Output
  <2>1. SchemaValid(Columns[file[r]])
    BY <1>1 DEF Validated
  <2> QED
    BY <1>2, <2>1 DEF OneValidOutput
<1>8. Preserved'
  <2> SUFFICES ASSUME NEW q \in Run, pc'[q] \in Active
               PROVE  bronze'[file[q]] = IF pc'[q] = "count" THEN <<Output(file[q])>>
                                         ELSE before[q]
    BY <1>1 DEF Preserved, Output
  <2>1. file[q] \in File
    BY DEF Typed
  <2>2. CASE q = r
    BY <1>2, <1>3, <2>1, <2>2
  <2>3. CASE q # r
    <3>1. pc[q] \in Active /\ pc'[q] = pc[q] /\ file[q] # file[r]
      BY <1>1, <1>3, <2>3 DEF OneRunPerFile
    <3> QED
      BY <1>2, <2>1, <3>1 DEF Preserved
  <2> QED
    BY <2>2, <2>3
<1> QED
  BY <1>4, <1>5, <1>6, <1>7, <1>8

\* A process that dies between the two halves leaves its partition empty.
LEMMA LossInv ==
  ASSUME IInv, NEW r \in Run, FailBetweenDeleteAndRename(r)
  PROVE  IInv'
<1> USE DEF IInv
<1>1. /\ pc[r] \in Active
      /\ pc' = [pc EXCEPT ![r] = "lost"]
      /\ bronze' = WithoutOutput(file[r])
      /\ UNCHANGED <<file, before>>
      /\ file[r] \in File
  BY DEF FailBetweenDeleteAndRename, Goto, locals, Active, Writing, Typed
<1>2. /\ bronze' \in [File -> Seq(Seq(Column))]
      /\ \A f \in File : bronze'[f] = IF f = file[r] THEN << >> ELSE bronze[f]
  BY <1>1, Replaced
<1>3. \A q \in Run : pc'[q] = IF q = r THEN "lost" ELSE pc[q]
  BY <1>1 DEF Typed
<1>4. "lost" \in Ended /\ "lost" \notin Active
  BY DEF Ended, Active, Acquiring, Writing
<1>5. Typed'
  BY <1>1, <1>2, <1>4 DEF Typed
<1>6. OneRunPerFile' /\ Validated'
  BY <1>1, <1>3, <1>4 DEF OneRunPerFile, Validated
<1>7. OneValidOutput'
  BY <1>2 DEF OneValidOutput, Output
<1>8. Preserved'
  <2> SUFFICES ASSUME NEW q \in Run, pc'[q] \in Active
               PROVE  bronze'[file[q]] = IF pc'[q] = "count" THEN <<Output(file[q])>>
                                         ELSE before[q]
    BY <1>1 DEF Preserved, Output
  <2>1. file[q] \in File /\ q # r /\ pc'[q] = pc[q]
    BY <1>3, <1>4 DEF Typed
  <2>2. file[q] # file[r]
    BY <1>1, <2>1 DEF OneRunPerFile
  <2> QED
    BY <1>2, <2>1, <2>2 DEF Preserved
<1> QED
  BY <1>5, <1>6, <1>7, <1>8

-----------------------------------------------------------------------------
(* The theorems.                                                           *)

\* Runs of one file exclude each other, write only what they have validated, and
\* find the partition as they left it, whatever runs of other files do and
\* wherever any of them fails.
THEOREM Inductive == Spec => []IInv
<1>1. Init => IInv
  <2> SUFFICES ASSUME Init PROVE IInv
    OBVIOUS
  <2>1. Typed
    BY DEF Init, Typed
  <2>2. \A r \in Run : pc[r] = "idle" /\ pc[r] \notin Active
    BY DEF Init, Active, Acquiring, Writing
  <2>3. OneRunPerFile /\ Validated /\ Preserved
    BY <2>2 DEF OneRunPerFile, Validated, Preserved
  <2>4. OneValidOutput
    BY DEF Init, OneValidOutput
  <2> QED
    BY <2>1, <2>3, <2>4 DEF IInv
<1>2. IInv /\ [Next]_vars => IInv'
  <2> SUFFICES ASSUME IInv, [Next]_vars PROVE IInv'
    OBVIOUS
  <2>1. CASE UNCHANGED vars
    BY <2>1 DEF IInv, Typed, OneRunPerFile, Validated, OneValidOutput, Preserved,
                Output, vars, locals
  <2>2. CASE Next
    <3>1. PICK r \in Run : \/ Refuse(r)
                           \/ \E f \in File, n \in Limits : Start(r, f, n)
                           \/ Proceed(r)
                           \/ Fail(r)
                           \/ FailBetweenDeleteAndRename(r)
      BY <2>2 DEF Next
    <3> QED
      BY <3>1, StepKinds, StartInv, QuietInv, ReplaceInv, LossInv
  <2> QED
    BY <2>1, <2>2
<1> QED
  BY <1>1, <1>2, PTL DEF Spec

\* Re-execution replaces: a month never has two outputs in Bronze.
THEOREM NoDouble == Spec => []NeverDoubled
<1>1. IInv => NeverDoubled
  <2> SUFFICES ASSUME IInv, NEW f \in File PROVE Len(bronze[f]) <= 1
    BY DEF NeverDoubled
  <2>1. CASE bronze[f] = << >>
    BY <2>1
  <2>2. CASE bronze[f] = <<Output(f)>>
    BY <2>2
  <2> QED
    BY <2>1, <2>2 DEF IInv, OneValidOutput
<1> QED
  BY <1>1, Inductive, PTL

\* Bronze holds the columns of the contract and nothing else, for any contract,
\* any spelling of names and any files.
THEOREM Canonicals == Spec => []BronzeIsCanonical
<1>1. IInv => BronzeIsCanonical
  <2> SUFFICES ASSUME IInv, NEW f \in File, NEW i \in DOMAIN bronze[f]
               PROVE  MatchesContract(bronze[f][i])
    BY DEF BronzeIsCanonical
  <2>1. bronze[f] = <<Output(f)>> /\ SchemaValid(Columns[f])
    BY DEF IInv, OneValidOutput
  <2>2. bronze[f][i] = Output(f)
    BY <2>1
  <2>3. Columns[f] \in Seq(Column)
    BY BronzeIngestAssumption
  <2> QED
    BY <2>1, <2>2, <2>3, ValidMeansCanonical DEF Output
<1> QED
  BY <1>1, Inductive, PTL

\* What the steps of the runs do to a partition.
LEMMA StepOnPartition ==
  ASSUME IInv, [Next]_vars
  PROVE  \/ UNCHANGED bronze
         \/ \E q \in Run :
              /\ pc[q] = "replace"
              /\ \A f \in File : f # file[q] => bronze'[f] = bronze[f]
              /\ \/ bronze'[file[q]] = <<Output(file[q])>>
                 \/ pc'[q] = "lost"
<1>1. CASE UNCHANGED vars
  BY <1>1 DEF vars
<1>2. ASSUME NEW r \in Run, (\E f \in File, n \in Limits : Start(r, f, n)) \/ Quiet(r)
      PROVE  UNCHANGED bronze
  BY <1>2 DEF Start, Quiet
<1>3. ASSUME NEW q \in Run, Replace(q) \/ FailBetweenDeleteAndRename(q)
      PROVE  /\ pc[q] = "replace"
             /\ \A f \in File : f # file[q] => bronze'[f] = bronze[f]
             /\ \/ bronze'[file[q]] = <<Output(file[q])>>
                \/ pc'[q] = "lost"
  <2>1. file[q] \in File /\ Typed
    BY DEF IInv, Typed
  <2>2. CASE Replace(q)
    BY <2>1, <2>2, Replaced DEF Replace, Goto, Typed
  <2>3. CASE FailBetweenDeleteAndRename(q)
    BY <2>1, <2>3, Replaced DEF FailBetweenDeleteAndRename, Goto, Typed
  <2> QED
    BY <1>3, <2>2, <2>3
<1>4. CASE Next
  <2>1. PICK r \in Run : \/ \E f \in File, n \in Limits : Start(r, f, n)
                         \/ Quiet(r)
                         \/ Replace(r)
                         \/ FailBetweenDeleteAndRename(r)
    BY <1>4, StepKinds DEF Next
  <2> QED
    BY <1>2, <1>3, <2>1
<1> QED
  BY <1>1, <1>4

\* A run overwrites the partition of its own month only.
THEOREM OwnMonthOnly == Spec => OtherMonthsUntouched
<1>1. IInv /\ [Next]_vars =>
        [\A f \in File : bronze'[f] # bronze[f] =>
           \E r \in Run : pc[r] = "replace" /\ file[r] = f]_bronze
  BY StepOnPartition
<1> QED
  BY <1>1, Inductive, PTL DEF Spec, OtherMonthsUntouched

\* A run leaves its partition as it found it, or writes it cleanly, wherever it
\* fails, unless its process dies between the two halves of the overwrite.
THEOREM CleanOrPreserved == Spec => AllOrNothing
<1>1. IInv /\ [Next]_vars =>
        [\A r \in Run : pc[r] \in Active /\ pc'[r] \notin {"idle", "lost"} =>
           bronze'[file[r]] \in {before[r], <<Output(file[r])>>}]_vars
  <2> SUFFICES ASSUME IInv, [Next]_vars, NEW r \in Run,
                      pc[r] \in Active, pc'[r] \notin {"idle", "lost"}
               PROVE  bronze'[file[r]] \in {before[r], <<Output(file[r])>>}
    OBVIOUS
  <2>1. /\ bronze[file[r]] \in {before[r], <<Output(file[r])>>}
        /\ file[r] \in File
    BY DEF IInv, Preserved, Typed
  <2>2. CASE UNCHANGED bronze
    BY <2>1, <2>2
  <2>3. ASSUME NEW q \in Run,
               pc[q] = "replace",
               \A f \in File : f # file[q] => bronze'[f] = bronze[f],
               bronze'[file[q]] = <<Output(file[q])>> \/ pc'[q] = "lost"
        PROVE  bronze'[file[r]] \in {before[r], <<Output(file[r])>>}
    <3>1. CASE q = r
      BY <2>3, <3>1
    <3>2. CASE q # r
      <4>1. file[q] # file[r]
        BY <2>3, <3>2 DEF IInv, OneRunPerFile, Active, Writing
      <4> QED
        BY <2>1, <2>3, <4>1
    <3> QED
      BY <3>1, <3>2
  <2> QED
    BY <2>2, <2>3, StepOnPartition
<1> QED
  BY <1>1, Inductive, PTL DEF Spec, AllOrNothing

-----------------------------------------------------------------------------
(* Listings.                                                               *)

\* A set of numbers has a least element.
LEMMA Least ==
  ASSUME NEW T \in SUBSET Nat, T # {}
  PROVE  \E n \in T : \A k \in T : n <= k
<1> DEFINE R == OpToRel(<, Nat)
<1>1. R = {ss \in Nat \X Nat : ss[1] < ss[2]}
  BY DEF OpToRel
<1>2. IsWellFoundedOn(R, Nat)
  BY NatLessThanWellFounded
<1> HIDE DEF R
<1>3. PICK n \in T : \A k \in T : ~ (<<k, n>> \in R)
  BY <1>2, WFMin
<1>4. \A k \in T : n <= k
  <2> SUFFICES ASSUME NEW k \in T, k < n PROVE FALSE
    OBVIOUS
  <2>1. <<k, n>> \in R
    BY <1>1
  <2> QED
    BY <2>1, <1>3
<1> QED
  BY <1>4

\* The range of a sequence is the set of its entries.
LEMMA Entries ==
  ASSUME NEW s \in Seq(File)
  PROVE  \A x : x \in Range(s) <=> \E i \in 1..Len(s) : s[i] = x
BY DEF Range

\* A listing without a file: one entry less, if the file was in it.
LEMMA Removal ==
  ASSUME NEW s \in Seq(File), IsInjective(s), NEW f
  PROVE  /\ RemoveFirst(s, f) \in Seq(File)
         /\ IsInjective(RemoveFirst(s, f))
         /\ Range(RemoveFirst(s, f)) = Range(s) \ {f}
         /\ Len(RemoveFirst(s, f)) = IF f \in Range(s) THEN Len(s) - 1 ELSE Len(s)
<1> DEFINE t == RemoveFirst(s, f)
           I == {i \in 1..Len(s) : s[i] = f}
<1>1. CASE f \notin Range(s)
  <2>1. ~ \E i \in 1..Len(s) : s[i] = f
    BY <1>1 DEF Range
  <2>2. t = s
    BY <2>1 DEF RemoveFirst
  <2> QED
    BY <1>1, <2>2
<1>2. CASE f \in Range(s)
  <2>1. PICK n \in 1..Len(s) : s[n] = f
    BY <1>2 DEF Range
  <2>2. I = {n}
    BY <2>1 DEF IsInjective
  <2>3. t = RemoveAt(s, Min(I))
    BY <2>1, <2>2 DEF RemoveFirst, SelectInSeq
  <2>4. Min(I) = n
    BY <2>2 DEF Min
  <2>5. t = SubSeq(s, 1, n - 1) \o SubSeq(s, n + 1, Len(s))
    BY <2>3, <2>4 DEF RemoveAt
  <2> HIDE DEF t, I
  <2>6. /\ t \in Seq(File)
        /\ Len(t) = Len(s) - 1
        /\ \A i \in 1..Len(t) : t[i] = IF i < n THEN s[i] ELSE s[i + 1]
    <3> DEFINE a == SubSeq(s, 1, n - 1)
               b == SubSeq(s, n + 1, Len(s))
    <3>1. /\ a \in Seq(File)
          /\ Len(a) = n - 1
          /\ \A i \in 1..Len(a) : a[i] = s[i]
      BY <2>1
    <3>2. /\ b \in Seq(File)
          /\ Len(b) = Len(s) - n
          /\ \A i \in 1..Len(b) : b[i] = s[n + i]
      BY <2>1
    <3> HIDE DEF a, b
    <3>3. /\ t = a \o b
          /\ n \in 1..Len(s)
      BY <2>5 DEF a, b
    <3>4. /\ t \in Seq(File)
          /\ Len(t) = Len(a) + Len(b)
          /\ \A i \in 1..Len(t) : t[i] = IF i <= Len(a) THEN a[i] ELSE b[i - Len(a)]
      <4>1. a \in Seq(File) /\ b \in Seq(File)
        BY <3>1, <3>2
      <4> QED
        BY <3>3, <4>1
    <3>5. Len(t) = Len(s) - 1
      BY <3>1, <3>2, <3>4
    <3>6. ASSUME NEW i \in 1..Len(t) PROVE t[i] = IF i < n THEN s[i] ELSE s[i + 1]
      <4>1. CASE i < n
        BY <3>1, <3>3, <3>4, <4>1
      <4>2. CASE ~ (i < n)
        <5>1. i - (n - 1) \in 1..Len(b) /\ t[i] = b[i - (n - 1)]
          BY <3>1, <3>2, <3>3, <3>4, <4>2
        <5>2. b[i - (n - 1)] = s[n + (i - (n - 1))]
          BY <3>2, <5>1
        <5>3. n + (i - (n - 1)) = i + 1
          BY <3>3
        <5> QED
          BY <4>2, <5>1, <5>2, <5>3
      <4> QED
        BY <4>1, <4>2
    <3> QED
      BY <3>4, <3>5, <3>6
  <2>7. \A i \in 1..Len(t) : \E k \in 1..Len(s) :
          /\ t[i] = s[k]
          /\ k = IF i < n THEN i ELSE i + 1
    BY <2>1, <2>6
  <2>8. \A k, l \in 1..Len(s) : s[k] = s[l] => k = l
    BY DEF IsInjective
  <2>9. IsInjective(t)
    <3> SUFFICES ASSUME NEW i \in 1..Len(t), NEW j \in 1..Len(t), t[i] = t[j]
                 PROVE  i = j
      BY <2>6 DEF IsInjective
    <3>1. PICK k \in 1..Len(s) : t[i] = s[k] /\ k = IF i < n THEN i ELSE i + 1
      BY <2>7
    <3>2. PICK l \in 1..Len(s) : t[j] = s[l] /\ l = IF j < n THEN j ELSE j + 1
      BY <2>7
    <3>3. k = l
      BY <2>8, <3>1, <3>2
    <3> QED
      BY <3>1, <3>2, <3>3
  <2>10. Range(t) = Range(s) \ {f}
    <3>1. ASSUME NEW i \in 1..Len(t) PROVE t[i] \in Range(s) \ {f}
      <4>1. PICK k \in 1..Len(s) : t[i] = s[k] /\ k = IF i < n THEN i ELSE i + 1
        BY <2>7
      <4>2. k # n
        BY <4>1
      <4> QED
        BY <2>1, <2>8, <4>1, <4>2 DEF Range
    <3>2. ASSUME NEW i \in 1..Len(s), s[i] # f PROVE \E j \in 1..Len(t) : t[j] = s[i]
      <4>1. CASE i < n
        <5>1. i \in 1..Len(t) /\ t[i] = s[i]
          BY <2>1, <2>6, <4>1
        <5> QED
          BY <5>1
      <4>2. CASE i > n
        <5>1. i - 1 \in 1..Len(t) /\ t[i - 1] = s[i]
          BY <2>1, <2>6, <4>2
        <5> QED
          BY <5>1
      <4> QED
        BY <2>1, <3>2, <4>1, <4>2
    <3>3. \A x : x \in Range(t) => x \in Range(s) \ {f}
      BY <2>6, <3>1, Entries
    <3>4. \A x : x \in Range(s) /\ x # f => x \in Range(t)
      BY <2>6, <3>2, Entries
    <3> QED
      BY <3>3, <3>4
  <2> QED
    BY <1>2, <2>6, <2>9, <2>10 DEF t
<1> QED
  BY <1>1, <1>2

\* A file that is not listed is added at the end.
LEMMA Addition ==
  ASSUME NEW s \in Seq(File), IsInjective(s), NEW f \in File, f \notin Range(s)
  PROVE  /\ Append(s, f) \in Seq(File)
         /\ IsInjective(Append(s, f))
         /\ Range(Append(s, f)) = Range(s) \cup {f}
         /\ Append(s, f) # << >>
         /\ Append(s, f)[Len(Append(s, f))] = f
<1> DEFINE t == Append(s, f)
<1>1. /\ t \in Seq(File)
      /\ Len(t) = Len(s) + 1
      /\ \A i \in 1..Len(s) : t[i] = s[i]
      /\ t[Len(s) + 1] = f
  OBVIOUS
<1>2. \A i \in 1..Len(s) : s[i] # f
  BY DEF Range
<1> HIDE DEF t
<1>3. IsInjective(t)
  BY <1>1, <1>2 DEF IsInjective
<1>4. Range(t) = Range(s) \cup {f}
  <2>1. \A i \in 1..Len(t) : i \in 1..Len(s) \/ i = Len(s) + 1
    BY <1>1
  <2>2. \A i \in 1..Len(s) : i \in 1..Len(t)
    BY <1>1
  <2>3. Len(s) + 1 \in 1..Len(t)
    BY <1>1
  <2> QED
    BY <1>1, <2>1, <2>2, <2>3 DEF Range
<1>5. t # << >> /\ t[Len(t)] = f
  BY <1>1
<1> QED
  BY <1>1, <1>3, <1>4, <1>5 DEF t

\* A listing has as many entries as files.
LEMMA ListingSize ==
  ASSUME NEW s \in Seq(File), IsInjective(s)
  PROVE  /\ IsFiniteSet(Range(s))
         /\ Cardinality(Range(s)) = Len(s)
<1>1. s \in Bijection(1..Len(s), Range(s))
  BY DEF Bijection, Injection, Surjection, Range
<1>2. ExistsBijection(1..Len(s), Range(s))
  BY <1>1 DEF ExistsBijection
<1>3. Len(s) \in Nat
  OBVIOUS
<1> QED
  BY <1>2, <1>3, FS_CountingElements, FS_NatBijection

\* The files of a directory can be sorted by modification time: of the prefixes of
\* the directory's order, none is the shortest that cannot.
LEMMA SortedExists ==
  ASSUME cache \in Seq(File), IsInjective(cache), NEW S \in SUBSET Range(cache)
  PROVE  \E s \in SetToSeqs(S) : OldestFirst(s)
<1> DEFINE Part(n) == {f \in S : \E k \in 1..n : cache[k] = f}
           T == {n \in 0..Len(cache) : ~ \E s \in SetToSeqs(Part(n)) : OldestFirst(s)}
<1>1. Part(Len(cache)) = S
  BY DEF Range
<1>2. \A n \in 0..Len(cache) : IsFiniteSet(Part(n))
  BY ListingSize, FS_Subset
<1>3. T = {}
  <2> SUFFICES ASSUME T # {} PROVE FALSE
    OBVIOUS
  <2>1. T \in SUBSET Nat
    OBVIOUS
  <2>2. PICK n \in T : \A k \in T : n <= k
    BY <2>1, Least
  <2>3. n # 0
    <3>1. Part(0) = {}
      OBVIOUS
    <3>2. << >> \in SetToSeqs({})
      BY FS_EmptySet DEF SetToSeqs
    <3>3. OldestFirst(<< >>)
      BY DEF OldestFirst
    <3> QED
      BY <2>2, <3>1, <3>2, <3>3
  <2>4. PICK s \in SetToSeqs(Part(n - 1)) : OldestFirst(s)
    <3>1. n - 1 \in 0..Len(cache) /\ ~ (n <= n - 1)
      BY <2>3
    <3>2. n - 1 \notin T
      BY <2>2, <3>1
    <3> HIDE DEF Part
    <3> QED
      BY <3>1, <3>2
  <2>5. /\ n \in 1..Len(cache)
        /\ n - 1 \in 0..Len(cache)
    BY <2>2, <2>3
  <2> DEFINE f == cache[n]
             P == Part(n - 1)
             c == Cardinality(P)
  <2>6. \A g : g \in Part(n) <=> g \in P \/ (g = f /\ f \in S)
    <3>1. \A k \in 1..n : k \in 1..(n - 1) \/ k = n
      BY <2>5
    <3>2. \A k \in 1..(n - 1) : k \in 1..n
      BY <2>5
    <3> QED
      BY <2>5, <3>1, <3>2
  <2>7. f \in S
    <3> SUFFICES ASSUME f \notin S PROVE FALSE
      OBVIOUS
    <3>1. Part(n) = P
      BY <2>6
    <3> QED
      BY <2>2, <2>4, <3>1
  <2>8. Part(n) = P \cup {f}
    BY <2>6, <2>7
  <2>9. f \notin P
    BY <2>5 DEF IsInjective
  <2>10. c \in Nat /\ Cardinality(Part(n)) = c + 1
    <3>1. IsFiniteSet(P)
      BY <1>2, <2>5
    <3> QED
      BY <2>8, <2>9, <3>1, FS_AddElement, FS_CardinalityType
  <2>11. /\ s \in [1..c -> P]
         /\ \A i, j \in 1..c : i # j => s[i] # s[j]
    BY <2>4 DEF SetToSeqs
  <2>12. \A i \in 1..c : \E k \in 1..(n - 1) : cache[k] = s[i]
    BY <2>11
  <2> DEFINE u == [i \in 1..(c + 1) |-> IF i = c + 1 THEN f ELSE s[i]]
  <2> HIDE DEF T, Part, f, c, P
  <2>13. u \in SetToSeqs(Part(n))
    <3>1. \A i \in 1..(c + 1) : i = c + 1 \/ i \in 1..c
      BY <2>10
    <3>2. u \in [1..(c + 1) -> Part(n)]
      BY <2>8, <2>11, <3>1
    <3>3. \A i, j \in 1..(c + 1) : i # j => u[i] # u[j]
      BY <2>9, <2>11, <3>1
    <3> QED
      BY <2>10, <3>2, <3>3 DEF SetToSeqs
  <2>14. OldestFirst(u)
    <3> SUFFICES ASSUME NEW i \in 1..(c + 1), NEW j \in 1..(c + 1), i < j
                 PROVE  \E k, l \in DOMAIN cache :
                          k < l /\ cache[k] = u[i] /\ cache[l] = u[j]
      BY DEF OldestFirst
    <3>1. i \in 1..c /\ u[i] = s[i]
      BY <2>10
    <3>2. CASE j = c + 1
      <4>1. PICK k \in 1..(n - 1) : cache[k] = s[i]
        BY <2>12, <3>1
      <4>2. k \in DOMAIN cache /\ n \in DOMAIN cache /\ k < n
        BY <2>5
      <4> QED
        BY <3>1, <3>2, <4>1, <4>2 DEF f
    <3>3. CASE j # c + 1
      <4>1. j \in 1..c /\ u[j] = s[j]
        BY <2>10, <3>3
      <4>2. DOMAIN s = 1..c
        BY <2>11
      <4> QED
        BY <2>4, <3>1, <4>1, <4>2 DEF OldestFirst
    <3> QED
      BY <3>2, <3>3
  <2> QED
    BY <2>2, <2>13, <2>14 DEF T
<1>4. Len(cache) \in 0..Len(cache)
  OBVIOUS
<1> QED
  BY <1>1, <1>3, <1>4

\* What sorting a set of cached files returns.
LEMMA SortedFiles ==
  ASSUME cache \in Seq(File), IsInjective(cache), NEW S \in SUBSET Range(cache)
  PROVE  /\ Sorted(S) \in Seq(File)
         /\ IsInjective(Sorted(S))
         /\ Range(Sorted(S)) \subseteq S
         /\ Len(Sorted(S)) = Cardinality(S)
         /\ OldestFirst(Sorted(S))
<1> DEFINE s == Sorted(S)
<1>1. s \in SetToSeqs(S) /\ OldestFirst(s)
  BY SortedExists DEF Sorted
<1>2. Cardinality(S) \in Nat
  BY ListingSize, FS_Subset, FS_CardinalityType
<1> HIDE DEF s
<1>3. /\ s \in [1..Cardinality(S) -> S]
      /\ \A i, j \in 1..Cardinality(S) : i # j => s[i] # s[j]
  BY <1>1 DEF SetToSeqs
<1>4. S \subseteq File
  BY DEF Range
<1>5. s \in Seq(File) /\ Len(s) = Cardinality(S)
  BY <1>2, <1>3, <1>4
<1>6. IsInjective(s) /\ Range(s) \subseteq S
  BY <1>3 DEF IsInjective, Range
<1> QED
  BY <1>1, <1>5, <1>6 DEF s

\* The surplus of a directory is what is beyond the limit, and never the newest
\* file as long as one file is to be left.
LEMMA SurplusFiles ==
  ASSUME cache \in Seq(File), IsInjective(cache), NEW n \in Nat,
         NEW S \in SUBSET Range(cache)
  PROVE  LET e == Surplus(Sorted(S), n)
         IN  /\ e \in Seq(File)
             /\ S = Range(cache) =>
                  /\ Len(e) = IF Len(cache) > n THEN Len(cache) - n ELSE 0
                  /\ IsInjective(e)
                  /\ Range(e) \subseteq Range(cache)
                  /\ n > 0 /\ cache # << >> => cache[Len(cache)] \notin Range(e)
<1> DEFINE s == Sorted(S)
           e == Surplus(s, n)
<1>1. /\ s \in Seq(File)
      /\ IsInjective(s)
      /\ Range(s) \subseteq S
      /\ Len(s) = Cardinality(S)
      /\ OldestFirst(s)
  BY SortedFiles
<1> HIDE DEF s
<1>2. /\ e \in Seq(File)
      /\ Len(e) = IF Len(s) > n THEN Len(s) - n ELSE 0
      /\ \A i \in 1..Len(e) : e[i] = s[i]
  BY <1>1 DEF Surplus
<1> HIDE DEF e
<1>3. ASSUME S = Range(cache)
      PROVE  /\ Len(s) = Len(cache)
             /\ IsInjective(e)
             /\ Range(e) \subseteq Range(cache)
  <2>1. Len(s) = Len(cache)
    BY <1>1, <1>3, ListingSize
  <2>2. \A i \in 1..Len(e) : i \in 1..Len(s)
    BY <1>1, <1>2
  <2>3. IsInjective(e)
    <3>1. \A i, j \in 1..Len(s) : s[i] = s[j] => i = j
      BY <1>1 DEF IsInjective
    <3>2. \A i, j \in 1..Len(e) : e[i] = e[j] => i = j
      BY <1>2, <2>2, <3>1
    <3> QED
      BY <1>2, <3>2 DEF IsInjective
  <2>4. \A x : x \in Range(e) => x \in Range(s)
    BY <1>1, <1>2, <2>2, Entries
  <2> QED
    BY <1>1, <2>1, <2>3, <2>4
<1>4. ASSUME S = Range(cache), n > 0, cache # << >>, cache[Len(cache)] \in Range(e)
      PROVE  FALSE
  <2>1. PICK i \in 1..Len(e) : e[i] = cache[Len(cache)]
    BY <1>2, <1>4 DEF Range
  <2>2. i \in 1..Len(s) /\ i + 1 \in 1..Len(s)
    BY <1>1, <1>2, <1>4
  <2>3. i < i + 1
    OBVIOUS
  <2>4. PICK k, l \in DOMAIN cache : k < l /\ cache[k] = s[i] /\ cache[l] = s[i + 1]
    BY <1>1, <2>2, <2>3 DEF OldestFirst
  <2>5. Len(cache) \in DOMAIN cache
    BY <1>4
  <2>6. k = Len(cache)
    BY <1>2, <2>1, <2>4, <2>5 DEF IsInjective
  <2> QED
    BY <2>4, <2>6
<1> QED
  BY <1>2, <1>3, <1>4 DEF e, s

-----------------------------------------------------------------------------
(* The cache.                                                              *)

CacheTyped ==
  /\ cache \in Seq(File)
  /\ IsInjective(cache)
  /\ complete \subseteq Range(cache)
  /\ limit \in [Run -> Limits]
  /\ listed \in [Run -> SUBSET File]
  /\ evicting \in [Run -> Seq(File)]
  /\ alone \subseteq Run
  /\ faults \in 0..MaxFaults

\* While a run that nobody has overlapped is in progress, no other run is.
Sole == \A q \in alone, r \in Run : pc[q] \in Active /\ pc[r] \in Active => q = r

\* The runs that are evicting, and no others, have files left to evict.
LeftToEvict == \A r \in Run : pc[r] = "evict" <=> evicting[r] # << >>

Newest(r) == cache # << >> /\ cache[Len(cache)] = file[r]

\* A run on its own has the newest file in the cache from the first byte of its
\* download until it sorts the files; the files it is to evict are others, and as
\* many as there are too many.
OwnCopy(r) ==
  /\ pc[r] = "download" => Newest(r)
  /\ pc[r] \in {"list", "sort", "evict"} => Enabled(r) /\ Readable(r)
  /\ pc[r] \in {"list", "sort"} => Newest(r)
  /\ pc[r] = "sort" => listed[r] = Range(cache)
  /\ pc[r] = "evict" =>
       /\ evicting[r] # << >>
       /\ IsInjective(evicting[r])
       /\ Range(evicting[r]) \subseteq Range(cache) \ {file[r]}
       /\ Len(cache) - Len(evicting[r]) = limit[r]
  /\ pc[r] = "acquired" /\ ~Enabled(r) => Readable(r)

CInv ==
  /\ CacheTyped
  /\ Sole
  /\ LeftToEvict
  /\ \A r \in alone : OwnCopy(r)

\* A step of a run in progress does not concern the other runs: of those nobody
\* has overlapped, none is in progress.
LEMMA RunStep ==
  ASSUME Typed, CInv, NEW r \in Run, pc[r] \in Active,
         NEW where \in Active \cup Ended, pc' = [pc EXCEPT ![r] = where],
         UNCHANGED alone, CacheTyped',
         where = "evict" <=> evicting'[r] # << >>,
         \A q \in Run : q # r => evicting'[q] = evicting[q],
         r \in alone => OwnCopy(r)'
  PROVE  CInv'
<1> USE DEF CInv
<1>1. \A q \in Run : pc'[q] = IF q = r THEN where ELSE pc[q]
  BY DEF Typed
<1>2. \A q \in alone : q \in Run
  BY DEF CacheTyped
<1>3. Sole'
  BY <1>1, <1>2 DEF Sole
<1>4. LeftToEvict'
  BY <1>1 DEF LeftToEvict
<1>5. ASSUME NEW q \in alone, q # r PROVE OwnCopy(q)'
  <2>1. pc'[q] = pc[q] /\ pc[q] \notin Active
    BY <1>1, <1>2, <1>5 DEF Sole
  <2>2. pc'[q] \notin {"download", "list", "sort", "evict", "acquired"}
    BY <2>1 DEF Active, Acquiring
  <2> QED
    BY <2>2 DEF OwnCopy
<1> QED
  BY <1>3, <1>4, <1>5

\* The steps that leave the cache and what the run knows of it alone.
LEMMA ElsewhereInv ==
  ASSUME Typed, CInv, NEW r \in Run, pc[r] \in Active \ {"evict"},
         NEW where \in {"read", "write", "replace", "count", "done", "failed", "lost",
                        "acquired"},
         where = "acquired" => Enabled(r),
         pc' = [pc EXCEPT ![r] = where],
         UNCHANGED <<dir, file, limit, evicting, alone>>,
         listed' \in {listed, [listed EXCEPT ![r] = {}]},
         faults' \in 0..MaxFaults
  PROVE  CInv'
<1>1. CacheTyped'
  BY DEF CInv, CacheTyped, dir
<1>2. pc'[r] = where /\ evicting'[r] = << >>
  BY DEF Typed, CInv, LeftToEvict
<1>3. OwnCopy(r)'
  BY <1>2 DEF OwnCopy, Enabled, dir
<1>4. where \in Active \cup Ended
  BY DEF Active, Acquiring, Writing, Ended
<1> QED
  BY <1>1, <1>2, <1>3, <1>4, RunStep

LEMMA OtherSteps ==
  ASSUME Typed, CInv, NEW r \in Run,
         Hit(r) \/ Acquired(r) \/ Read(r) \/ Write(r) \/ Replace(r) \/ Count(r)
           \/ FailBetweenDeleteAndRename(r)
  PROVE  CInv'
<1>1. faults \in 0..MaxFaults /\ MaxFaults \in Nat
  BY BronzeIngestAssumption DEF CInv, CacheTyped
<1>2. faults' \in 0..MaxFaults
  BY <1>1 DEF Hit, Acquired, Read, Write, Replace, Count, FailBetweenDeleteAndRename
<1> USE <1>2, ElsewhereInv DEF Goto, locals, Active, Acquiring, Writing
<1>3. CASE Hit(r)
  BY <1>3 DEF Hit
<1>4. CASE Acquired(r)
  BY <1>4 DEF Acquired
<1>5. CASE Read(r)
  BY <1>5 DEF Read
<1>6. CASE Write(r)
  BY <1>6 DEF Write
<1>7. CASE Replace(r)
  BY <1>7 DEF Replace
<1>8. CASE Count(r)
  BY <1>8 DEF Count
<1>9. CASE FailBetweenDeleteAndRename(r)
  BY <1>9 DEF FailBetweenDeleteAndRename
<1> QED
  BY <1>3, <1>4, <1>5, <1>6, <1>7, <1>8, <1>9

\* A failure from outside ends the run and its eviction.
LEMMA FailCache ==
  ASSUME Typed, CInv, NEW r \in Run, Fail(r)
  PROVE  CInv'
<1>1. faults' \in 0..MaxFaults
  BY BronzeIngestAssumption DEF CInv, CacheTyped, Fail
<1>2. CacheTyped'
  BY <1>1 DEF CInv, CacheTyped, Fail, dir
<1>3. pc'[r] = "failed"
  BY DEF Typed, Fail, Goto
<1>4. /\ evicting'[r] = << >>
      /\ \A q \in Run : q # r => evicting'[q] = evicting[q]
  BY DEF Fail, CInv, CacheTyped
<1>5. OwnCopy(r)'
  BY <1>3 DEF OwnCopy
<1>6. /\ pc[r] \in Active
      /\ pc' = [pc EXCEPT ![r] = "failed"]
      /\ UNCHANGED alone
  BY DEF Fail, Goto
<1>7. "failed" \in Active \cup Ended
  BY DEF Ended
<1> QED
  BY <1>2, <1>4, <1>5, <1>6, <1>7, RunStep

\* A refused request is not a run.
LEMMA RefuseCache ==
  ASSUME Typed, CInv, NEW r \in Run, Refuse(r)
  PROVE  CInv'
<1> USE DEF CInv
<1>1. CacheTyped'
  BY DEF CacheTyped, Refuse, dir, locals
<1>2. \A q \in Run : /\ pc'[q] = IF q = r THEN "failed" ELSE pc[q]
                     /\ evicting'[q] = evicting[q]
  BY DEF Typed, Refuse, Goto, locals
<1>3. "failed" \notin Active /\ pc[r] # "evict"
  BY DEF Refuse, Active, Acquiring, Writing, Ended
<1>4. Sole'
  BY <1>2, <1>3 DEF Sole, CacheTyped, Refuse, locals
<1>5. LeftToEvict'
  BY <1>2, <1>3 DEF LeftToEvict
<1>6. ASSUME NEW q \in alone PROVE OwnCopy(q)'
  BY <1>2, <1>6 DEF CacheTyped, Refuse, dir, locals, OwnCopy, Newest, Enabled, Readable
<1> QED
  BY <1>1, <1>4, <1>5, <1>6 DEF Refuse, locals

\* A run that starts is on its own when nobody is in progress; otherwise neither
\* it nor those in progress are.
LEMMA StartCache ==
  ASSUME Typed, CInv, NEW r \in Run, NEW f \in File, NEW n \in Limits, Start(r, f, n)
  PROVE  CInv'
<1> USE DEF CInv
<1>1. /\ \A q \in Run : /\ pc'[q] = IF q = r THEN "lookup" ELSE pc[q]
                        /\ evicting'[q] = evicting[q]
      /\ pc[r] # "evict"
  BY DEF Typed, Start, Goto, Ended
<1>2. alone' = IF InProgress = {} THEN alone \cup {r} ELSE alone \ (InProgress \cup {r})
  BY DEF Start
<1>3. CacheTyped'
  BY <1>2 DEF CacheTyped, Start, dir
<1>4. ASSUME NEW q \in alone', q # r PROVE q \in Run /\ pc'[q] = pc[q] /\ pc[q] \notin Active
  BY <1>1, <1>2, <1>4 DEF CacheTyped, InProgress
<1>5. r \in alone' => InProgress = {}
  BY <1>2
<1>6. Sole'
  BY <1>1, <1>4, <1>5 DEF Sole, InProgress
<1>7. LeftToEvict'
  BY <1>1 DEF LeftToEvict
<1>8. ASSUME NEW q \in alone' PROVE OwnCopy(q)'
  <2>1. pc'[q] \notin {"download", "list", "sort", "evict", "acquired"}
    BY <1>1, <1>4 DEF Active, Acquiring
  <2> QED
    BY <2>1 DEF OwnCopy
<1> QED
  BY <1>3, <1>6, <1>7, <1>8

\* The file that is modified now is the newest.
LEMMA TouchedNewest ==
  ASSUME CacheTyped, NEW f \in File
  PROVE  /\ Touched(f) \in Seq(File)
         /\ IsInjective(Touched(f))
         /\ Range(Touched(f)) = Range(cache) \cup {f}
         /\ Touched(f) # << >>
         /\ Touched(f)[Len(Touched(f))] = f
<1> DEFINE s == RemoveFirst(cache, f)
<1>1. /\ s \in Seq(File)
      /\ IsInjective(s)
      /\ Range(s) = Range(cache) \ {f}
  BY Removal DEF CacheTyped
<1> HIDE DEF s
<1>2. f \notin Range(s)
  BY <1>1
<1>3. /\ Append(s, f) \in Seq(File)
      /\ IsInjective(Append(s, f))
      /\ Range(Append(s, f)) = Range(s) \cup {f}
      /\ Append(s, f) # << >>
      /\ Append(s, f)[Len(Append(s, f))] = f
  BY <1>1, <1>2, Addition
<1> QED
  BY <1>1, <1>3 DEF Touched, s

LEMMA OpenCache ==
  ASSUME Typed, CInv, NEW r \in Run, Open(r)
  PROVE  CInv'
<1> USE DEF CInv
<1>1. file[r] \in File /\ file' = file
  BY DEF Typed, Open, locals
<1>2. CacheTyped'
  BY <1>1, TouchedNewest DEF CacheTyped, Open, locals
<1>3. pc'[r] = "download" /\ pc[r] = "lookup"
  BY DEF Typed, Open, Goto
<1>4. Newest(r)'
  BY <1>1, TouchedNewest DEF Newest, Open
<1>5. OwnCopy(r)'
  BY <1>3, <1>4 DEF OwnCopy
<1>6. /\ evicting'[r] = << >>
      /\ \A q \in Run : q # r => evicting'[q] = evicting[q]
  BY <1>3 DEF LeftToEvict, Open, locals
<1> QED
  BY <1>2, <1>3, <1>5, <1>6, RunStep
     DEF Open, Goto, locals, Active, Acquiring

\* A run on its own finds its file when the download ends, and it is the newest.
LEMMA DownloadedCache ==
  ASSUME Typed, CInv, NEW r \in Run, Downloaded(r)
  PROVE  CInv'
<1> USE DEF CInv
<1> DEFINE where == IF Enabled(r) THEN "list" ELSE "acquired"
<1>1. /\ file[r] \in File
      /\ UNCHANGED <<file, limit, listed, evicting, alone, faults>>
  BY DEF Typed, Downloaded, locals
<1>2. CacheTyped'
  BY <1>1, TouchedNewest DEF CacheTyped, Downloaded, dir
<1>3. /\ pc[r] = "download"
      /\ pc' = [pc EXCEPT ![r] = where]
      /\ pc'[r] = where
  BY DEF Typed, Downloaded, Goto
<1>4. ASSUME r \in alone PROVE OwnCopy(r)'
  <2>1. Newest(r)
    BY <1>3, <1>4 DEF OwnCopy
  <2>2. Cached(r)
    BY <2>1 DEF Newest, Cached, Range, CacheTyped
  <2>3. cache' = Touched(file[r]) /\ complete' = complete \cup {file[r]}
    BY <2>2 DEF Downloaded
  <2>4. Newest(r)' /\ Readable(r)'
    BY <1>1, <2>3, TouchedNewest DEF Newest, Readable
  <2>5. Enabled(r)' <=> Enabled(r)
    BY <1>1 DEF Enabled
  <2> QED
    BY <1>3, <2>4, <2>5 DEF OwnCopy
<1>5. evicting'[r] = << >>
  BY <1>1, <1>3 DEF LeftToEvict
<1>6. where \in Active \cup Ended /\ pc[r] \in Active
  BY <1>3 DEF Active, Acquiring
<1>7. where # "evict"
  OBVIOUS
<1> HIDE DEF where
<1> QED
  BY <1>1, <1>2, <1>3, <1>4, <1>5, <1>6, <1>7, RunStep

LEMMA ListCache ==
  ASSUME Typed, CInv, NEW r \in Run, List(r)
  PROVE  CInv'
<1> USE DEF CInv
<1>1. /\ UNCHANGED <<cache, complete, file, limit, evicting, alone, faults>>
      /\ pc[r] = "list"
      /\ pc' = [pc EXCEPT ![r] = "sort"]
      /\ pc'[r] = "sort"
      /\ listed' = [listed EXCEPT ![r] = Range(cache)]
  BY DEF Typed, List, Goto, dir
<1>2. Range(cache) \subseteq File
  BY DEF CacheTyped, Range
<1>3. CacheTyped'
  BY <1>1, <1>2 DEF CacheTyped
<1>4. listed'[r] = Range(cache)'
  BY <1>1 DEF CacheTyped
<1>5. ASSUME r \in alone PROVE OwnCopy(r)'
  BY <1>1, <1>4, <1>5 DEF OwnCopy, Newest, Enabled, Readable
<1>6. evicting'[r] = << >>
  BY <1>1 DEF LeftToEvict
<1>7. "sort" \in Active \cup Ended /\ pc[r] \in Active
  BY <1>1 DEF Active, Acquiring
<1> QED
  BY <1>1, <1>3, <1>5, <1>6, <1>7, RunStep

\* A run on its own finds every file it has listed, and marks those beyond its
\* limit, its own never.
LEMMA SortCache ==
  ASSUME Typed, CInv, NEW r \in Run, Sort(r)
  PROVE  CInv'
<1> USE DEF CInv
<1> DEFINE e == Surplus(Sorted(listed[r]), limit[r])
<1>1. /\ UNCHANGED <<cache, complete, file, limit, alone, faults>>
      /\ pc[r] = "sort"
      /\ listed' = [listed EXCEPT ![r] = {}]
  BY DEF Sort, dir
<1>2. cache \in Seq(File) /\ IsInjective(cache) /\ limit[r] \in Nat
  BY BronzeIngestAssumption DEF CacheTyped
<1>3. evicting[r] = << >> /\ pc[r] \in Active
  BY <1>1 DEF LeftToEvict, Active, Acquiring
<1>4. CASE ~ (listed[r] \subseteq Range(cache))
  <2>1. /\ pc' = [pc EXCEPT ![r] = "failed"]
        /\ evicting' = evicting
    BY <1>4 DEF Sort, Goto
  <2> QED
    BY <1>1, <1>3, <2>1, ElsewhereInv DEF CacheTyped, dir
<1>5. CASE listed[r] \subseteq Range(cache)
  <2> DEFINE where == IF e = << >> THEN "acquired" ELSE "evict"
  <2>1. /\ pc' = [pc EXCEPT ![r] = where]
        /\ pc'[r] = where
        /\ evicting' = [evicting EXCEPT ![r] = e]
    BY <1>5 DEF Sort, Goto, Typed
  <2>2. /\ e \in Seq(File)
        /\ listed[r] = Range(cache) =>
             /\ Len(e) = IF Len(cache) > limit[r] THEN Len(cache) - limit[r] ELSE 0
             /\ IsInjective(e)
             /\ Range(e) \subseteq Range(cache)
             /\ limit[r] > 0 /\ cache # << >> => cache[Len(cache)] \notin Range(e)
    BY <1>2, <1>5, SurplusFiles
  <2> HIDE DEF e
  <2>3. CacheTyped'
    BY <1>1, <2>1, <2>2 DEF CacheTyped
  <2>4. /\ evicting'[r] = e
        /\ \A q \in Run : q # r => evicting'[q] = evicting[q]
    BY <2>1 DEF CacheTyped
  <2>5. ASSUME r \in alone PROVE OwnCopy(r)'
    <3>1. listed[r] = Range(cache) /\ Newest(r) /\ Enabled(r) /\ Readable(r)
      BY <1>1, <2>5 DEF OwnCopy
    <3>2. Enabled(r)' /\ Readable(r)'
      BY <1>1, <3>1 DEF Enabled, Readable
    <3>3. CASE e = << >>
      BY <2>1, <3>2, <3>3 DEF OwnCopy
    <3>4. CASE e # << >>
      <4>1. Len(e) # 0
        BY <2>2, <3>4
      <4>2. Len(cache) - Len(e) = limit[r]
        BY <1>2, <2>2, <3>1, <4>1
      <4>3. IsInjective(e) /\ Range(e) \subseteq Range(cache) \ {file[r]}
        BY <2>2, <3>1 DEF Newest, Enabled
      <4>4. /\ Len(cache)' - Len(evicting'[r]) = limit'[r]
            /\ Range(evicting'[r]) \subseteq Range(cache)' \ {file'[r]}
        BY <1>1, <2>4, <4>2, <4>3
      <4> QED
        BY <2>1, <2>4, <3>2, <3>4, <4>3, <4>4 DEF OwnCopy
    <3> QED
      BY <3>3, <3>4
  <2>6. where = "evict" <=> evicting'[r] # << >>
    BY <2>4
  <2>7. where \in Active \cup Ended
    BY DEF Active, Acquiring
  <2> HIDE DEF where
  <2> QED
    BY <1>1, <1>3, <2>1, <2>3, <2>4, <2>5, <2>6, <2>7, RunStep
<1> QED
  BY <1>4, <1>5

\* What is left to evict after the first file.
LEMMA RestToEvict ==
  ASSUME NEW s \in Seq(File), s # << >>
  PROVE  /\ Head(s) \in Range(s)
         /\ Tail(s) \in Seq(File)
         /\ Len(Tail(s)) = Len(s) - 1
         /\ Range(Tail(s)) \subseteq Range(s)
         /\ IsInjective(s) => IsInjective(Tail(s)) /\ Head(s) \notin Range(Tail(s))
<1>1. /\ Len(s) \in Nat \ {0}
      /\ Head(s) = s[1]
      /\ Tail(s) \in Seq(File)
      /\ Len(Tail(s)) = Len(s) - 1
      /\ \A i \in 1..(Len(s) - 1) : Tail(s)[i] = s[i + 1]
  OBVIOUS
<1> DEFINE t == Tail(s)
<1> HIDE DEF t
<1>2. \A i \in 1..Len(t) : i + 1 \in 1..Len(s) /\ t[i] = s[i + 1]
  BY <1>1 DEF t
<1>3. 1 \in 1..Len(s) /\ t \in Seq(File)
  BY <1>1 DEF t
<1>4. Range(t) \subseteq Range(s)
  BY <1>2, <1>3 DEF Range
<1>5. ASSUME IsInjective(s) PROVE IsInjective(t) /\ s[1] \notin Range(t)
  <2>1. \A i, j \in 1..Len(s) : s[i] = s[j] => i = j
    BY <1>5 DEF IsInjective
  <2>2. \A i, j \in 1..Len(t) : t[i] = t[j] => i = j
    <3> SUFFICES ASSUME NEW i \in 1..Len(t), NEW j \in 1..Len(t), t[i] = t[j]
                 PROVE  i = j
      OBVIOUS
    <3>1. i + 1 = j + 1
      BY <1>2, <2>1
    <3> QED
      BY <3>1
  <2>3. ASSUME NEW i \in 1..Len(t), t[i] = s[1] PROVE FALSE
    <3>1. i + 1 = 1
      BY <1>2, <1>3, <2>1, <2>3
    <3> QED
      BY <3>1
  <2> QED
    BY <1>3, <2>2, <2>3 DEF IsInjective, Range
<1>6. Head(s) \in Range(s)
  BY <1>1, <1>3 DEF Range
<1> QED
  BY <1>1, <1>4, <1>5, <1>6 DEF t

\* A run on its own finds the next file, which is not its own, and has one file
\* less to evict in a directory with one file less.
LEMMA EvictCache ==
  ASSUME Typed, CInv, NEW r \in Run, Evict(r)
  PROVE  CInv'
<1> USE DEF CInv
<1> DEFINE f == Head(evicting[r])
           rest == Tail(evicting[r])
<1>1. /\ UNCHANGED <<file, limit, listed, alone, faults>>
      /\ pc[r] = "evict"
      /\ pc[r] \in Active
  BY DEF Evict, Active, Acquiring
<1>2. cache \in Seq(File) /\ IsInjective(cache) /\ complete \subseteq Range(cache)
  BY DEF CacheTyped
<1>3. CASE f \notin Range(cache)
  <2>1. /\ pc' = [pc EXCEPT ![r] = "failed"]
        /\ pc'[r] = "failed"
        /\ evicting' = [evicting EXCEPT ![r] = << >>]
        /\ UNCHANGED <<cache, complete>>
    BY <1>3 DEF Evict, Goto, Typed, dir
  <2>2. CacheTyped'
    BY <1>1, <2>1 DEF CacheTyped
  <2>3. /\ evicting'[r] = << >>
        /\ \A q \in Run : q # r => evicting'[q] = evicting[q]
    BY <2>1 DEF CacheTyped
  <2>4. OwnCopy(r)'
    BY <2>1 DEF OwnCopy
  <2>5. "failed" \in Active \cup Ended
    BY DEF Ended
  <2> QED
    BY <1>1, <2>1, <2>2, <2>3, <2>4, <2>5, RunStep
<1>4. CASE f \in Range(cache) /\ evicting[r] # << >>
  <2> DEFINE where == IF Len(evicting[r]) = 1 THEN "acquired" ELSE "evict"
  <2>1. /\ pc' = [pc EXCEPT ![r] = where]
        /\ pc'[r] = where
        /\ evicting' = [evicting EXCEPT ![r] = rest]
        /\ cache' = RemoveFirst(cache, f)
        /\ complete' = complete \ {f}
    BY <1>4 DEF Evict, Goto, Typed
  <2>2. /\ cache' \in Seq(File)
        /\ IsInjective(cache')
        /\ Range(cache') = Range(cache) \ {f}
        /\ Len(cache') = Len(cache) - 1
    BY <1>2, <1>4, <2>1, Removal
  <2>3. evicting[r] \in Seq(File)
    BY DEF CacheTyped
  <2>4. /\ rest \in Seq(File)
        /\ f \in Range(evicting[r])
        /\ Len(rest) = Len(evicting[r]) - 1
        /\ Range(rest) \subseteq Range(evicting[r])
        /\ IsInjective(evicting[r]) => IsInjective(rest) /\ f \notin Range(rest)
    BY <1>4, <2>3, RestToEvict
  <2>5. Len(evicting[r]) \in Nat /\ Len(cache) \in Nat
    BY <1>2, <2>3
  <2> HIDE DEF f, rest
  <2>6. CacheTyped'
    BY <1>1, <1>2, <2>1, <2>2, <2>4 DEF CacheTyped
  <2>7. /\ evicting'[r] = rest
        /\ \A q \in Run : q # r => evicting'[q] = evicting[q]
    BY <2>1 DEF CacheTyped
  <2>8. where = "evict" <=> rest # << >>
    <3>1. \A s \in Seq(File) : s # << >> <=> Len(s) # 0
      OBVIOUS
    <3>2. rest # << >> <=> Len(rest) # 0
      BY <2>4, <3>1
    <3> QED
      BY <2>4, <2>5, <3>2
  <2>9. ASSUME r \in alone PROVE OwnCopy(r)'
    <3>1. /\ Enabled(r) /\ Readable(r)
          /\ IsInjective(evicting[r])
          /\ Range(evicting[r]) \subseteq Range(cache) \ {file[r]}
          /\ Len(cache) - Len(evicting[r]) = limit[r]
      BY <1>1, <2>9 DEF OwnCopy
    <3>2. f # file[r]
      BY <2>4, <3>1
    <3>3. Enabled(r)' /\ Readable(r)'
      BY <1>1, <2>1, <3>1, <3>2 DEF Enabled, Readable
    <3>4. IsInjective(rest) /\ Range(rest) \subseteq Range(cache') \ {file'[r]}
      BY <1>1, <2>2, <2>4, <3>1
    <3>5. Len(cache') - Len(rest) = limit'[r]
      <4>1. Len(cache') - Len(rest) = Len(cache) - Len(evicting[r])
        BY <2>2, <2>4, <2>5
      <4> QED
        BY <1>1, <3>1, <4>1
    <3> QED
      BY <2>1, <2>7, <2>8, <3>3, <3>4, <3>5 DEF OwnCopy
  <2>10. where \in Active \cup Ended
    BY DEF Active, Acquiring
  <2> HIDE DEF where
  <2> QED
    BY <1>1, <2>1, <2>6, <2>7, <2>8, <2>9, <2>10, RunStep
<1>5. evicting[r] # << >>
  BY <1>1 DEF LeftToEvict
<1> QED
  BY <1>3, <1>4, <1>5

\* The cache of the runs is in order, whatever they do and wherever they fail: the
\* new inductive invariant, from the one of the partitions.
THEOREM InductiveCache == Spec => []CInv
<1>1. Init => CInv
  <2> SUFFICES ASSUME Init PROVE CInv
    OBVIOUS
  <2>1. CacheTyped
    BY BronzeIngestAssumption DEF Init, CacheTyped, IsInjective, Range
  <2>2. Sole /\ LeftToEvict /\ \A r \in alone : OwnCopy(r)
    BY DEF Init, Sole, LeftToEvict
  <2> QED
    BY <2>1, <2>2 DEF CInv
<1>2. IInv /\ CInv /\ [Next]_vars => CInv'
  <2> SUFFICES ASSUME Typed, CInv, [Next]_vars PROVE CInv'
    BY DEF IInv
  <2>1. CASE UNCHANGED vars
    BY <2>1 DEF CInv, CacheTyped, Sole, LeftToEvict, OwnCopy, Newest, Enabled, Readable,
                vars, dir, locals
  <2>2. CASE Next
    <3>1. PICK r \in Run : \/ Refuse(r)
                           \/ \E f \in File, n \in Limits : Start(r, f, n)
                           \/ Proceed(r)
                           \/ Fail(r)
                           \/ FailBetweenDeleteAndRename(r)
      BY <2>2 DEF Next
    <3>2. Proceed(r) => CInv'
      BY OtherSteps, OpenCache, DownloadedCache, ListCache, SortCache, EvictCache
         DEF Proceed
    <3> QED
      BY <3>1, <3>2, RefuseCache, StartCache, FailCache, OtherSteps
  <2> QED
    BY <2>1, <2>2
<1> QED
  BY <1>1, <1>2, Inductive, PTL DEF Spec

\* The variables have their types: in particular the cache never holds a file
\* twice, and complete files are in it.
THEOREM TypeCorrect == Spec => []TypeOK
<1>1. IInv /\ CInv => TypeOK
  BY DEF IInv, Typed, CInv, CacheTyped, TypeOK
<1> QED
  BY <1>1, Inductive, InductiveCache, PTL

\* A run that nobody has overlapped never evicts the file it has downloaded, nor
\* reads an old copy when the cache is disabled, for any files and any limits.
THEOREM OwnFileKept == Spec => []OwnFileSurvives
<1>1. CInv => OwnFileSurvives
  <2> SUFFICES ASSUME CInv, NEW r \in alone,
                      \/ pc[r] \in {"list", "sort", "evict"}
                      \/ pc[r] = "acquired" /\ ~Enabled(r)
               PROVE  Readable(r) /\ file[r] \notin Range(evicting[r])
    BY DEF OwnFileSurvives
  <2>1. OwnCopy(r) /\ r \in Run
    BY DEF CInv, CacheTyped
  <2>2. Readable(r)
    BY <2>1 DEF OwnCopy
  <2>3. CASE pc[r] = "evict"
    BY <2>1, <2>2, <2>3 DEF OwnCopy
  <2>4. CASE pc[r] # "evict"
    <3>1. evicting[r] = << >>
      BY <2>1, <2>4 DEF CInv, LeftToEvict
    <3> QED
      BY <2>2, <3>1 DEF Range
  <2> QED
    BY <2>3, <2>4
<1> QED
  BY <1>1, InductiveCache, PTL

\* A run that nobody has overlapped leaves at most its limit of files when it has
\* evicted, however many files earlier runs have left.
THEOREM Trimmed == Spec => CacheTrimmed
<1> DEFINE A == \A r \in alone : pc[r] \in {"sort", "evict"} /\ pc'[r] = "acquired" =>
                  Len(cache') <= limit[r]
<1>1. IInv /\ CInv /\ [Next]_vars => [A]_vars
  <2> SUFFICES ASSUME Typed, CInv, Next, NEW r \in alone,
                      pc[r] \in {"sort", "evict"}, pc'[r] = "acquired"
               PROVE  Len(cache') <= limit[r]
    BY DEF IInv
  <2>1. r \in Run /\ OwnCopy(r) /\ cache \in Seq(File) /\ IsInjective(cache)
    BY DEF CInv, CacheTyped
  <2>2. limit[r] \in Nat /\ evicting[r] \in Seq(File)
    BY <2>1, BronzeIngestAssumption DEF CInv, CacheTyped
  <2>3. PICK q \in Run : \/ Refuse(q)
                         \/ \E f \in File, n \in Limits : Start(q, f, n)
                         \/ Proceed(q)
                         \/ Fail(q)
                         \/ FailBetweenDeleteAndRename(q)
    BY DEF Next
  <2>4. Sort(r) \/ Evict(r)
    <3>1. PICK where : pc' = [pc EXCEPT ![q] = where]
      BY <2>3 DEF Refuse, Start, Proceed, Fail, FailBetweenDeleteAndRename, Goto, Hit, Open,
                  Downloaded, List, Sort, Evict, Acquired, Read, Write, Replace, Count
    <3>2. q = r
      BY <2>1, <3>1 DEF Typed
    <3>3. ~ Refuse(r) /\ \A f \in File, n \in Limits : ~ Start(r, f, n)
      BY <2>1 DEF Refuse, Start, Ended
    <3>4. ~ Fail(r) /\ ~ FailBetweenDeleteAndRename(r)
      BY <2>1 DEF Fail, FailBetweenDeleteAndRename, Goto, Typed
    <3>5. Proceed(r)
      BY <2>3, <3>2, <3>3, <3>4
    <3> QED
      BY <3>5 DEF Proceed, Hit, Open, Downloaded, List, Acquired, Read, Write, Replace, Count
  <2>5. CASE Sort(r)
    <3> DEFINE e == Surplus(Sorted(listed[r]), limit[r])
    <3>1. pc[r] = "sort" /\ cache' = cache
      BY <2>5 DEF Sort, dir
    <3>2. listed[r] = Range(cache)
      BY <2>1, <3>1 DEF OwnCopy
    <3>3. e = << >>
      BY <2>1, <2>5, <3>2 DEF Sort, Goto, Typed
    <3>4. Len(e) = IF Len(cache) > limit[r] THEN Len(cache) - limit[r] ELSE 0
      BY <2>1, <2>2, <3>2, SurplusFiles
    <3> HIDE DEF e
    <3>5. Len(e) = 0 /\ Len(cache) \in Nat
      BY <2>1, <3>3
    <3> QED
      BY <2>2, <3>1, <3>4, <3>5
  <2>6. CASE Evict(r)
    <3>1. pc[r] = "evict"
      BY <2>6 DEF Evict
    <3>2. /\ Head(evicting[r]) \in Range(cache)
          /\ cache' = RemoveFirst(cache, Head(evicting[r]))
          /\ Goto(r, IF Len(evicting[r]) = 1 THEN "acquired" ELSE "evict")
      <4>1. ~ Goto(r, "failed")
        BY <2>1 DEF Goto, Typed
      <4> QED
        BY <2>6, <4>1 DEF Evict
    <3>3. Len(evicting[r]) = 1
      BY <2>1, <3>2 DEF Goto, Typed
    <3>4. Len(cache) - Len(evicting[r]) = limit[r]
      BY <2>1, <3>1 DEF OwnCopy
    <3>5. Len(cache') = Len(cache) - 1
      BY <2>1, <3>2, Removal
    <3> QED
      BY <2>1, <2>2, <3>3, <3>4, <3>5
  <2> QED
    BY <2>4, <2>5, <2>6
<1> QED
  BY <1>1, Inductive, InductiveCache, PTL DEF Spec, CacheTrimmed

=============================================================================

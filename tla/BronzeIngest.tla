----------------------------- MODULE BronzeIngest -----------------------------
(***************************************************************************)
(* Bronze ingestion (nyc_cab/ingestion): runs of ingest_bronze_month over  *)
(* one cache directory and one Bronze table.  A run finds its source file  *)
(* in the cache or downloads it there, evicts old files, reads the file,   *)
(* checks its columns against the contract, and overwrites the partition   *)
(* of its month.                                                           *)
(*                                                                         *)
(* The cache is the directory listing in order of modification time, and   *)
(* the set of those files that hold all of their bytes.  Spark commits a   *)
(* dynamic partition overwrite by deleting the old partition directory and *)
(* renaming the staged one.  A partition is the sequence of the outputs it *)
(* holds, each the columns that were written; the rows do not matter.      *)
(*                                                                         *)
(* At most one run per file is in progress, but runs for several files     *)
(* overlap, each with the cache limit of its own configuration.  A process *)
(* that dies is a run that fails.                                          *)
(***************************************************************************)
EXTENDS BronzeSchema, SequencesExt

CONSTANTS
  File,       \* the source files, one per month
  Columns,    \* the columns of each file
  Run,        \* the invokers of ingest_bronze_month
  Limits,     \* the values of source_cache_max_files in use; 0 disables reuse
  MaxFaults   \* bound on the failures of runs from outside

ASSUME BronzeIngestAssumption ==
  /\ Columns \in [File -> Seq(Column)]
  /\ Limits \subseteq Nat
  /\ MaxFaults \in Nat

VARIABLES
  cache,     \* the files in the cache directory, oldest modification first
  complete,  \* the files in the directory that were downloaded to the end
  bronze,    \* the outputs in the Bronze partition of each file
  pc,        \* where the run is
  file,      \* the file the run ingests
  limit,     \* the run's source_cache_max_files
  listed,    \* the names evict_files has listed
  evicting,  \* the files evict_files is still to unlink
  alone,     \* history: the runs no other run has overlapped
  before,    \* history: the run's partition when the run began
  faults     \* failures from outside so far

dir == <<cache, complete>>
locals == <<file, limit, listed, evicting, alone, before>>
vars == <<dir, bronze, pc, locals, faults>>

Acquiring == {"lookup", "download", "list", "sort", "evict", "acquired"}
Writing   == {"read", "write", "replace", "count"}
Active    == Acquiring \cup Writing
Ended     == {"done", "failed", "lost"}

TypeOK ==
  /\ cache \in Seq(File)
  /\ IsInjective(cache)
  /\ complete \subseteq Range(cache)
  /\ bronze \in [File -> Seq(Seq(Column))]
  /\ pc \in [Run -> {"idle"} \cup Active \cup Ended]
  /\ file \in [Run -> File]
  /\ limit \in [Run -> Limits]
  /\ listed \in [Run -> SUBSET File]
  /\ evicting \in [Run -> Seq(File)]
  /\ alone \subseteq Run
  /\ before \in [Run -> Seq(Seq(Column))]
  /\ faults \in 0..MaxFaults

Init ==
  /\ cache = << >>
  /\ complete = {}
  /\ bronze = [f \in File |-> << >>]
  /\ pc = [r \in Run |-> "idle"]
  /\ file \in [Run -> File]
  /\ limit \in [Run -> Limits]
  /\ listed = [r \in Run |-> {}]
  /\ evicting = [r \in Run |-> << >>]
  /\ alone = {}
  /\ before = [r \in Run |-> << >>]
  /\ faults = 0

Goto(r, where) == pc' = [pc EXCEPT ![r] = where]

InProgress == {r \in Run : pc[r] \in Active}

Enabled(r) == limit[r] > 0

Cached(r) == file[r] \in Range(cache)

\* Spark can read the run's file: its footer is at the end of the file.
Readable(r) == file[r] \in complete

-----------------------------------------------------------------------------
(* Acquiring the source file.                                              *)

\* The request is for a slice the Bronze contract does not support.
Refuse(r) ==
  /\ pc[r] \in {"idle"} \cup Ended
  /\ Goto(r, "failed")
  /\ UNCHANGED <<dir, bronze, locals, faults>>

Start(r, f, n) ==
  /\ pc[r] \in {"idle"} \cup Ended
  /\ \A q \in InProgress : file[q] # f
  /\ Goto(r, "lookup")
  /\ file' = [file EXCEPT ![r] = f]
  /\ limit' = [limit EXCEPT ![r] = n]
  /\ alone' = IF InProgress = {} THEN alone \cup {r}
              ELSE alone \ (InProgress \cup {r})
  /\ before' = [before EXCEPT ![r] = bronze[f]]
  /\ UNCHANGED <<dir, bronze, listed, evicting, faults>>

\* A file of that name counts as a cached copy when the cache is enabled.
Hit(r) ==
  /\ pc[r] = "lookup"
  /\ Enabled(r)
  /\ Cached(r)
  /\ Goto(r, "acquired")
  /\ UNCHANGED <<dir, bronze, locals, faults>>

\* The modification time of f is now.
Touched(f) == Append(RemoveFirst(cache, f), f)

\* The server has answered, and open(path, "wb") creates or truncates the file.
Open(r) ==
  /\ pc[r] = "lookup"
  /\ ~(Enabled(r) /\ Cached(r))
  /\ cache' = Touched(file[r])
  /\ complete' = complete \ {file[r]}
  /\ Goto(r, "download")
  /\ UNCHANGED <<bronze, locals, faults>>

\* The last chunk is written.  If the file was unlinked meanwhile, the bytes
\* have no name any more.
Downloaded(r) ==
  /\ pc[r] = "download"
  /\ IF Cached(r)
     THEN /\ cache' = Touched(file[r])
          /\ complete' = complete \cup {file[r]}
     ELSE UNCHANGED dir
  /\ Goto(r, IF Enabled(r) THEN "list" ELSE "acquired")
  /\ UNCHANGED <<bronze, locals, faults>>

\* evict_files lists the directory.
List(r) ==
  /\ pc[r] = "list"
  /\ listed' = [listed EXCEPT ![r] = Range(cache)]
  /\ Goto(r, "sort")
  /\ UNCHANGED <<dir, bronze, file, limit, evicting, alone, before, faults>>

\* Each file of s was modified before the next one.
OldestFirst(s) ==
  \A i, j \in DOMAIN s : i < j =>
    \E k, l \in DOMAIN cache : k < l /\ cache[k] = s[i] /\ cache[l] = s[j]

\* The files of S, sorted by modification time.
Sorted(S) == CHOOSE s \in SetToSeqs(S) : OldestFirst(s)

\* Fault: the newest files go first.
NewestFirst(s, n) == SubSeq(Reverse(s), 1, Len(s) - n)

\* Fault: one file too many is kept.
OldestBeyondOneMore(s, n) == SubSeq(s, 1, Len(s) - n - 1)

\* The files to evict from s, oldest first, for n to be left.
Surplus(s, n) == SubSeq(s, 1, Len(s) - n)

\* The listed files are sorted by modification time; stat raises when one of
\* them has gone since.
Sort(r) ==
  LET surplus == Surplus(Sorted(listed[r]), limit[r]) IN
  /\ pc[r] = "sort"
  /\ listed' = [listed EXCEPT ![r] = {}]
  /\ IF listed[r] \subseteq Range(cache)
     THEN /\ evicting' = [evicting EXCEPT ![r] = surplus]
          /\ Goto(r, IF surplus = << >> THEN "acquired" ELSE "evict")
     ELSE /\ Goto(r, "failed")
          /\ UNCHANGED evicting
  /\ UNCHANGED <<dir, bronze, file, limit, alone, before, faults>>

\* The next file is unlinked; unlink raises when it has gone.
Evict(r) ==
  LET f == Head(evicting[r]) IN
  /\ pc[r] = "evict"
  /\ IF f \in Range(cache)
     THEN /\ cache' = RemoveFirst(cache, f)
          /\ complete' = complete \ {f}
          /\ evicting' = [evicting EXCEPT ![r] = Tail(@)]
          /\ Goto(r, IF Len(evicting[r]) = 1 THEN "acquired" ELSE "evict")
     ELSE /\ evicting' = [evicting EXCEPT ![r] = << >>]
          /\ Goto(r, "failed")
          /\ UNCHANGED dir
  /\ UNCHANGED <<bronze, file, limit, listed, alone, before, faults>>

\* AcquiredSourceFile checks that the file exists.
Acquired(r) ==
  /\ pc[r] = "acquired"
  /\ Goto(r, IF Cached(r) THEN "read" ELSE "failed")
  /\ UNCHANGED <<dir, bronze, locals, faults>>

-----------------------------------------------------------------------------
(* Reading, validating and writing.                                        *)

\* The schema is read from the file's footer and compared with the contract.
Read(r) ==
  /\ pc[r] = "read"
  /\ Goto(r, IF Readable(r) /\ SchemaValid(Columns[file[r]]) THEN "write"
             ELSE "failed")
  /\ UNCHANGED <<dir, bronze, locals, faults>>

\* Fault: without dynamic overwrite the old output is cleared before the job.
ClearedByJob(f) == bronze' = [bronze EXCEPT ![f] = << >>]

\* The job writes to a staging directory; the table stays as it is.
Staged(f) == UNCHANGED bronze

\* The write job reads the file again.
Write(r) ==
  /\ pc[r] = "write"
  /\ Staged(file[r])
  /\ Goto(r, IF Readable(r) THEN "replace" ELSE "failed")
  /\ UNCHANGED <<dir, locals, faults>>

\* Fault: mode("append").
KeepOldOutput(f) == bronze

\* Fault: static overwrite, which clears the whole table.
WithoutAnyOutput(f) == [g \in File |-> << >>]

\* Dynamic partition overwrite, first half: the old partition is deleted.
WithoutOutput(f) == [bronze EXCEPT ![f] = << >>]

\* The output the job has staged.
Output(f) == Canonicalized(Columns[f])

\* Both halves: the staged directory is renamed to the partition's.
Replace(r) ==
  /\ pc[r] = "replace"
  /\ bronze' = [WithoutOutput(file[r]) EXCEPT ![file[r]] = Append(@, Output(file[r]))]
  /\ Goto(r, "count")
  /\ UNCHANGED <<dir, locals, faults>>

\* df.count() reads the file a third time; then the result is returned.
Count(r) ==
  /\ pc[r] = "count"
  /\ Goto(r, IF Readable(r) THEN "done" ELSE "failed")
  /\ UNCHANGED <<dir, bronze, locals, faults>>

-----------------------------------------------------------------------------
(* Failures from outside the run.                                          *)

\* The server, the network, the disk or Spark fails, or the process dies.  A
\* download that is cut off leaves what it has written.
Fail(r) ==
  /\ pc[r] \in Active
  /\ faults < MaxFaults
  /\ faults' = faults + 1
  /\ Goto(r, "failed")
  /\ listed' = [listed EXCEPT ![r] = {}]
  /\ evicting' = [evicting EXCEPT ![r] = << >>]
  /\ UNCHANGED <<dir, bronze, file, limit, alone, before>>

\* The process dies between the two halves of the overwrite.
FailBetweenDeleteAndRename(r) ==
  /\ pc[r] = "replace"
  /\ faults < MaxFaults
  /\ faults' = faults + 1
  /\ bronze' = WithoutOutput(file[r])
  /\ Goto(r, "lost")
  /\ UNCHANGED <<dir, locals>>

Proceed(r) ==
  \/ Hit(r)
  \/ Open(r)
  \/ Downloaded(r)
  \/ List(r)
  \/ Sort(r)
  \/ Evict(r)
  \/ Acquired(r)
  \/ Read(r)
  \/ Write(r)
  \/ Replace(r)
  \/ Count(r)

Next ==
  \E r \in Run :
    \/ Refuse(r)
    \/ \E f \in File, n \in Limits : Start(r, f, n)
    \/ Proceed(r)
    \/ Fail(r)
    \/ FailBetweenDeleteAndRename(r)

Spec == Init /\ [][Next]_vars

\* Runs keep going, and each file is ingested again and again, with every
\* limit in use.  Failures stop at MaxFaults.
FairSpec ==
  /\ Spec
  /\ \A r \in Run : WF_vars(Proceed(r))
  /\ \A r \in Run, f \in File, n \in Limits : SF_vars(Start(r, f, n))

-----------------------------------------------------------------------------
(* What ingestion promises.                                                *)

\* A month has one output in Bronze, or none: re-execution replaces and never
\* adds (module docstring, "under dynamic partition overwrite semantics").
NeverDoubled == \A f \in File : Len(bronze[f]) <= 1

\* Whatever the file calls its columns, Bronze holds the columns of the contract
\* under their canonical names, and never those of a file with a column too
\* many, missing, doubled or of another type.
BronzeIsCanonical ==
  \A f \in File : \A i \in DOMAIN bronze[f] : MatchesContract(bronze[f][i])

\* "Either the partition is written cleanly or the previous state is preserved":
\* until the overwrite the partition is what it was when the run began, and
\* after it the run's output, wherever the run fails, except for a process that
\* dies between the two halves of Spark's commit.
AllOrNothing ==
  [][\A r \in Run : pc[r] \in Active /\ pc'[r] \notin {"idle", "lost"} =>
       bronze'[file[r]] \in {before[r], <<Output(file[r])>>}]_vars

\* A run overwrites the partition of its own month only ("Do not remove
\* either", the comment at the write).
OtherMonthsUntouched ==
  [][\A f \in File : bronze'[f] # bronze[f] =>
       \E r \in Run : pc[r] = "replace" /\ file[r] = f]_bronze

\* Eviction never takes the file its own run has just downloaded, and a disabled
\* cache never serves an old copy: a run that no other run overlaps has a
\* complete file when it has downloaded one, whatever earlier runs left behind.
OwnFileSurvives ==
  \A r \in alone :
    \/ pc[r] \in {"list", "sort", "evict"}
    \/ pc[r] = "acquired" /\ ~Enabled(r)
    => Readable(r) /\ file[r] \notin Range(evicting[r])

\* "After a successful download, the cache is trimmed to the configured file
\* limit", also when runs that failed before have left more files than that: at
\* most limit files are left after a run that has evicted.
CacheTrimmed ==
  [][\A r \in alone : pc[r] \in {"sort", "evict"} /\ pc'[r] = "acquired" =>
       Len(cache') <= limit[r]]_vars

\* "Re-execution is always safe": a file with a valid schema that is ingested
\* again and again gets into Bronze, once failures from outside have stopped.
RerunSucceeds ==
  \A f \in File : SchemaValid(Columns[f]) => <>(bronze[f] # << >>)

=============================================================================

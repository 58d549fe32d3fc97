------------------------------ MODULE TableSetup ------------------------------
(***************************************************************************)
(* ensure_table (nyc_cab_events/sink/postgres.py) next to the upserts of   *)
(* PostgresSink: CREATE TABLE IF NOT EXISTS in a transaction of its own.   *)
(*                                                                         *)
(* Postgres checks for the table before it creates it, and its catalog     *)
(* lets one transaction at a time insert the name: another one that does   *)
(* not see the table yet waits for the first to end, and fails with a      *)
(* unique violation if that one commits.                                   *)
(*                                                                         *)
(* A process calls ensure_table before its first upsert, or never.         *)
(* Nothing drops the table.                                                *)
(***************************************************************************)
EXTENDS PostgresSink

VARIABLES
  present,  \* the table exists, as every new statement sees it
  creator,  \* the transaction that has created it and not committed yet
  ddl       \* where each process is in ensure_table, until it upserts

tableVars == <<present, creator, ddl>>

Ensuring == {"execute", "wait", "commit"}

TableTypeOK ==
  /\ present \in BOOLEAN
  /\ creator \in Client \cup {Free}
  /\ ddl \in [Client -> Ensuring \cup {"idle", "returned", "duplicate", "raised"}]

TableInit ==
  /\ Init
  /\ present \in BOOLEAN
  /\ creator = Free
  /\ ddl = [c \in Client |-> "idle"]

-----------------------------------------------------------------------------
EnsureTable(c) ==
  /\ pc[c] = "idle"
  /\ ddl[c] \notin Ensuring
  /\ ddl' = [ddl EXCEPT ![c] = "execute"]
  /\ UNCHANGED <<present, creator>>

\* The table is in the catalog, for this transaction only so far.
InsertName(c) ==
  /\ creator' = c
  /\ ddl' = [ddl EXCEPT ![c] = "commit"]
  /\ UNCHANGED present

\* Fault: CREATE TABLE without IF NOT EXISTS.
FailIfPresent(c) ==
  /\ ddl' = [ddl EXCEPT ![c] = "duplicate"]
  /\ UNCHANGED <<present, creator>>

\* IF NOT EXISTS: a table that is there is left as it is.
KeepTable(c) ==
  /\ ddl' = [ddl EXCEPT ![c] = "commit"]
  /\ UNCHANGED <<present, creator>>

CreateTable(c) ==
  /\ ddl[c] = "execute"
  /\ \/ present /\ KeepTable(c)
     \/ ~present /\ creator = Free /\ InsertName(c)
     \/ /\ ~present /\ creator # Free
        /\ ddl' = [ddl EXCEPT ![c] = "wait"]
        /\ UNCHANGED <<present, creator>>

\* The transaction it waited for has ended.
Resume(c) ==
  /\ ddl[c] = "wait"
  /\ creator = Free
  /\ \/ ~present /\ InsertName(c)
     \/ /\ present
        /\ ddl' = [ddl EXCEPT ![c] = "duplicate"]
        /\ UNCHANGED <<present, creator>>

Released(c) == IF creator = c THEN Free ELSE creator

\* Fault: the transaction of the DDL is never committed.
Uncommitted(c) == present

Committed(c) == present \/ creator = c

\* conn.commit(); its answer may be lost.
CommitTable(c, outcome) ==
  /\ ddl[c] = "commit"
  /\ present' = Committed(c)
  /\ creator' = Released(c)
  /\ ddl' = [ddl EXCEPT ![c] = outcome]

\* The connection fails or the process ends before the commit.
FailTable(c) ==
  /\ ddl[c] \in Ensuring
  /\ creator' = Released(c)
  /\ ddl' = [ddl EXCEPT ![c] = "raised"]
  /\ UNCHANGED present

TableStep(c) ==
  \/ EnsureTable(c)
  \/ CreateTable(c)
  \/ Resume(c)
  \/ CommitTable(c, "returned") \/ CommitTable(c, "raised")
  \/ FailTable(c)

-----------------------------------------------------------------------------
\* A statement of executemany finds no table: one of the failures of a call.
MissingTable(c) == ~present /\ Unsent(c) /\ Rollback(c)

BeginCall(c) ==
  /\ ddl[c] \notin Ensuring
  /\ \E s \in Slice, hours \in Orders, counts \in [Hour -> 0..MaxCount] :
       Call(c, s, hours, counts)
  /\ ddl' = [ddl EXCEPT ![c] = "idle"]
  /\ UNCHANGED <<present, creator>>

\* A step of an upsert, which needs the table.
SinkStep(c) ==
  \/ present /\ Execute(c)
  \/ MissingTable(c)
  \/ DeadlockDetected(c)
  \/ Commit(c, "returned") \/ Commit(c, "raised")
  \/ Fail(c)

TableNext ==
  \E c \in Client :
    \/ TableStep(c) /\ UNCHANGED vars
    \/ BeginCall(c)
    \/ SinkStep(c) /\ UNCHANGED tableVars

TableSpec == TableInit /\ [][TableNext]_<<vars, tableVars>>

\* As in PostgresSink, and ensure_table's transactions are executed.
TableFairness ==
  \A c \in Client :
    /\ SF_vars(present /\ Execute(c) /\ UNCHANGED tableVars)
    /\ WF_vars(MissingTable(c) /\ UNCHANGED tableVars)
    /\ WF_vars(DeadlockDetected(c) /\ UNCHANGED tableVars)
    /\ WF_vars(Commit(c, "returned") /\ UNCHANGED tableVars)
    /\ WF_tableVars(CreateTable(c) /\ UNCHANGED vars)
    /\ SF_tableVars(Resume(c) /\ UNCHANGED vars)
    /\ WF_tableVars(CommitTable(c, "returned") /\ UNCHANGED vars)

TableFairSpec == TableSpec /\ TableFairness

-----------------------------------------------------------------------------
\* When ensure_table has returned the table is there, and also when it has lost
\* the race to create it and raised: the next call finds it ("repeated calls
\* converge to the same schema state").
EnsuredMeansTable ==
  \A c \in Client : ddl[c] \in {"returned", "duplicate"} => present

\* Every call of ensure_table ends, whichever calls run at the same time, and one
\* that finds the table never raises because of it ("Idempotent").
EnsureConverges ==
  \A c \in Client :
    /\ ddl[c] = "execute" ~> ddl[c] \in {"returned", "duplicate", "raised"}
    /\ ddl[c] = "execute" /\ present ~> ddl[c] \in {"returned", "raised"}

=============================================================================

----------------------------- MODULE PostgresSink -----------------------------
(***************************************************************************)
(* The Postgres sink (nyc_cab_events/sink/postgres.py): concurrent calls   *)
(* of upsert_hourly_counts, each one transaction of one INSERT ... ON      *)
(* CONFLICT DO UPDATE per bucket, in the order of the buckets.             *)
(*                                                                         *)
(* A statement locks its row until the transaction ends and waits for a    *)
(* transaction that holds it.  Two calls may hold rows the other one wants *)
(* (the buckets come in the order events were first read, which nothing    *)
(* fixes); Postgres then cancels one of them.  TripConsumer takes a call   *)
(* for one step, CommitBuckets; UpsertsAreAtomic makes that right.         *)
(***************************************************************************)
EXTENDS Integers, Sequences, FiniteSets, Functions, Relation

CONSTANTS
  Client,    \* the processes that call the sink, one connection per call
  Slice,     \* the (cab_type, year, month) triples
  Hour,      \* the hours of the day
  MaxCount,  \* bound on the count of one bucket
  Free       \* the owner of a row no transaction has locked

ASSUME PostgresSinkAssumption ==
  /\ IsFiniteSet(Hour)
  /\ MaxCount \in Nat
  /\ Free \notin Client

VARIABLES
  table,    \* the committed event counts; 0 for a row that is not there
  owner,    \* the transaction that has locked a row
  pending,  \* the count its owner has written into a locked row
  pc,       \* where the call is
  slice,    \* the slice of the call's buckets
  order,    \* the hours of its buckets, in order
  count,    \* the event count of each of its buckets
  sent      \* the statements executed so far

request == <<slice, order, count>>
vars == <<table, owner, pending, pc, request, sent>>

\* The hours of a bucket list: each at most once, for they are dict keys.
Orders == UNION {Injection(1..n, Hour) : n \in 0..Cardinality(Hour)}

TypeOK ==
  /\ table \in [Slice -> [Hour -> Nat]]
  /\ owner \in [Slice -> [Hour -> Client \cup {Free}]]
  /\ pending \in [Slice -> [Hour -> Nat]]
  /\ pc \in [Client -> {"idle", "execute", "returned", "raised"}]
  /\ slice \in [Client -> Slice]
  /\ order \in [Client -> Seq(Hour)]
  /\ count \in [Client -> [Hour -> Nat]]
  /\ sent \in [Client -> Nat]
  /\ \A c \in Client : sent[c] <= Len(order[c])

Init ==
  /\ table = [s \in Slice |-> [h \in Hour |-> 0]]
  /\ owner = [s \in Slice |-> [h \in Hour |-> Free]]
  /\ pending = [s \in Slice |-> [h \in Hour |-> 0]]
  /\ pc = [c \in Client |-> "idle"]
  /\ slice \in [Client -> Slice]
  /\ order = [c \in Client |-> << >>]
  /\ count = [c \in Client |-> [h \in Hour |-> 0]]
  /\ sent = [c \in Client |-> 0]

-----------------------------------------------------------------------------
\* A call without buckets is a no-op; any other one opens a connection.
Call(c, s, hours, counts) ==
  /\ pc[c] # "execute"
  /\ \A h \in Hour : counts[h] > 0 <=> h \in Range(hours)
  /\ slice' = [slice EXCEPT ![c] = s]
  /\ order' = [order EXCEPT ![c] = hours]
  /\ count' = [count EXCEPT ![c] = counts]
  /\ sent' = [sent EXCEPT ![c] = 0]
  /\ pc' = [pc EXCEPT ![c] = IF hours = << >> THEN "returned" ELSE "execute"]
  /\ UNCHANGED <<table, owner, pending>>

Unsent(c) == pc[c] = "execute" /\ sent[c] < Len(order[c])

NextHour(c) == order[c][sent[c] + 1]

\* Fault: the connection is in autocommit mode.
WriteThrough(c, h) ==
  /\ table' = [table EXCEPT ![slice[c]][h] = count[c][h]]
  /\ UNCHANGED <<owner, pending>>

\* Fault: ON CONFLICT DO NOTHING, so a row that is there keeps its count.
KeepExisting(c, h) ==
  /\ owner' = [owner EXCEPT ![slice[c]][h] = c]
  /\ pending' = [pending EXCEPT ![slice[c]][h] =
                   IF table[slice[c]][h] > 0 THEN table[slice[c]][h] ELSE count[c][h]]
  /\ UNCHANGED table

\* One row of executemany: written, visible to its own transaction only.
WriteRow(c, h) ==
  /\ owner' = [owner EXCEPT ![slice[c]][h] = c]
  /\ pending' = [pending EXCEPT ![slice[c]][h] = count[c][h]]
  /\ UNCHANGED table

Execute(c) ==
  /\ Unsent(c)
  /\ owner[slice[c]][NextHour(c)] = Free
  /\ WriteRow(c, NextHour(c))
  /\ sent' = [sent EXCEPT ![c] = @ + 1]
  /\ UNCHANGED <<pc, request>>

\* c waits for a row that d has locked.
WaitsFor(c, d) == Unsent(c) /\ owner[slice[c]][NextHour(c)] = d

Deadlocked(c) ==
  TransitiveClosure([x, y \in Client |-> WaitsFor(x, y)], Client)[c, c]

\* The rows the transaction of c has locked, taken by nobody.
Unlocked(c) ==
  [s \in Slice |-> [h \in Hour |-> IF owner[s][h] = c THEN Free ELSE owner[s][h]]]

\* Fault: an error leaves the connection open, in its failed transaction.
KeepConnection(c) == UNCHANGED owner

\* The with block closes the connection, and the transaction is rolled back.
CloseConnection(c) == owner' = Unlocked(c)

\* The uncommitted rows and the arguments of the call are gone.
Forget(c) ==
  /\ pending' = [s \in Slice |-> [h \in Hour |->
                   IF owner[s][h] = c THEN 0 ELSE pending[s][h]]]
  /\ order' = [order EXCEPT ![c] = << >>]
  /\ count' = [count EXCEPT ![c] = [h \in Hour |-> 0]]
  /\ sent' = [sent EXCEPT ![c] = 0]
  /\ UNCHANGED slice

Rollback(c) ==
  /\ pc' = [pc EXCEPT ![c] = "raised"]
  /\ CloseConnection(c)
  /\ Forget(c)
  /\ UNCHANGED table

\* Postgres cancels a transaction of every cycle.
DeadlockDetected(c) ==
  /\ Deadlocked(c)
  /\ Rollback(c)

\* No connection, no table, a violated CHECK, a lost connection, the end of
\* the process: before the commit each of them rolls back.
Fail(c) ==
  /\ pc[c] = "execute"
  /\ Rollback(c)

\* conn.commit() succeeds on the server.  The call returns, or raises because
\* the answer was lost.
Commit(c, outcome) ==
  /\ pc[c] = "execute"
  /\ sent[c] = Len(order[c])
  /\ table' = [s \in Slice |-> [h \in Hour |->
                 IF owner[s][h] = c THEN pending[s][h] ELSE table[s][h]]]
  /\ owner' = Unlocked(c)
  /\ pc' = [pc EXCEPT ![c] = outcome]
  /\ Forget(c)

Next ==
  \E c \in Client :
    \/ \E s \in Slice, hours \in Orders, counts \in [Hour -> 0..MaxCount] :
         Call(c, s, hours, counts)
    \/ Execute(c)
    \/ DeadlockDetected(c)
    \/ Commit(c, "returned") \/ Commit(c, "raised")
    \/ Fail(c)

Spec == Init /\ [][Next]_vars

\* Postgres queues the transactions that wait for a row, so each gets its turn;
\* its deadlock detector runs; a commit that was sent is executed.
Fairness ==
  \A c \in Client : /\ SF_vars(Execute(c))
                   /\ WF_vars(DeadlockDetected(c))
                   /\ WF_vars(Commit(c, "returned"))

FairSpec == Spec /\ Fairness

-----------------------------------------------------------------------------
\* A locked row belongs to a call in progress that has executed the statement
\* for it, and nothing else is locked: no call that has ended, whichever way,
\* still holds a row that others need.
LocksHeld ==
  \A s \in Slice, h \in Hour, c \in Client :
    owner[s][h] = c <=> /\ pc[c] = "execute"
                        /\ slice[c] = s
                        /\ \E i \in 1..sent[c] : order[c][i] = h

\* The hours of the call of c.
Buckets(c) == {order[c][i] : i \in 1..Len(order[c])}

Atomic == INSTANCE AtomicUpsert WITH
  requests <- {[client |-> c, slice |-> slice[c], count |-> count[c]] :
                 c \in {d \in Client : pc[d] = "execute"}}

\* However calls interleave, wait for each other, fail or are cancelled, each of
\* them takes effect in one step, whole, or not at all.  This is what lets the
\* consumer promise "read the complete slice or write nothing".
UpsertsAreAtomic == Atomic!Spec

\* A call that returns has found its buckets' counts in the table, all of them
\* at once, when it committed.
ReturnedMeansCommitted ==
  [][\A c \in Client : pc[c] = "execute" /\ pc'[c] = "returned" =>
       \A h \in Buckets(c) : table'[slice[c]][h] = count[c][h]]_vars

\* Every call returns or raises, also when calls lock the same rows in
\* opposite orders.
CallEnds == \A c \in Client : pc[c] = "execute" ~> pc[c] \in {"returned", "raised"}

=============================================================================

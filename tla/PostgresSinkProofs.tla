-------------------------- MODULE PostgresSinkProofs --------------------------
(***************************************************************************)
(* Theorems about any number of concurrent calls of the sink.  The         *)
(* invariant ties every lock, and the uncommitted count under it, to the   *)
(* statements its transaction has executed.                                *)
(***************************************************************************)
EXTENDS TableSetup, WellFoundedInduction, TLAPS

\* The uncommitted version of a locked row is the count of its call's bucket.
PendingHeld ==
  \A s \in Slice, h \in Hour, c \in Client :
    owner[s][h] = c => pending[s][h] = count[c][h]

IInv == TypeOK /\ LocksHeld /\ PendingHeld

-----------------------------------------------------------------------------
\* The hours of a call are a sequence.
LEMMA OrdersAreSequences == \A hours \in Orders : hours \in Seq(Hour)
BY DEF Orders, Injection, IsInjective

\* No call, no lock.
LEMMA InitInv == Init => IInv
BY PostgresSinkAssumption DEF Init, IInv, TypeOK, LocksHeld, PendingHeld

\* What the end of a call leaves in its locals.
LEMMA ForgetType ==
  ASSUME TypeOK, NEW c \in Client, Forget(c)
  PROVE  /\ pending' \in [Slice -> [Hour -> Nat]]
         /\ order' \in [Client -> Seq(Hour)]
         /\ count' \in [Client -> [Hour -> Nat]]
         /\ sent' \in [Client -> Nat]
         /\ slice' \in [Client -> Slice]
         /\ \A d \in Client : sent'[d] <= Len(order'[d])
BY DEF Forget, TypeOK

\* Freeing the rows of a call leaves a lock table.
LEMMA UnlockedType ==
  ASSUME TypeOK, NEW c \in Client
  PROVE  Unlocked(c) \in [Slice -> [Hour -> Client \cup {Free}]]
BY DEF Unlocked, TypeOK

\* A new call keeps the types.
LEMMA CallType ==
  ASSUME TypeOK, NEW c \in Client, NEW s \in Slice, NEW hours \in Orders,
         NEW counts \in [Hour -> 0..MaxCount], Call(c, s, hours, counts)
  PROVE  TypeOK'
<1>1. counts \in [Hour -> Nat]
  BY PostgresSinkAssumption
<1>2. hours \in Seq(Hour)
  BY OrdersAreSequences
<1> QED
  BY <1>1, <1>2 DEF Call, TypeOK

\* A statement keeps the types.
LEMMA ExecuteType ==
  ASSUME TypeOK, NEW c \in Client, Execute(c)
  PROVE  TypeOK'
BY DEF Execute, Unsent, NextHour, WriteRow, TypeOK, request

\* A rollback keeps the types.
LEMMA RollbackType ==
  ASSUME TypeOK, NEW c \in Client, Rollback(c)
  PROVE  TypeOK'
BY ForgetType, UnlockedType DEF Rollback, CloseConnection, TypeOK

\* A commit keeps the types.
LEMMA CommitType ==
  ASSUME TypeOK, NEW c \in Client, NEW outcome \in {"returned", "raised"},
         Commit(c, outcome)
  PROVE  TypeOK'
BY ForgetType, UnlockedType DEF Commit, TypeOK

\* The type invariant is inductive.
LEMMA NextType == TypeOK /\ [Next]_vars => TypeOK'
<1>1. TypeOK /\ UNCHANGED vars => TypeOK'
  BY DEF TypeOK, vars, request
<1> QED
  BY <1>1, CallType, ExecuteType, RollbackType, CommitType
     DEF Next, DeadlockDetected, Fail

\* Tables, locks and calls stay within their types.
THEOREM TypeCorrect == Spec => []TypeOK
BY InitInv, NextType, PTL DEF Spec, IInv

-----------------------------------------------------------------------------
(* Every lock has its statement.                                           *)

\* A new call holds no lock: its client's last call has freed its rows.
LEMMA CallInv ==
  ASSUME IInv, NEW c \in Client, NEW s \in Slice, NEW hours \in Orders,
         NEW counts \in [Hour -> 0..MaxCount], Call(c, s, hours, counts)
  PROVE  LocksHeld' /\ PendingHeld'
<1>1. \A s1 \in Slice, h \in Hour : owner[s1][h] # c
  BY DEF IInv, LocksHeld, Call
<1>2. /\ slice' = [slice EXCEPT ![c] = s]
      /\ order' = [order EXCEPT ![c] = hours]
      /\ count' = [count EXCEPT ![c] = counts]
      /\ sent' = [sent EXCEPT ![c] = 0]
      /\ \A d \in Client : d # c => pc'[d] = pc[d]
      /\ UNCHANGED <<owner, pending>>
  BY DEF Call, IInv, TypeOK
<1>3. LocksHeld'
  <2> SUFFICES ASSUME NEW s1 \in Slice, NEW h \in Hour, NEW d \in Client
               PROVE  owner[s1][h] = d <=> /\ pc'[d] = "execute"
                                           /\ slice'[d] = s1
                                           /\ \E i \in 1..sent'[d] : order'[d][i] = h
    BY <1>2 DEF LocksHeld
  <2>1. CASE d = c
    <3>1. sent'[d] = 0
      BY <1>2, <2>1 DEF IInv, TypeOK
    <3> QED
      BY <1>1, <2>1, <3>1
  <2>2. CASE d # c
    <3>1. /\ pc'[d] = pc[d] /\ slice'[d] = slice[d]
          /\ sent'[d] = sent[d] /\ order'[d] = order[d]
      BY <1>2, <2>2 DEF IInv, TypeOK
    <3> QED
      BY <3>1 DEF IInv, LocksHeld
  <2> QED
    BY <2>1, <2>2
<1>4. PendingHeld'
  <2> SUFFICES ASSUME NEW s1 \in Slice, NEW h \in Hour, NEW d \in Client,
                      owner[s1][h] = d
               PROVE  pending[s1][h] = count'[d][h]
    BY <1>2 DEF PendingHeld
  <2>1. d # c
    BY <1>1
  <2>2. count'[d] = count[d]
    BY <1>2, <2>1 DEF IInv, TypeOK
  <2> QED
    BY <2>2 DEF IInv, PendingHeld
<1> QED
  BY <1>3, <1>4

\* A statement locks the one row it writes.
LEMMA ExecuteInv ==
  ASSUME IInv, NEW c \in Client, Execute(c)
  PROVE  LocksHeld' /\ PendingHeld'
<1> DEFINE t == slice[c]
           n == sent[c]
           x == NextHour(c)
<1>1. /\ pc[c] = "execute"
      /\ n < Len(order[c])
      /\ owner[t][x] = Free
      /\ owner' = [owner EXCEPT ![t][x] = c]
      /\ pending' = [pending EXCEPT ![t][x] = count[c][x]]
      /\ sent' = [sent EXCEPT ![c] = n + 1]
      /\ UNCHANGED <<pc, slice, order, count>>
  BY DEF Execute, Unsent, WriteRow, request
<1>2. /\ t \in Slice /\ n \in Nat
      /\ x \in Hour
      /\ x = order[c][n + 1]
  BY <1>1 DEF IInv, TypeOK, NextHour
<1>3. Free \notin Client
  BY PostgresSinkAssumption
<1> HIDE DEF t, n, x
<1>4. /\ owner \in [Slice -> [Hour -> Client \cup {Free}]]
      /\ pending \in [Slice -> [Hour -> Nat]]
      /\ sent \in [Client -> Nat]
  BY DEF IInv, TypeOK
<1>5. ASSUME NEW s \in Slice, NEW h \in Hour
      PROVE  /\ owner'[s][h] = IF s = t /\ h = x THEN c ELSE owner[s][h]
             /\ pending'[s][h] = IF s = t /\ h = x THEN count[c][x] ELSE pending[s][h]
  BY <1>1, <1>2, <1>4
<1>6. LocksHeld'
  <2> SUFFICES ASSUME NEW s \in Slice, NEW h \in Hour, NEW d \in Client
               PROVE  owner'[s][h] = d <=> /\ pc[d] = "execute"
                                           /\ slice[d] = s
                                           /\ \E i \in 1..sent'[d] : order[d][i] = h
    BY <1>1 DEF LocksHeld
  <2>0. owner[s][h] = d <=> /\ pc[d] = "execute"
                            /\ slice[d] = s
                            /\ \E i \in 1..sent[d] : order[d][i] = h
    BY DEF IInv, LocksHeld
  <2>1. CASE d # c
    <3>1. sent'[d] = sent[d]
      BY <1>1, <1>4, <2>1
    <3>2. owner'[s][h] = d <=> owner[s][h] = d
      BY <1>1, <1>3, <1>5, <2>1
    <3> QED
      BY <2>0, <3>1, <3>2
  <2>2. CASE d = c
    <3>1. sent'[c] = n + 1
      BY <1>1, <1>4
    <3>2. (\E i \in 1..(n + 1) : order[c][i] = h)
            <=> (\E i \in 1..n : order[c][i] = h) \/ h = x
      BY <1>2
    <3>3. n = sent[c] /\ t = slice[c]
      BY DEF n, t
    <3>4. owner'[s][h] = c <=> owner[s][h] = c \/ (s = t /\ h = x)
      BY <1>5
    <3> QED
      BY <1>1, <2>0, <2>2, <3>1, <3>2, <3>3, <3>4
  <2> QED
    BY <2>1, <2>2
<1>7. PendingHeld'
  <2> SUFFICES ASSUME NEW s \in Slice, NEW h \in Hour, NEW d \in Client,
                      owner'[s][h] = d
               PROVE  pending'[s][h] = count[d][h]
    BY <1>1 DEF PendingHeld
  <2> QED
    BY <1>5 DEF IInv, PendingHeld
<1> QED
  BY <1>6, <1>7

\* The end of a call frees the rows of that call and no other.
LEMMA EndInv ==
  ASSUME IInv, NEW c \in Client, owner' = Unlocked(c), Forget(c),
         NEW outcome \in {"returned", "raised"},
         pc' = [pc EXCEPT ![c] = outcome]
  PROVE  LocksHeld' /\ PendingHeld'
<1>1. /\ \A s \in Slice, h \in Hour :
           /\ owner'[s][h] = IF owner[s][h] = c THEN Free ELSE owner[s][h]
           /\ owner[s][h] # c => pending'[s][h] = pending[s][h]
      /\ pc'[c] # "execute"
      /\ \A d \in Client : d # c => /\ pc'[d] = pc[d]
                                    /\ order'[d] = order[d]
                                    /\ count'[d] = count[d]
                                    /\ sent'[d] = sent[d]
      /\ slice' = slice
  BY DEF Unlocked, Forget, IInv, TypeOK
<1>2. c # Free
  BY PostgresSinkAssumption
<1>3. LocksHeld'
  <2> SUFFICES ASSUME NEW s \in Slice, NEW h \in Hour, NEW d \in Client
               PROVE  owner'[s][h] = d <=> /\ pc'[d] = "execute"
                                           /\ slice'[d] = s
                                           /\ \E i \in 1..sent'[d] : order'[d][i] = h
    BY DEF LocksHeld
  <2>1. CASE d = c
    BY <1>1, <1>2, <2>1
  <2>2. CASE d # c
    <3>1. owner'[s][h] = d <=> owner[s][h] = d
      BY <1>1, <2>2, PostgresSinkAssumption
    <3> QED
      BY <1>1, <2>2, <3>1 DEF IInv, LocksHeld
  <2> QED
    BY <2>1, <2>2
<1>4. PendingHeld'
  <2> SUFFICES ASSUME NEW s \in Slice, NEW h \in Hour, NEW d \in Client,
                      owner'[s][h] = d
               PROVE  pending'[s][h] = count'[d][h]
    BY DEF PendingHeld
  <2>1. owner[s][h] = d /\ d # c
    BY <1>1, <1>2, PostgresSinkAssumption
  <2> QED
    BY <1>1, <2>1 DEF IInv, PendingHeld
<1> QED
  BY <1>3, <1>4

\* A lock is held by a call in progress that has executed its statement.
THEOREM Locking == Spec => []IInv
<1>1. IInv /\ UNCHANGED vars => IInv'
  BY DEF IInv, TypeOK, LocksHeld, PendingHeld, vars, request
<1>2. ASSUME IInv, NEW c \in Client, Rollback(c) PROVE LocksHeld' /\ PendingHeld'
  BY <1>2, EndInv DEF Rollback, CloseConnection
<1>3. ASSUME IInv, NEW c \in Client, NEW outcome \in {"returned", "raised"},
             Commit(c, outcome)
      PROVE  LocksHeld' /\ PendingHeld'
  BY <1>3, EndInv DEF Commit
<1>4. IInv /\ Next => LocksHeld' /\ PendingHeld'
  BY <1>2, <1>3, CallInv, ExecuteInv DEF Next, DeadlockDetected, Fail
<1>5. IInv /\ [Next]_vars => IInv'
  BY <1>1, <1>4, NextType DEF IInv
<1> QED
  BY InitInv, <1>5, PTL DEF Spec

\* Whatever fails or waits, only a call in progress holds rows, and only those of
\* the statements it has executed (the with block of upsert_hourly_counts).
THEOREM LocksCorrect == Spec => []LocksHeld
<1>1. IInv => LocksHeld
  BY DEF IInv
<1> QED
  BY <1>1, Locking, PTL

-----------------------------------------------------------------------------
(* When calls can deadlock.                                                *)

\* Some calls wait for each other: each of them for another one among them.
Stuck ==
  \E D \in SUBSET Client : D # {} /\ \A c \in D : \E d \in D : WaitsFor(c, d)

\* The calls in progress take the hours of their buckets in ascending order.
Ascending(Rank) ==
  \A c \in Client : pc[c] = "execute" =>
    \A i, j \in 1..Len(order[c]) : i < j => Rank[order[c][i]] < Rank[order[c][j]]

\* A call that others wait for and that waits itself waits for a later hour.
LEMMA WaitsAscend ==
  ASSUME IInv, NEW Last \in Nat, NEW Rank \in [Hour -> 0..Last], Ascending(Rank),
         NEW c \in Client, NEW d \in Client, NEW e \in Client,
         WaitsFor(c, d), WaitsFor(d, e)
  PROVE  /\ Rank[NextHour(c)] \in 0..Last
         /\ Rank[NextHour(d)] \in 0..Last
         /\ Rank[NextHour(c)] < Rank[NextHour(d)]
<1>1. /\ Unsent(c) /\ owner[slice[c]][NextHour(c)] = d
      /\ Unsent(d)
  BY DEF WaitsFor
<1>2. ASSUME NEW b \in Client, Unsent(b)
      PROVE  /\ slice[b] \in Slice
             /\ sent[b] \in Nat
             /\ sent[b] + 1 \in 1..Len(order[b])
             /\ NextHour(b) = order[b][sent[b] + 1]
             /\ NextHour(b) \in Hour
  <2>1. /\ slice[b] \in Slice
        /\ sent[b] \in Nat
        /\ order[b] \in Seq(Hour)
        /\ sent[b] < Len(order[b])
    BY <1>2 DEF IInv, TypeOK, Unsent
  <2> QED
    BY <2>1 DEF NextHour
<1>3. PICK i \in 1..sent[d] : order[d][i] = NextHour(c)
  <2>1. slice[c] \in Slice /\ NextHour(c) \in Hour
    BY <1>1, <1>2
  <2> QED
    BY <1>1, <2>1 DEF IInv, LocksHeld
<1>4. /\ i \in 1..Len(order[d])
      /\ sent[d] + 1 \in 1..Len(order[d])
      /\ i < sent[d] + 1
  BY <1>1, <1>2, <1>3
<1>5. Rank[NextHour(c)] < Rank[NextHour(d)]
  BY <1>1, <1>2, <1>3, <1>4 DEF Ascending, Unsent
<1> QED
  BY <1>1, <1>2, <1>5

\* A set of numbers has a least element.
LEMMA Least ==
  ASSUME NEW T \in SUBSET Nat, T # {}
  PROVE  \E n \in T : \A k \in T : n <= k
<1> DEFINE R == OpToRel(<, Nat)
<1>1. R = {ss \in Nat \X Nat : ss[1] < ss[2]}
  BY DEF OpToRel
<1>2. IsWellFoundedOn(R, Nat)
  BY NatLessThanWellFounded
<1> HIDE DEF R
<1>3. PICK n \in T : \A k \in T : ~ (<<k, n>> \in R)
  BY <1>2, WFMin
<1>4. ASSUME NEW k \in T, k < n PROVE FALSE
  BY <1>1, <1>3, <1>4
<1> QED
  BY <1>4

\* Calls deadlock only over the order of their buckets: whatever order of the
\* hours one names, calls that wait for each other include one that does not
\* keep to it.  The sink executes the buckets as they come, in the order events
\* were first read, so it needs the detector; sorted by hour, no number of calls
\* could ever wait in a circle.
THEOREM SortedNeverDeadlocks ==
  ASSUME NEW Last \in Nat, NEW Rank \in [Hour -> 0..Last]
  PROVE  Spec => [](Stuck => ~Ascending(Rank))
<1>1. IInv => (Stuck => ~Ascending(Rank))
  <2> SUFFICES ASSUME IInv, Ascending(Rank), NEW D \in SUBSET Client, D # {},
                      \A c \in D : \E d \in D : WaitsFor(c, d)
               PROVE  FALSE
    BY DEF Stuck
  <2> DEFINE toGo(c) == Last - Rank[NextHour(c)]
             T == {toGo(c) : c \in D}
  <2>1. ASSUME NEW c \in D
        PROVE  \E d \in D : toGo(c) \in Nat /\ toGo(d) \in Nat /\ toGo(d) < toGo(c)
    <3>1. PICK d \in D : WaitsFor(c, d)
      OBVIOUS
    <3>2. PICK e \in D : WaitsFor(d, e)
      OBVIOUS
    <3>3. /\ Rank[NextHour(c)] \in 0..Last
          /\ Rank[NextHour(d)] \in 0..Last
          /\ Rank[NextHour(c)] < Rank[NextHour(d)]
      BY <3>1, <3>2, WaitsAscend
    <3> QED
      BY <3>3
  <2> HIDE DEF toGo
  <2>2. T \in SUBSET Nat /\ T # {}
    BY <2>1
  <2>3. PICK n \in T : \A k \in T : n <= k
    BY <2>2, Least
  <2>4. PICK c \in D : n = toGo(c)
    BY <2>3
  <2>5. PICK d \in D : toGo(c) \in Nat /\ toGo(d) \in Nat /\ toGo(d) < toGo(c)
    BY <2>1
  <2>6. toGo(d) \in T
    BY <2>5
  <2> QED
    BY <2>3, <2>4, <2>5, <2>6
<1> QED
  BY <1>1, Locking, PTL

-----------------------------------------------------------------------------
(* Each call takes effect whole, in one step, or not at all.               *)

\* A transaction that commits holds the rows of its buckets and no other.
LEMMA CommitIsWhole ==
  ASSUME IInv, NEW c \in Client, NEW outcome \in {"returned", "raised"},
         Commit(c, outcome)
  PROVE  table' = [table EXCEPT ![slice[c]] =
                     [h \in Hour |-> IF h \in Buckets(c) THEN count[c][h] ELSE @[h]]]
<1>1. \A s \in Slice, h \in Hour :
        owner[s][h] = c <=> s = slice[c] /\ h \in Buckets(c)
  BY DEF IInv, LocksHeld, Buckets, Commit
<1>2. \A s \in Slice, h \in Hour :
        table'[s][h] = IF s = slice[c] /\ h \in Buckets(c)
                       THEN count[c][h] ELSE table[s][h]
  BY <1>1 DEF Commit, IInv, PendingHeld
<1>3. /\ table \in [Slice -> [Hour -> Nat]]
      /\ slice[c] \in Slice
      /\ table' = [s \in Slice |-> [h \in Hour |-> table'[s][h]]]
  BY DEF IInv, TypeOK, Commit
<1> QED
  BY <1>2, <1>3

\* A call in progress counts the hours of its buckets and no other.
BucketsCounted ==
  \A c \in Client : pc[c] = "execute" =>
    \A h \in Hour : count[c][h] > 0 <=> h \in Buckets(c)

\* Only a new call changes the arguments of a call in progress.
LEMMA BucketsInv ==
  ASSUME IInv, BucketsCounted, [Next]_vars
  PROVE  BucketsCounted'
<1>1. ASSUME NEW c \in Client,
             \A d \in Client : pc'[d] = "execute" =>
               pc[d] = "execute" /\ order'[d] = order[d] /\ count'[d] = count[d]
      PROVE  BucketsCounted'
  <2> SUFFICES ASSUME NEW d \in Client, pc'[d] = "execute", NEW h \in Hour
               PROVE  count'[d][h] > 0 <=> h \in {order'[d][i] : i \in 1..Len(order'[d])}
    BY DEF BucketsCounted, Buckets
  <2> QED
    BY <1>1 DEF BucketsCounted, Buckets
<1>2. CASE UNCHANGED vars
  BY <1>2 DEF vars, request, BucketsCounted, Buckets
<1>3. ASSUME NEW c \in Client, NEW s \in Slice, NEW hours \in Orders,
             NEW counts \in [Hour -> 0..MaxCount], Call(c, s, hours, counts)
      PROVE  BucketsCounted'
  <2> SUFFICES ASSUME NEW d \in Client, pc'[d] = "execute", NEW h \in Hour
               PROVE  count'[d][h] > 0 <=> h \in {order'[d][i] : i \in 1..Len(order'[d])}
    BY DEF BucketsCounted, Buckets
  <2>1. CASE d = c
    <3>1. order'[d] = hours /\ count'[d] = counts
      BY <1>3, <2>1 DEF Call, IInv, TypeOK
    <3>2. hours \in Seq(Hour)
      BY OrdersAreSequences
    <3>3. Range(hours) = {hours[i] : i \in 1..Len(hours)}
      BY <3>2 DEF Range
    <3>4. counts[h] > 0 <=> h \in Range(hours)
      BY <1>3 DEF Call
    <3> QED
      BY <3>1, <3>3, <3>4
  <2>2. CASE d # c
    <3>1. pc[d] = "execute" /\ order'[d] = order[d] /\ count'[d] = count[d]
      BY <1>3, <2>2 DEF Call, IInv, TypeOK
    <3> QED
      BY <3>1 DEF BucketsCounted, Buckets
  <2> QED
    BY <2>1, <2>2
<1>4. ASSUME NEW c \in Client, Execute(c) PROVE BucketsCounted'
  BY <1>1, <1>4 DEF Execute, request
<1>5. ASSUME NEW c \in Client, Forget(c), NEW outcome \in {"returned", "raised"},
             pc' = [pc EXCEPT ![c] = outcome]
      PROVE  BucketsCounted'
  <2>1. \A d \in Client : pc'[d] = "execute" =>
          pc[d] = "execute" /\ order'[d] = order[d] /\ count'[d] = count[d]
    BY <1>5 DEF Forget, IInv, TypeOK
  <2> QED
    BY <1>1, <2>1
<1>6. ASSUME NEW c \in Client, Rollback(c) PROVE BucketsCounted'
  BY <1>5, <1>6 DEF Rollback
<1>7. ASSUME NEW c \in Client, NEW outcome \in {"returned", "raised"},
             Commit(c, outcome)
      PROVE  BucketsCounted'
  BY <1>5, <1>7 DEF Commit
<1> QED
  BY <1>2, <1>3, <1>4, <1>6, <1>7 DEF Next, DeadlockDetected, Fail

CallOf(c) == [client |-> c, slice |-> slice[c], count |-> count[c]]

Calls == {CallOf(c) : c \in {d \in Client : pc[d] = "execute"}}

\* A new call with buckets is a call in progress; one without is over at once.
LEMMA CallMaps ==
  ASSUME TypeOK, NEW c \in Client, NEW s \in Slice, NEW hours \in Orders,
         NEW counts \in [Hour -> 0..MaxCount], Call(c, s, hours, counts)
  PROVE  Atomic!Call(c, s, counts) \/ UNCHANGED <<table, Calls>>
<1> DEFINE new == [client |-> c, slice |-> s, count |-> counts]
<1>1. /\ pc[c] # "execute"
      /\ \A d \in Client : d # c => pc'[d] = pc[d] /\ CallOf(d)' = CallOf(d)
      /\ CallOf(c)' = new
      /\ UNCHANGED table
  BY DEF Call, TypeOK, CallOf
<1>2. CASE hours = << >>
  <2>1. pc'[c] = "returned"
    BY <1>2 DEF Call, TypeOK
  <2>2. Calls' = Calls
    BY <1>1, <2>1 DEF Calls
  <2> QED
    BY <1>1, <2>2
<1>3. CASE hours # << >>
  <2>1. pc'[c] = "execute"
    BY <1>3 DEF Call, TypeOK
  <2>2. Calls' = Calls \cup {new}
    BY <1>1, <2>1 DEF Calls
  <2>3. \A q \in Calls : q.client # c
    BY <1>1 DEF Calls, CallOf
  <2> QED
    BY <1>1, <2>2, <2>3 DEF Atomic!Call, Calls, CallOf
<1> QED
  BY <1>2, <1>3

\* The end of a call takes it, and only it, from the calls in progress.
LEMMA CallEnded ==
  ASSUME TypeOK, NEW c \in Client, Forget(c),
         NEW outcome \in {"returned", "raised"}, pc' = [pc EXCEPT ![c] = outcome]
  PROVE  Calls' = Calls \ {CallOf(c)}
<1>1. /\ pc'[c] # "execute"
      /\ \A d \in Client : d # c => pc'[d] = pc[d] /\ CallOf(d)' = CallOf(d)
  BY DEF Forget, TypeOK, CallOf
<1>2. \A d \in Client : d # c => CallOf(d) # CallOf(c)
  BY DEF CallOf
<1> QED
  BY <1>1, <1>2 DEF Calls

\* A rollback changes no row.
LEMMA RollbackMaps ==
  ASSUME TypeOK, NEW c \in Client, Rollback(c)
  PROVE  Atomic!Next \/ UNCHANGED <<table, Calls>>
<1>1. Calls' = Calls \ {CallOf(c)} /\ UNCHANGED table
  BY CallEnded DEF Rollback
<1>2. CASE pc[c] = "execute"
  <2>1. PICK q \in Calls : q = CallOf(c)
    BY <1>2 DEF Calls
  <2>2. Atomic!Raise(q)
    BY <1>1, <2>1 DEF Atomic!Raise, Calls, CallOf
  <2> QED
    BY <2>1, <2>2 DEF Atomic!Next, Calls, CallOf
<1>3. CASE pc[c] # "execute"
  <2>1. CallOf(c) \notin Calls
    BY <1>3 DEF Calls, CallOf
  <2> QED
    BY <1>1, <2>1
<1> QED
  BY <1>2, <1>3

\* A commit writes the rows of its call, all of them at once.
LEMMA CommitMaps ==
  ASSUME IInv, BucketsCounted, NEW c \in Client,
         NEW outcome \in {"returned", "raised"}, Commit(c, outcome)
  PROVE  Atomic!Next
<1>1. /\ pc[c] = "execute"
      /\ Calls' = Calls \ {CallOf(c)}
  BY CallEnded DEF Commit, IInv
<1>2. table' = [table EXCEPT ![slice[c]] =
                  [h \in Hour |-> IF h \in Buckets(c) THEN count[c][h] ELSE @[h]]]
  BY CommitIsWhole
<1>3. table' = [table EXCEPT ![slice[c]] =
                  [h \in Hour |-> IF count[c][h] > 0 THEN count[c][h] ELSE @[h]]]
  BY <1>1, <1>2 DEF BucketsCounted
<1>4. PICK q \in Calls : q = CallOf(c)
  BY <1>1 DEF Calls
<1>5. q.slice = slice[c] /\ q.count = count[c]
  BY <1>4 DEF CallOf
<1>6. Atomic!Commit(q)
  BY <1>1, <1>3, <1>4, <1>5 DEF Atomic!Commit, Calls, CallOf
<1> QED
  BY <1>4, <1>6 DEF Atomic!Next, Calls, CallOf

\* The sink implements AtomicUpsert, for any clients, slices and hours: statements
\* of concurrent calls interleave row by row, wait and deadlock, and each call
\* still takes effect in one step or not at all.
THEOREM Refinement == Spec => UpsertsAreAtomic
<1>1. Init => Atomic!Init /\ BucketsCounted
  BY DEF Init, Atomic!Init, BucketsCounted
<1>2. IInv /\ BucketsCounted /\ [Next]_vars => [Atomic!Next]_<<table, Calls>>
  <2> SUFFICES ASSUME IInv, BucketsCounted, [Next]_vars
               PROVE  Atomic!Next \/ UNCHANGED <<table, Calls>>
    OBVIOUS
  <2>1. CASE UNCHANGED vars
    BY <2>1 DEF vars, request, Calls, CallOf
  <2>2. ASSUME NEW c \in Client, NEW s \in Slice, NEW hours \in Orders,
               NEW counts \in [Hour -> 0..MaxCount], Call(c, s, hours, counts)
        PROVE  Atomic!Next \/ UNCHANGED <<table, Calls>>
    BY <2>2, CallMaps DEF IInv, Atomic!Next
  <2>3. ASSUME NEW c \in Client, Execute(c) PROVE UNCHANGED <<table, Calls>>
    BY <2>3 DEF Execute, WriteRow, request, Calls, CallOf
  <2> QED
    BY <2>1, <2>2, <2>3, RollbackMaps, CommitMaps
       DEF Next, DeadlockDetected, Fail, IInv
<1>3. IInv /\ BucketsCounted /\ [Next]_vars => BucketsCounted'
  BY BucketsInv
<1>4. IInv /\ BucketsCounted /\ [Next]_vars => [Atomic!Next]_Atomic!vars
  BY <1>2 DEF Atomic!vars, Calls, CallOf
<1> QED
  BY <1>1, <1>3, <1>4, Locking, PTL DEF Spec, UpsertsAreAtomic, Atomic!Spec

\* A call that returns has put the counts of its buckets into the table, all at
\* once.
THEOREM ReturnedCommitted == Spec => ReturnedMeansCommitted
<1>1. IInv /\ [Next]_vars =>
        [\A c \in Client : pc[c] = "execute" /\ pc'[c] = "returned" =>
           \A h \in Buckets(c) : table'[slice[c]][h] = count[c][h]]_vars
  <2> SUFFICES ASSUME IInv, Next, NEW c \in Client,
                      pc[c] = "execute", pc'[c] = "returned", NEW h \in Buckets(c)
               PROVE  table'[slice[c]][h] = count[c][h]
    OBVIOUS
  <2>1. Commit(c, "returned")
    <3>1. pc \in [Client -> {"idle", "execute", "returned", "raised"}]
      BY DEF IInv, TypeOK
    <3>2. PICK d \in Client :
            \/ \E s \in Slice, hours \in Orders, counts \in [Hour -> 0..MaxCount] :
                 Call(d, s, hours, counts)
            \/ Execute(d)
            \/ DeadlockDetected(d)
            \/ Commit(d, "returned") \/ Commit(d, "raised")
            \/ Fail(d)
      BY DEF Next
    <3>3. ~ \E s \in Slice, hours \in Orders, counts \in [Hour -> 0..MaxCount] :
              Call(d, s, hours, counts)
      BY <3>1 DEF Call
    <3>4. ~Execute(d)
      BY DEF Execute
    <3>5. ~DeadlockDetected(d) /\ ~Fail(d)
      BY <3>1 DEF DeadlockDetected, Fail, Rollback
    <3>6. ~Commit(d, "raised")
      BY <3>1 DEF Commit
    <3>7. Commit(d, "returned") => d = c
      BY <3>1 DEF Commit
    <3> QED
      BY <3>2, <3>3, <3>4, <3>5, <3>6, <3>7
  <2>2. /\ slice[c] \in Slice /\ h \in Hour
        /\ table \in [Slice -> [Hour -> Nat]]
    BY DEF IInv, TypeOK, Buckets
  <2>3. table' = [table EXCEPT ![slice[c]] =
                    [k \in Hour |-> IF k \in Buckets(c) THEN count[c][k] ELSE @[k]]]
    BY <2>1, CommitIsWhole
  <2> QED
    BY <2>2, <2>3
<1> QED
  BY <1>1, Locking, PTL DEF Spec, ReturnedMeansCommitted

-----------------------------------------------------------------------------
(* Upserts next to ensure_table.                                           *)

\* Whether the table is there or not and whoever creates it, an upsert takes only
\* steps of PostgresSink: all that is shown of it holds here too.
THEOREM TableRefinesSink == TableSpec => Spec
<1>1. TableInit => Init
  BY DEF TableInit
<1>2. [TableNext]_<<vars, tableVars>> => [Next]_vars
  <2>1. ASSUME NEW c \in Client, MissingTable(c) PROVE Fail(c)
    BY <2>1 DEF MissingTable, Unsent, Fail
  <2> QED
    BY <2>1 DEF TableNext, BeginCall, SinkStep, Next
<1> QED
  BY <1>1, <1>2, PTL DEF TableSpec, Spec

\* A call that has still to commit has created the table or found it.
TableInv ==
  /\ TableTypeOK
  /\ \A c \in Client : /\ ddl[c] = "commit" => present \/ creator = c
                       /\ ddl[c] \in {"returned", "duplicate"} => present

\* A step of ensure_table keeps that.
LEMMA TableStepInv ==
  ASSUME TableInv, NEW c \in Client, TableStep(c)
  PROVE  TableInv'
<1> USE DEF TableInv, TableTypeOK, Ensuring
<1>1. CASE EnsureTable(c)
  BY <1>1 DEF EnsureTable
<1>2. CASE CreateTable(c)
  BY <1>2, PostgresSinkAssumption DEF CreateTable, KeepTable, InsertName
<1>3. CASE Resume(c)
  BY <1>3, PostgresSinkAssumption DEF Resume, InsertName
<1>4. ASSUME NEW outcome \in {"returned", "raised"}, CommitTable(c, outcome)
      PROVE  TableInv'
  <2>1. /\ present' = (present \/ creator = c)
        /\ creator' \in Client \cup {Free}
        /\ \A d \in Client : creator = d /\ d # c => creator' = d
        /\ ddl[c] = "commit"
        /\ ddl' = [ddl EXCEPT ![c] = outcome]
    BY <1>4 DEF CommitTable, Committed, Released
  <2>2. present' = TRUE
    BY <2>1
  <2> QED
    BY <2>1, <2>2
<1>5. CASE FailTable(c)
  BY <1>5, PostgresSinkAssumption DEF FailTable, Released
<1> QED
  BY <1>1, <1>2, <1>3, <1>4, <1>5 DEF TableStep

\* After ensure_table has returned, or lost the race, the table is there.
THEOREM TableExists == TableSpec => []EnsuredMeansTable
<1>1. TableInit => TableInv
  BY DEF TableInit, TableInv, TableTypeOK
<1>2. TableInv /\ [TableNext]_<<vars, tableVars>> => TableInv'
  <2> SUFFICES ASSUME TableInv, [TableNext]_<<vars, tableVars>> PROVE TableInv'
    OBVIOUS
  <2>1. ASSUME NEW c \in Client, TableStep(c) PROVE TableInv'
    BY <2>1, TableStepInv
  <2>2. ASSUME NEW c \in Client, BeginCall(c) PROVE TableInv'
    BY <2>2 DEF BeginCall, TableInv, TableTypeOK, Ensuring
  <2>3. CASE UNCHANGED tableVars
    BY <2>3 DEF TableInv, TableTypeOK, tableVars
  <2> QED
    BY <2>1, <2>2, <2>3 DEF TableNext
<1>3. TableInv => EnsuredMeansTable
  BY DEF TableInv, EnsuredMeansTable
<1> QED
  BY <1>1, <1>2, <1>3, PTL DEF TableSpec

=============================================================================

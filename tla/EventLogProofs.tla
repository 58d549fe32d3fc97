---------------------------- MODULE EventLogProofs ----------------------------
(***************************************************************************)
(* Facts about counting that the theorems on the consumer and on the       *)
(* bridge share: the distinct events of an hour, and sums over functions.  *)
(*                                                                         *)
(* SumFunction is recursive on subsets of its domain.  What is shown of it *)
(* is shown by smallest counterexamples, of a size for which there are no  *)
(* sums or the sums are wrong.                                             *)
(***************************************************************************)
EXTENDS EventLog, Functions, FiniteSetTheorems, TLAPS

-----------------------------------------------------------------------------
(* Counting distinct events.                                               *)

\* A set of event ids, and each of its hours, is finite.
LEMMA FiniteHour ==
  ASSUME NEW ids \in SUBSET EventId, NEW h
  PROVE  /\ IsFiniteSet(ids)
         /\ IsFiniteSet({e \in ids : HourOf[e] = h})
         /\ CountAt(ids, h) \in Nat
<1>1. IsFiniteSet(ids)
  BY EventLogAssumption, FS_Subset
<1>2. {e \in ids : HourOf[e] = h} \in SUBSET ids
  OBVIOUS
<1>3. IsFiniteSet({e \in ids : HourOf[e] = h})
  BY <1>1, <1>2, FS_Subset
<1> QED
  BY <1>1, <1>3, FS_CardinalityType DEF CountAt

\* More events count for more.
LEMMA CountMonotone ==
  ASSUME NEW ids \in SUBSET EventId, NEW S \in SUBSET ids, NEW h
  PROVE  CountAt(S, h) <= CountAt(ids, h)
<1>1. {e \in S : HourOf[e] = h} \in SUBSET {e \in ids : HourOf[e] = h}
  OBVIOUS
<1> QED
  BY <1>1, FiniteHour, FS_Subset DEF CountAt

\* A new event adds one to its own hour and to no other.
LEMMA CountAdd ==
  ASSUME NEW ids \in SUBSET EventId, NEW e \in EventId, e \notin ids
  PROVE  HourCounts(ids \cup {e}) =
           [HourCounts(ids) EXCEPT ![HourOf[e]] = @ + 1]
<1>1. ASSUME NEW h \in Hour
      PROVE  CountAt(ids \cup {e}, h) =
               IF h = HourOf[e] THEN CountAt(ids, h) + 1 ELSE CountAt(ids, h)
  <2> DEFINE at == {x \in ids : HourOf[x] = h}
  <2>1. IsFiniteSet(at) /\ e \notin at
    BY FiniteHour
  <2>2. CASE h = HourOf[e]
    <3>1. {x \in ids \cup {e} : HourOf[x] = h} = at \cup {e}
      BY <2>2
    <3> QED
      BY <3>1, <2>1, <2>2, FS_AddElement DEF CountAt
  <2>3. CASE h # HourOf[e]
    <3>1. {x \in ids \cup {e} : HourOf[x] = h} = at
      BY <2>3
    <3> QED
      BY <3>1, <2>3 DEF CountAt
  <2> QED
    BY <2>2, <2>3
<1>2. HourOf[e] \in Hour
  BY EventLogAssumption
<1> QED
  BY <1>1, <1>2 DEF HourCounts

\* No event, no count.
LEMMA CountNothing == HourCounts({}) = [h \in Hour |-> 0]
<1>1. ASSUME NEW h \in Hour PROVE CountAt({}, h) = 0
  <2>1. {e \in {} : HourOf[e] = h} = {}
    OBVIOUS
  <2> QED
    BY <2>1, FS_EmptySet DEF CountAt
<1> QED
  BY <1>1 DEF HourCounts

\* Counts are natural numbers.
LEMMA CountsType ==
  ASSUME NEW ids \in SUBSET EventId
  PROVE  HourCounts(ids) \in [Hour -> Nat]
BY FiniteHour DEF HourCounts

-----------------------------------------------------------------------------
(* Sums.                                                                   *)

\* A set of numbers has a least element.
LEMMA Least ==
  ASSUME NEW T \in SUBSET Nat, T # {}
  PROVE  \E n \in T : \A k \in T : n <= k
<1> DEFINE R == OpToRel(<, Nat)
<1>1. R = {ss \in Nat \X Nat : ss[1] < ss[2]}
  BY DEF OpToRel
<1>2. IsWellFoundedOn(R, Nat)
  BY NatLessThanWellFounded
<1> HIDE DEF R
<1>3. PICK n \in T : \A k \in T : ~ (<<k, n>> \in R)
  BY <1>2, WFMin
<1>4. \A k \in T : n <= k
  <2> SUFFICES ASSUME NEW k \in T, k < n PROVE FALSE
    OBVIOUS
  <2>1. <<k, n>> \in R
    BY <1>1
  <2> QED
    BY <2>1, <1>3
<1> QED
  BY <1>4

\* The element a sum takes from a set first.
First(s) == CHOOSE x \in s : TRUE

\* it holds the sums of f over the subsets of D with at most n elements.
SumsUpTo(f, D, n, it) ==
  it = [s \in {t \in SUBSET D : Cardinality(t) <= n} |->
          IF s = {} THEN 0 ELSE f[First(s)] + it[s \ {First(s)}]]

\* it holds the sums of f over all subsets of D.
Sums(f, D, it) ==
  it = [s \in SUBSET D |->
          IF s = {} THEN 0 ELSE f[First(s)] + it[s \ {First(s)}]]

\* SumFunctionOnSet is the sum over D itself, among those over its subsets.
LEMMA SumDefined ==
  ASSUME NEW f, NEW D
  PROVE  SumFunctionOnSet(f, D) = (CHOOSE it : Sums(f, D, it))[D]
BY DEF SumFunctionOnSet, FoldFunctionOnSet, MapThenFoldSet, Sums, First

\* A set is one smaller without its first element.
LEMMA FirstRemoved ==
  ASSUME NEW s, s # {}, IsFiniteSet(s)
  PROVE  /\ First(s) \in s
         /\ IsFiniteSet(s \ {First(s)})
         /\ Cardinality(s) \in Nat
         /\ Cardinality(s \ {First(s)}) = Cardinality(s) - 1
<1>1. First(s) \in s
  BY DEF First
<1> QED
  BY <1>1, FS_RemoveElement, FS_CardinalityType

\* A finite set has sums: from those of at most n - 1 elements come those of n.
LEMMA SumsExist ==
  ASSUME NEW f, NEW D, IsFiniteSet(D)
  PROVE  \E it : Sums(f, D, it)
<1> DEFINE Upto(n) == {t \in SUBSET D : Cardinality(t) <= n}
           Bad == {n \in Nat : ~ \E it : SumsUpTo(f, D, n, it)}
<1>1. \A t \in SUBSET D : IsFiniteSet(t) /\ Cardinality(t) \in Nat
                          /\ Cardinality(t) <= Cardinality(D)
  BY FS_Subset, FS_CardinalityType
<1>2. Bad = {}
  <2> SUFFICES ASSUME Bad # {} PROVE FALSE
    OBVIOUS
  <2>1. PICK n \in Bad : \A k \in Bad : n <= k
    BY Least
  <2>2. n # 0
    <3> SUFFICES ASSUME n = 0 PROVE FALSE
      OBVIOUS
    <3> DEFINE it == [s \in Upto(0) |-> 0]
    <3>1. \A s \in Upto(0) : s = {}
      BY <1>1, FS_EmptySet
    <3>2. SumsUpTo(f, D, 0, it)
      BY <3>1 DEF SumsUpTo
    <3> QED
      BY <3>2
  <2>3. n - 1 \in Nat /\ n - 1 \notin Bad
    BY <2>1, <2>2
  <2>4. PICK it : SumsUpTo(f, D, n - 1, it)
    BY <2>3
  <2> DEFINE more == [s \in Upto(n) |->
                  IF s = {} THEN 0 ELSE f[First(s)] + it[s \ {First(s)}]]
  <2>5. \A t \in Upto(n - 1) : t \in Upto(n) /\ more[t] = it[t]
    <3>1. it = [s \in Upto(n - 1) |->
                  IF s = {} THEN 0 ELSE f[First(s)] + it[s \ {First(s)}]]
      BY <2>4 DEF SumsUpTo
    <3>2. Upto(n - 1) \subseteq Upto(n)
      BY <1>1, <2>3
    <3> HIDE DEF Upto
    <3> QED
      BY <3>1, <3>2
  <2>6. \A s \in Upto(n) : s # {} => s \ {First(s)} \in Upto(n - 1)
    BY <1>1, <2>3, FirstRemoved
  <2>7. SumsUpTo(f, D, n, more)
    <3>1. \A s \in Upto(n) : s # {} => it[s \ {First(s)}] = more[s \ {First(s)}]
      BY <2>5, <2>6
    <3>2. more = [s \in Upto(n) |->
                  IF s = {} THEN 0 ELSE f[First(s)] + more[s \ {First(s)}]]
      BY <3>1
    <3> QED
      BY <3>2 DEF SumsUpTo
  <2> QED
    BY <2>7
<1>3. Cardinality(D) \in Nat
  BY FS_CardinalityType
<1>4. PICK it : SumsUpTo(f, D, Cardinality(D), it)
  BY <1>2, <1>3
<1>5. {t \in SUBSET D : Cardinality(t) <= Cardinality(D)} = SUBSET D
  BY <1>1
<1>6. Sums(f, D, it)
  BY <1>4, <1>5 DEF SumsUpTo, Sums
<1> QED
  BY <1>6
\* The sums of f over the subsets of D.
Partial(f, D) == CHOOSE it : Sums(f, D, it)

\* How a sum is computed.
LEMMA SumStep ==
  ASSUME NEW f, NEW D, IsFiniteSet(D)
  PROVE  /\ Partial(f, D)[{}] = 0
         /\ \A s \in SUBSET D : s # {} =>
              Partial(f, D)[s] = f[First(s)] + Partial(f, D)[s \ {First(s)}]
<1>1. Sums(f, D, Partial(f, D))
  BY SumsExist DEF Partial
<1>2. \A s \in SUBSET D :
        Partial(f, D)[s] = IF s = {} THEN 0
                           ELSE f[First(s)] + Partial(f, D)[s \ {First(s)}]
  BY <1>1 DEF Sums
<1> QED
  BY <1>2

\* The sum of zeroes is zero.
LEMMA SumZero ==
  ASSUME NEW f, NEW D, IsFiniteSet(D), \A x \in D : f[x] = 0
  PROVE  SumFunctionOnSet(f, D) = 0
<1> DEFINE F == Partial(f, D)
           Bad == {n \in Nat : \E s \in SUBSET D : Cardinality(s) = n /\ F[s] # 0}
<1>1. Bad = {}
  <2> SUFFICES ASSUME Bad # {} PROVE FALSE
    OBVIOUS
  <2>1. PICK n \in Bad : \A k \in Bad : n <= k
    BY Least
  <2>2. PICK s \in SUBSET D : Cardinality(s) = n /\ F[s] # 0
    BY <2>1
  <2>3. s # {} /\ IsFiniteSet(s)
    BY <2>2, SumStep, FS_Subset
  <2>4. /\ First(s) \in D
        /\ s \ {First(s)} \in SUBSET D
        /\ Cardinality(s \ {First(s)}) = n - 1 /\ n - 1 \in Nat
    BY <2>2, <2>3, FirstRemoved, FS_CardinalityType
  <2>5. F[s \ {First(s)}] = 0
    BY <2>1, <2>4
  <2>6. F[s] = f[First(s)] + F[s \ {First(s)}]
    BY <2>3, SumStep
  <2>7. f[First(s)] = 0
    BY <2>4
  <2> HIDE DEF F
  <2> QED
    BY <2>2, <2>5, <2>6, <2>7
<1>2. Cardinality(D) \in Nat
  BY FS_CardinalityType
<1>3. F[D] = 0
  BY <1>1, <1>2
<1> QED
  BY <1>3, SumDefined DEF Partial

\* One more at x makes the sum one more.
LEMMA SumIncrement ==
  ASSUME NEW D, IsFiniteSet(D), NEW f \in [D -> Nat], NEW g \in [D -> Nat], NEW x \in D,
         \A d \in D : g[d] = IF d = x THEN f[d] + 1 ELSE f[d]
  PROVE  SumFunctionOnSet(f, D) \in Nat /\ SumFunctionOnSet(g, D) = SumFunctionOnSet(f, D) + 1
<1> DEFINE F == Partial(f, D)
           G == Partial(g, D)
           Fits(s) == F[s] \in Nat /\ G[s] = F[s] + (IF x \in s THEN 1 ELSE 0)
           Bad == {n \in Nat : \E s \in SUBSET D : Cardinality(s) = n /\ ~Fits(s)}
<1>0. /\ \A s \in SUBSET D : s # {} => F[s] = f[First(s)] + F[s \ {First(s)}]
      /\ \A s \in SUBSET D : s # {} => G[s] = g[First(s)] + G[s \ {First(s)}]
      /\ F[{}] = 0 /\ G[{}] = 0
  <2>1. ASSUME NEW h
        PROVE  /\ Partial(h, D)[{}] = 0
               /\ \A s \in SUBSET D : s # {} =>
                    Partial(h, D)[s] = h[First(s)] + Partial(h, D)[s \ {First(s)}]
    BY SumStep
  <2> QED
    BY <2>1
<1>1. Bad = {}
  <2> SUFFICES ASSUME Bad # {} PROVE FALSE
    OBVIOUS
  <2>1. PICK n \in Bad : \A k \in Bad : n <= k
    BY Least
  <2>2. PICK s \in SUBSET D : Cardinality(s) = n /\ ~Fits(s)
    BY <2>1
  <2>3. s # {} /\ IsFiniteSet(s)
    <3>1. Fits({})
      BY <1>0
    <3> QED
      BY <2>2, <3>1, FS_Subset
  <2> DEFINE y == First(s)
             t == s \ {y}
  <2>4. /\ y \in D /\ y \in s
        /\ t \in SUBSET D
        /\ Cardinality(t) = n - 1 /\ n - 1 \in Nat
    <3>1. /\ First(s) \in s
          /\ Cardinality(s) \in Nat
          /\ Cardinality(s \ {First(s)}) = Cardinality(s) - 1
          /\ Cardinality(s \ {First(s)}) \in Nat
      BY <2>3, FirstRemoved, FS_CardinalityType
    <3> QED
      BY <2>2, <3>1
  <2>5. Fits(t)
    <3> HIDE DEF t, Fits
    <3> QED
      BY <2>1, <2>4
  <2>6. F[s] = f[y] + F[t] /\ G[s] = g[y] + G[t]
    <3> HIDE DEF F, G
    <3> QED
      BY <1>0, <2>3
  <2>7. f[y] \in Nat /\ g[y] = f[y] + (IF x = y THEN 1 ELSE 0)
    BY <2>4
  <2>8. x \in t <=> x \in s /\ x # y
    OBVIOUS
  <2> HIDE DEF F, G, y, t
  <2> QED
    BY <2>2, <2>4, <2>5, <2>6, <2>7, <2>8
<1>2. Cardinality(D) \in Nat
  BY FS_CardinalityType
<1>3. Fits(D)
  BY <1>1, <1>2
<1> QED
  BY <1>3, SumDefined DEF Partial

\* The hourly counts of a set of events add up to the number of its events.
LEMMA CountsAddUp ==
  ASSUME NEW ids \in SUBSET EventId
  PROVE  SumFunction(HourCounts(ids)) = Cardinality(ids)
<1> DEFINE Total(S) == SumFunctionOnSet(HourCounts(S), Hour)
           Bad == {n \in Nat : \E S \in SUBSET EventId :
                                  Cardinality(S) = n /\ Total(S) # n}
<1>1. Bad = {}
  <2> SUFFICES ASSUME Bad # {} PROVE FALSE
    OBVIOUS
  <2>1. PICK n \in Bad : \A k \in Bad : n <= k
    BY Least
  <2>2. PICK S \in SUBSET EventId : Cardinality(S) = n /\ Total(S) # n
    BY <2>1
  <2>3. IsFiniteSet(S)
    BY FiniteHour
  <2>4. S # {}
    <3>1. Total({}) = 0
      BY CountNothing, SumZero, EventLogAssumption
    <3> QED
      BY <2>2, <3>1, FS_EmptySet
  <2>5. PICK e \in S : TRUE
    BY <2>4
  <2> DEFINE t == S \ {e}
  <2>6. /\ t \in SUBSET EventId /\ e \in EventId /\ e \notin t /\ S = t \cup {e}
        /\ Cardinality(t) = n - 1 /\ n - 1 \in Nat
    <3>1. Cardinality(t) = Cardinality(S) - 1 /\ IsFiniteSet(t)
      BY <2>3, FS_RemoveElement
    <3>2. Cardinality(t) \in Nat
      BY <3>1, FS_CardinalityType
    <3> QED
      BY <2>2, <3>1, <3>2
  <2>7. Total(t) = n - 1
    <3> HIDE DEF t, Total
    <3> QED
      BY <2>1, <2>6
  <2>8. Total(S) = Total(t) + 1
    <3>1. /\ HourCounts(t) \in [Hour -> Nat]
          /\ HourCounts(S) \in [Hour -> Nat]
          /\ HourCounts(S) = [HourCounts(t) EXCEPT ![HourOf[e]] = @ + 1]
          /\ HourOf[e] \in Hour
      BY <2>6, CountsType, CountAdd, EventLogAssumption
    <3>2. \A h \in Hour : HourCounts(S)[h] = IF h = HourOf[e] THEN HourCounts(t)[h] + 1
                                             ELSE HourCounts(t)[h]
      BY <3>1
    <3>3. IsFiniteSet(Hour)
      BY EventLogAssumption
    <3> HIDE DEF t
    <3>4. SumFunctionOnSet(HourCounts(S), Hour) = SumFunctionOnSet(HourCounts(t), Hour) + 1
      BY <3>1, <3>2, <3>3, SumIncrement, Zenon
    <3> QED
      BY <3>4
  <2> QED
    BY <2>2, <2>6, <2>7, <2>8
<1>2. Cardinality(ids) \in Nat
  BY FiniteHour, FS_CardinalityType
<1>3. Total(ids) = Cardinality(ids)
  BY <1>1, <1>2
<1>4. DOMAIN HourCounts(ids) = Hour
  BY DEF HourCounts
<1> QED
  BY <1>3, <1>4 DEF SumFunction

\* No more hours than events are counted.
LEMMA HoursBounded ==
  ASSUME NEW ids \in SUBSET EventId
  PROVE  Cardinality({h \in Hour : HourCounts(ids)[h] > 0}) <= Cardinality(ids)
<1> DEFINE hours == {h \in Hour : HourCounts(ids)[h] > 0}
           f == [e \in ids |-> HourOf[e]]
<1>1. \A h \in hours : \E e \in ids : HourOf[e] = h
  <2> SUFFICES ASSUME NEW h \in hours, {e \in ids : HourOf[e] = h} = {} PROVE FALSE
    OBVIOUS
  <2>1. CountAt(ids, h) = 0
    BY FS_EmptySet DEF CountAt
  <2> QED
    BY <2>1 DEF HourCounts
<1>2. \A e \in ids : HourOf[e] \in hours
  <2> SUFFICES ASSUME NEW e \in ids PROVE CountAt(ids, HourOf[e]) > 0
    BY EventLogAssumption DEF HourCounts
  <2>1. /\ IsFiniteSet({x \in ids : HourOf[x] = HourOf[e]})
        /\ CountAt(ids, HourOf[e]) \in Nat
    BY FiniteHour
  <2>2. e \in {x \in ids : HourOf[x] = HourOf[e]}
    OBVIOUS
  <2> QED
    BY <2>1, <2>2, FS_EmptySet DEF CountAt
<1>3. f \in Surjection(ids, hours)
  BY <1>1, <1>2 DEF Surjection
<1> QED
  BY <1>3, FiniteHour, FS_Surjection

=============================================================================

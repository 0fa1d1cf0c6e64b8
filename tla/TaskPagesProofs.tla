--------------------------- MODULE TaskPagesProofs ---------------------------
(***************************************************************************)
(* Proofs about the task lists and statistics (TaskPages), for any tasks,   *)
(* events, lists, page sizes and retention.                                 *)
(***************************************************************************)
EXTENDS TaskPages, FiniteSetTheorems, FunctionTheorems, SequenceTheorems, WellFoundedInduction,
        TLAPS

-----------------------------------------------------------------------------
(* Task pages: what the requests keep. *)

Table == [TaskIds -> TaskRow \cup {NoRow}]
Requests == [pc : {"idle", "open", "query", "reopen", "requery", "shown", "failed"},
             list : Opt(Lists), page : Nat \ {0}, pages : Nat \ {0}, rows : Seq(TaskIds),
             at : Times]
Walks == [seen : SUBSET TaskIds, steady : SUBSET TaskIds, moved : BOOLEAN]

PagesShape ==
  /\ tasks \in Table /\ now \in Times
  /\ request \in Requests /\ walk \in Walks
  /\ request.list = None <=> request.pc \in {"idle", "failed"}
  /\ lastCleanup # None => lastCleanup \in 0 .. now
  /\ cleanupFailed \in BOOLEAN

Dated(T, t) == T[t] # NoRow /\ Age(T[t]) # None
Fresh(T, time) == \A t \in TaskIds : Dated(T, t) => Age(T[t]) >= time

(* No dated row is older than the last cleanup that succeeded left it, nor, while a
   request that could have cleaned up is under way or shown, than the throttle
   allows. *)
RetentionSound ==
  /\ lastCleanup # None /\ ~cleanupFailed => Fresh(tasks, lastCleanup - Retention)
  /\ request.pc \in {"open", "query", "reopen", "requery"} => request.at = now
  /\ request.pc = "shown" => request.at <= now
  /\ request.pc \in {"query", "reopen", "requery", "shown"} /\ ~cleanupFailed =>
       Fresh(tasks, request.at - Retention - CleanupInterval + 1)

(* The tasks before t in the list, newest first. *)
Rank(T, t) == IF Age(T[t]) = None THEN -1 ELSE Age(T[t])
Newer(T, u, t) ==
  IF Rank(T, u) = Rank(T, t) THEN RowId[u] < RowId[t] ELSE Rank(T, u) > Rank(T, t)
Ahead(T, list, t) == {u \in Listed(T, list) : Newer(T, u, t)}

(* The pages the user has been through. *)
Covered == IF request.pc = "shown" THEN request.page ELSE request.page - 1

(* A steady task whose place is on a page the user has been through was seen; on
   the last page, or when a page vanished under the user, all were. *)
WalkSound ==
  request.list # None /\ request.list.key = None /\ ~walk.moved =>
    /\ \A t \in walk.steady : t \in Listed(tasks, request.list) /\ Dated(tasks, t)
    /\ request.pc \notin {"reopen", "requery"} =>
         \A t \in walk.steady :
           Cardinality(Ahead(tasks, request.list, t)) < Covered * PageSize => t \in walk.seen
    /\ \/ request.pc \in {"reopen", "requery"}
       \/ request.pc = "shown" /\ request.page >= request.pages
       => walk.steady \subseteq walk.seen

PagesInv == PagesShape /\ RetentionSound /\ WalkSound
-----------------------------------------------------------------------------
(* What ordering and slicing return. *)

StrictOrder(S, R) ==
  /\ \A a \in S : <<a, a>> \notin R
  /\ \A a, b \in S : a # b => <<a, b>> \in R \/ <<b, a>> \in R
  /\ \A a, b, c \in S : <<a, b>> \in R /\ <<b, c>> \in R => <<a, c>> \in R

Place(S, R, t) == Cardinality({u \in S : <<u, t>> \in R}) + 1

(* The places of the elements of a finite ordered set are the numbers up to its size. *)
LEMMA PlacesAll ==
  ASSUME NEW S, IsFiniteSet(S), NEW R, StrictOrder(S, R)
  PROVE  /\ Cardinality(S) \in Nat
         /\ \A t \in S : Place(S, R, t) \in 1 .. Cardinality(S)
         /\ \A t, u \in S : Place(S, R, t) = Place(S, R, u) => t = u
         /\ \A i \in 1 .. Cardinality(S) : \E t \in S : Place(S, R, t) = i
<1> DEFINE n == Cardinality(S)
           Before(t) == {u \in S : <<u, t>> \in R}
           f == [t \in S |-> Place(S, R, t)]
<1>1. n \in Nat
  BY FS_CardinalityType
<1>2. ASSUME NEW t \in S PROVE IsFiniteSet(Before(t)) /\ Cardinality(Before(t)) \in 0 .. n - 1
  <2>1. Before(t) \in SUBSET S /\ t \notin Before(t)
    BY DEF StrictOrder
  <2> HIDE DEF Before
  <2>2. /\ IsFiniteSet(Before(t)) /\ Cardinality(Before(t)) <= n
        /\ n = Cardinality(Before(t)) => S = Before(t)
    BY <2>1, FS_Subset
  <2>3. Cardinality(Before(t)) \in Nat
    BY <2>2, FS_CardinalityType
  <2>4. Cardinality(Before(t)) # n
    BY <2>1, <2>2
  <2> QED BY <1>1, <2>2, <2>3, <2>4
<1>3. ASSUME NEW t \in S PROVE Place(S, R, t) = Cardinality(Before(t)) + 1
  BY DEF Place
<1>4. ASSUME NEW t \in S, NEW u \in S, <<t, u>> \in R
      PROVE  Cardinality(Before(t)) < Cardinality(Before(u))
  <2>1. Before(t) \in SUBSET Before(u) /\ t \in Before(u) /\ t \notin Before(t)
    BY <1>4 DEF StrictOrder
  <2> HIDE DEF Before
  <2>2. /\ Cardinality(Before(t)) <= Cardinality(Before(u))
        /\ Cardinality(Before(u)) = Cardinality(Before(t)) => Before(u) = Before(t)
    BY <1>2, <2>1, FS_Subset
  <2> QED BY <1>2, <2>1, <2>2
<1> HIDE DEF Before
<1>5. \A t \in S : Place(S, R, t) \in 1 .. n
  BY <1>1, <1>2, <1>3
<1>6. \A t, u \in S : Place(S, R, t) = Place(S, R, u) => t = u
  <2> SUFFICES ASSUME NEW t \in S, NEW u \in S, Place(S, R, t) = Place(S, R, u), t # u
               PROVE  FALSE
    OBVIOUS
  <2>1. <<t, u>> \in R \/ <<u, t>> \in R
    BY DEF StrictOrder
  <2>2. /\ Cardinality(Before(t)) \in Int /\ Cardinality(Before(u)) \in Int
        /\ Cardinality(Before(t)) + 1 = Cardinality(Before(u)) + 1
    BY <1>2, <1>3
  <2> QED BY <1>4, <2>1, <2>2
<1>7. f \in Injection(S, 1 .. n)
  BY <1>5, <1>6 DEF Injection, IsInjective
<1>8. IsFiniteSet(1 .. n) /\ Cardinality(1 .. n) = n
  BY <1>1, FS_Interval
<1>9. f \in Surjection(S, 1 .. n)
  BY <1>7, <1>8, FS_Injection
<1>10. \A i \in 1 .. n : \E t \in S : f[t] = i
  BY <1>9, Zenon DEF Surjection
<1> QED BY <1>1, <1>5, <1>6, <1>10

LEMMA InOrderSorted ==
  ASSUME NEW S, IsFiniteSet(S), NEW R, StrictOrder(S, R)
  PROVE  /\ Cardinality(S) \in Nat
         /\ InOrder(S, R) \in [1 .. Cardinality(S) -> S]
         /\ \A t \in S : /\ Place(S, R, t) \in 1 .. Cardinality(S)
                         /\ InOrder(S, R)[Place(S, R, t)] = t
<1> DEFINE n == Cardinality(S)
           f == InOrder(S, R)
<1>1. f = [i \in 1 .. n |-> CHOOSE t \in S : Place(S, R, t) = i]
  BY DEF InOrder, Place
<1>2. \A i \in 1 .. n : f[i] \in S /\ Place(S, R, f[i]) = i
  BY <1>1, PlacesAll
<1> HIDE DEF f
<1>3. f \in [1 .. n -> S]
  BY <1>1, <1>2
<1>4. \A t \in S : Place(S, R, t) \in 1 .. n /\ f[Place(S, R, t)] = t
  BY <1>2, PlacesAll
<1> QED BY <1>3, <1>4, PlacesAll DEF f

(* A slice holds the elements at its places, and nothing else. *)
LEMMA SliceHas ==
  ASSUME NEW S, NEW n \in Nat, NEW seq \in [1 .. n -> S], NEW limit \in Nat, NEW offset \in Nat
  PROVE  /\ Slice(seq, limit, offset) \in Seq(S)
         /\ \A i \in 1 .. n : offset < i /\ i <= offset + limit =>
              seq[i] \in ToSet(Slice(seq, limit, offset))
<1> DEFINE last == IF offset + limit < n THEN offset + limit ELSE n
           span == SubSeq(seq, offset + 1, last)
<1>1. seq \in Seq(S) /\ Len(seq) = n
  OBVIOUS
<1>2. Slice(seq, limit, offset) = span
  BY <1>1 DEF Slice
<1>3. CASE offset > n
  <2>1. span = << >>
    BY <1>1, <1>3
  <2> QED BY <1>2, <1>3, <2>1
<1>4. CASE offset <= n
  <2>1. /\ span \in Seq(S) /\ Len(span) = last - offset
        /\ \A i \in 1 .. last - offset : span[i] = seq[offset + i]
    BY <1>1, <1>4, SubSeqProperties
  <2>2. last \in Nat
    OBVIOUS
  <2>3. \A i \in 1 .. n : offset < i /\ i <= offset + limit => i - offset \in 1 .. last - offset
    OBVIOUS
  <2> HIDE DEF span, last
  <2>4. DOMAIN span = 1 .. last - offset
    BY <2>1
  <2>5. ASSUME NEW i \in 1 .. n, offset < i, i <= offset + limit
        PROVE  seq[i] \in ToSet(span)
    <3>1. i - offset \in DOMAIN span
      BY <2>3, <2>4, <2>5
    <3>2. offset + (i - offset) = i
      OBVIOUS
    <3>3. span[i - offset] = seq[offset + (i - offset)]
      BY <2>1, <2>3, <2>5
    <3> QED BY <3>1, <3>2, <3>3 DEF ToSet
  <2> QED BY <1>2, <2>1, <2>5
<1> QED BY <1>3, <1>4

-----------------------------------------------------------------------------
(* The cut. *)

LEMMA FieldsTyped ==
  ASSUME NEW row \in TaskRow
  PROVE  /\ Age(row) \in Opt(Times) /\ Opt(Times) \subseteq Opt(Nat)
         /\ Collate[row.state] \in Nat
         /\ \A key : SortColumn(row, key) \in Opt(Nat)
<1>1. /\ row.received \in Opt(Times) /\ row.started \in Opt(Times)
      /\ row.finished \in Opt(Times) /\ row.state \in States /\ row.cols \in ColumnValues
  BY DEF TaskRow
<1>2. Age(row) \in Opt(Times)
  BY <1>1 DEF Age
<1>3. Opt(Times) \subseteq Opt(Nat)
  BY RecordAssumption DEF Opt, Times
<1>4. Collate[row.state] \in Nat
  BY <1>1, QueriesAssumption
<1>5. row.cols["info"] \in Opt(Values)
  BY <1>1 DEF ColumnValues
<1>6. Info(row, "worker") # None => Collate[Info(row, "worker")] \in Nat
  BY <1>5, QueriesAssumption DEF Info, Opt
<1>7. Info(row, "runtime") \in Opt(Nat)
  BY <1>5, QueriesAssumption DEF Info, Opt
<1>8. ASSUME NEW key PROVE SortColumn(row, key) \in Opt(Nat)
  <2>1. CASE key \notin SortColumns
    BY <1>2, <1>3, <2>1 DEF SortColumn, SortColumns
  <2>2. CASE key \in SortColumns
    BY <1>1, <1>3, <1>4, <1>6, <1>7, <2>2 DEF SortColumn, SortColumns, Opt
  <2> QED BY <2>1, <2>2
<1> QED BY <1>2, <1>3, <1>4, <1>8

(* An event leaves a row behind whose age is the event's time or the one before. *)
LEMMA AgeAfter ==
  ASSUME NEW row \in TaskRow \cup {NoRow}, NEW e \in TaskEvent
  PROVE  /\ TaskRowAfter(row, e) \in TaskRow
         /\ \/ Age(TaskRowAfter(row, e)) \in {e.ts, None}
            \/ row # NoRow /\ Age(TaskRowAfter(row, e)) = Age(row)
         /\ row # NoRow /\ Age(row) # None => Age(TaskRowAfter(row, e)) # None
<1> DEFINE old == IF row = NoRow THEN BlankRow ELSE row
           retries == MergeRetries(old.retries, e.retries)
           cols == [c \in Columns |-> IF e.cols[c] # None THEN e.cols[c] ELSE old.cols[c]]
           stamp(states, before) == IF e.state \in states THEN e.ts ELSE before
           next == [state |-> e.state, retries |-> retries, cols |-> cols,
                    received |-> stamp(WaitingStates, old.received),
                    started |-> stamp({"STARTED"}, old.started),
                    finished |-> stamp(FinalStates, old.finished)]
<1>1. /\ e.state \in States /\ e.ts \in Times /\ e.ts # None
      /\ e.retries \in Opt(Nat) /\ e.cols \in ColumnValues
  BY RecordAssumption DEF TaskEvent, Times
<1>2. /\ old.retries \in Opt(Nat) /\ old.cols \in ColumnValues
      /\ old.received \in Opt(Times) /\ old.started \in Opt(Times) /\ old.finished \in Opt(Times)
  <2>1. BlankRow.cols \in ColumnValues
    BY DEF BlankRow, ColumnValues, Columns, LinkKinds, Opt
  <2>2. CASE row = NoRow
    BY <2>1, <2>2 DEF BlankRow, Opt
  <2>3. CASE row # NoRow
    BY <2>3 DEF TaskRow
  <2> QED BY <2>2, <2>3
<1>3. retries \in Opt(Nat)
  BY <1>1, <1>2 DEF MergeRetries, Opt
<1>4. TaskRowAfter(row, e) = IF row # NoRow /\ ShouldPreserveState(row.state, e.state)
                             THEN [row EXCEPT !.retries = retries] ELSE next
  BY DEF TaskRowAfter
<1>5. CASE row # NoRow /\ ShouldPreserveState(row.state, e.state)
  <2>1. row \in TaskRow
    BY <1>5
  <2> HIDE DEF retries
  <2> QED BY <1>3, <1>4, <1>5, <2>1 DEF TaskRow, Age
<1>6. CASE ~ (row # NoRow /\ ShouldPreserveState(row.state, e.state))
  <2>1. cols \in ColumnValues
    BY <1>1, <1>2 DEF ColumnValues, Columns, LinkKinds
  <2>2. \A states : \A before \in Opt(Times) : stamp(states, before) \in Opt(Times)
    BY <1>1 DEF Opt
  <2>3. \A states, before : stamp(states, before) \in {e.ts, before}
    OBVIOUS
  <2>4. e.state \in FinalStates => stamp(FinalStates, old.finished) = e.ts
    OBVIOUS
  <2>5. /\ row = NoRow => old.received = None /\ old.started = None /\ old.finished = None
        /\ row # NoRow => old = row
    BY DEF BlankRow
  <2> HIDE DEF old, retries, cols, stamp
  <2>6. next \in TaskRow
    BY <1>1, <1>2, <1>3, <2>1, <2>2 DEF TaskRow
  <2> QED BY <1>1, <1>4, <1>6, <2>3, <2>5, <2>6 DEF Age
<1> QED BY <1>5, <1>6

-----------------------------------------------------------------------------
(* The lists. *)

RankBy(T, key, t) ==
  IF SortColumn(T[t], key) = None THEN -1 ELSE SortColumn(T[t], key)
PrecedesBy(T, key, dir, a, b) ==
  IF RankBy(T, key, a) = RankBy(T, key, b) THEN RowId[a] < RowId[b]
  ELSE IF dir = "asc" THEN RankBy(T, key, a) < RankBy(T, key, b)
  ELSE RankBy(T, key, a) > RankBy(T, key, b)
OrderRel(T, S, key, dir) == {p \in S \X S : PrecedesBy(T, key, dir, p[1], p[2])}

LEMMA RowedTyped ==
  ASSUME NEW T \in Table, NEW S \in SUBSET Rowed(T)
  PROVE  S \subseteq TaskIds /\ IsFiniteSet(S) /\ \A t \in S : T[t] \in TaskRow
<1>1. S \in SUBSET TaskIds /\ \A t \in S : T[t] \in TaskRow
  BY DEF Rowed, Table
<1> QED BY <1>1, FS_Subset, QueriesAssumption

(* ORDER BY with the order of the scan for equal keys is a strict order. *)
LEMMA OrderByStrict ==
  ASSUME NEW T \in Table, NEW S \in SUBSET Rowed(T), NEW key, NEW dir
  PROVE  /\ OrderBy(T, S, key, dir) = InOrder(S, OrderRel(T, S, key, dir))
         /\ StrictOrder(S, OrderRel(T, S, key, dir))
<1>1. OrderBy(T, S, key, dir) = InOrder(S, OrderRel(T, S, key, dir))
  BY DEF OrderBy, OrderRel, PrecedesBy, RankBy
<1>2. \A t \in S : RankBy(T, key, t) \in Int /\ RowId[t] \in Nat
  BY RowedTyped, FieldsTyped, QueriesAssumption DEF RankBy, Opt
<1>3. \A a, b \in S : RowId[a] = RowId[b] => a = b
  BY RowedTyped, QueriesAssumption DEF IsInjective
<1>4. \A a, b \in S : <<a, b>> \in OrderRel(T, S, key, dir) <=> PrecedesBy(T, key, dir, a, b)
  BY DEF OrderRel
<1>5. \A a \in S : ~PrecedesBy(T, key, dir, a, a)
  BY <1>2 DEF PrecedesBy
<1>6. \A a, b \in S : a # b => PrecedesBy(T, key, dir, a, b) \/ PrecedesBy(T, key, dir, b, a)
  BY <1>2, <1>3 DEF PrecedesBy
<1>7. \A a, b, c \in S : PrecedesBy(T, key, dir, a, b) /\ PrecedesBy(T, key, dir, b, c)
                          => PrecedesBy(T, key, dir, a, c)
  BY <1>2 DEF PrecedesBy
<1>8. StrictOrder(S, OrderRel(T, S, key, dir))
  BY <1>4, <1>5, <1>6, <1>7 DEF StrictOrder
<1> QED BY <1>1, <1>8

LEMMA OrderByTyped ==
  ASSUME NEW T \in Table, NEW S \in SUBSET Rowed(T), NEW key, NEW dir
  PROVE  /\ Cardinality(S) \in Nat
         /\ OrderBy(T, S, key, dir) \in [1 .. Cardinality(S) -> S]
         /\ \A t \in S : \E i \in 1 .. Cardinality(S) : OrderBy(T, S, key, dir)[i] = t
<1> DEFINE R == OrderRel(T, S, key, dir)
<1>1. OrderBy(T, S, key, dir) = InOrder(S, R) /\ StrictOrder(S, R)
  BY OrderByStrict
<1>2. IsFiniteSet(S)
  BY RowedTyped
<1> HIDE DEF R
<1>3. /\ Cardinality(S) \in Nat /\ InOrder(S, R) \in [1 .. Cardinality(S) -> S]
      /\ \A t \in S : /\ Place(S, R, t) \in 1 .. Cardinality(S)
                      /\ InOrder(S, R)[Place(S, R, t)] = t
  BY <1>1, <1>2, InOrderSorted
<1> QED BY <1>1, <1>3

(* Newest first, a task stands behind those that are newer. *)
LEMMA DefaultPlaces ==
  ASSUME NEW T \in Table, NEW S \in SUBSET Rowed(T), NEW dir, dir # "asc", NEW t \in S
  PROVE  LET k == Cardinality({u \in S : Newer(T, u, t)})
         IN  /\ k \in Nat /\ k + 1 \in 1 .. Cardinality(S)
             /\ OrderBy(T, S, None, dir)[k + 1] = t
<1> DEFINE R == OrderRel(T, S, None, dir)
<1>1. \A u \in S : SortColumn(T[u], None) = Age(T[u])
  BY QueriesAssumption DEF SortColumn, SortColumns
<1>2. \A u \in S : <<u, t>> \in R <=> Newer(T, u, t)
  BY <1>1 DEF OrderRel, PrecedesBy, RankBy, Newer, Rank
<1>3. Place(S, R, t) = Cardinality({u \in S : Newer(T, u, t)}) + 1
  <2>1. {u \in S : <<u, t>> \in R} = {u \in S : Newer(T, u, t)}
    BY <1>2
  <2> QED BY <2>1 DEF Place
<1>4. IsFiniteSet({u \in S : Newer(T, u, t)})
  BY RowedTyped, FS_Subset
<1>5. Cardinality({u \in S : Newer(T, u, t)}) \in Nat
  BY <1>4, FS_CardinalityType
<1> HIDE DEF R
<1>6. StrictOrder(S, R) /\ OrderBy(T, S, None, dir) = InOrder(S, R)
  BY OrderByStrict DEF R
<1>7. Place(S, R, t) \in 1 .. Cardinality(S) /\ InOrder(S, R)[Place(S, R, t)] = t
  BY <1>6, InOrderSorted, RowedTyped
<1> QED BY <1>3, <1>5, <1>6, <1>7

(* Sorting the full result of a query in memory keeps its tasks. *)
LEMMA SortTasksTyped ==
  ASSUME NEW T \in Table, NEW S \in SUBSET Rowed(T), NEW n \in Nat, NEW seq \in [1 .. n -> S],
         \A t \in S : \E i \in 1 .. n : seq[i] = t, NEW key, NEW dir
  PROVE  SortTasks(T, seq, key, dir) \in [1 .. Cardinality(S) -> S] /\ Cardinality(S) \in Nat
<1> DEFINE value(t) == SortColumn(T[t], key)
           place == [t \in S |-> CHOOSE i \in 1 .. n : seq[i] = t]
           before(a, b) ==
             IF value(a) = value(b) THEN place[a] < place[b]
             ELSE IF value(a) = None \/ value(b) = None THEN value(b) = None
             ELSE IF dir = "desc" THEN value(a) > value(b) ELSE value(a) < value(b)
           R == {p \in S \X S : before(p[1], p[2])}
<1>1. ToSet(seq) = S /\ DOMAIN seq = 1 .. n
  BY DEF ToSet
<1>2. SortTasks(T, seq, key, dir) = InOrder(S, R)
  BY <1>1 DEF SortTasks
<1>3. \A t \in S : place[t] \in Nat /\ seq[place[t]] = t
  OBVIOUS
<1>4. \A t \in S : value(t) \in Opt(Nat)
  BY RowedTyped, FieldsTyped
<1>5. None \notin Nat
  BY RecordAssumption
<1> HIDE DEF value, place
<1>6. \A a \in S : ~before(a, a)
  BY <1>3
<1>7. \A a, b \in S : a # b => before(a, b) \/ before(b, a)
  BY <1>3, <1>4, <1>5 DEF Opt
<1>8. \A a, b, c \in S : before(a, b) /\ before(b, c) => before(a, c)
  BY <1>3, <1>4, <1>5 DEF Opt
<1>9. \A a, b \in S : <<a, b>> \in R <=> before(a, b)
  OBVIOUS
<1> HIDE DEF R, before
<1>10. StrictOrder(S, R)
  BY <1>6, <1>7, <1>8, <1>9 DEF StrictOrder
<1> QED BY <1>2, <1>10, InOrderSorted, RowedTyped

LEMMA ListedRowed ==
  ASSUME NEW T, NEW list
  PROVE  Listed(T, list) \in SUBSET Rowed(T) /\ Matching(T, Selection(list)) \in SUBSET Rowed(T)
  BY DEF Listed, Matching

(* A task is listed by its own row. *)
LEMMA ListedByRow ==
  ASSUME NEW T, NEW U, NEW list, NEW t, T[t] = U[t]
  PROVE  t \in Listed(T, list) <=> t \in Listed(U, list)
  BY DEF Listed, Matching, Rowed

(* Unless several states are asked for, the query selects the list. *)
LEMMA ListedIsMatching ==
  ASSUME NEW T, NEW list, ~(Cardinality(list.states) > 1)
  PROVE  Matching(T, Selection(list)) = Listed(T, list)
  BY DEF Listed

LEMMA TotalPagesEnough ==
  ASSUME NEW count \in Nat
  PROVE  TotalPages(count) \in Nat \ {0} /\ count <= TotalPages(count) * PageSize
<1>1. PageSize \in Nat \ {0}
  BY PagesAssumption
<1>2. CASE count = 0
  BY <1>1, <1>2 DEF TotalPages
<1>3. CASE count # 0
  <2> DEFINE m == (count + PageSize - 1) \div PageSize
  <2>1. m \in Int /\ m * PageSize <= count + PageSize - 1 /\ count + PageSize - 1 < (m + 1) * PageSize
    BY <1>1
  <2>2. (m + 1) * PageSize = m * PageSize + PageSize
    BY <1>1, <2>1
  <2>3. count <= m * PageSize /\ m >= 1
    BY <1>1, <1>3, <2>1, <2>2
  <2> QED BY <1>3, <2>1, <2>3 DEF TotalPages
<1> QED BY <1>2, <1>3

(* A page, as it is cut: its cut are tasks of the list. *)
LEMMA PageSlice ==
  ASSUME NEW S \in SUBSET TaskIds, NEW n \in Nat, NEW seq \in [1 .. n -> S], NEW page \in Nat \ {0}
  PROVE  /\ Slice(seq, PageSize, (page - 1) * PageSize) \in Seq(TaskIds)
         /\ \A i \in 1 .. n : (page - 1) * PageSize < i /\ i <= page * PageSize
              => seq[i] \in ToSet(Slice(seq, PageSize, (page - 1) * PageSize))
<1> DEFINE offset == (page - 1) * PageSize
<1>1. PageSize \in Nat \ {0}
  BY PagesAssumption
<1>2. offset \in Nat /\ offset + PageSize = page * PageSize
  BY <1>1
<1> HIDE DEF offset
<1>3. seq \in [1 .. n -> TaskIds]
  OBVIOUS
<1>4. /\ Slice(seq, PageSize, offset) \in Seq(TaskIds)
      /\ \A i \in 1 .. n : offset < i /\ i <= offset + PageSize
              => seq[i] \in ToSet(Slice(seq, PageSize, offset))
  BY <1>1, <1>2, <1>3, SliceHas
<1> QED BY <1>2, <1>4 DEF offset

(* What the two kinds of query show: tasks; and, newest first, those whose place is
   on the page. *)
OnPage(T, list, page, t) ==
  LET k == Cardinality(Ahead(T, list, t))
  IN  (page - 1) * PageSize <= k /\ k < page * PageSize

LEMMA PlaceOnPage ==
  ASSUME NEW T \in Table, NEW list, NEW dir, dir # "asc", NEW page \in Nat \ {0},
         NEW t \in Listed(T, list), OnPage(T, list, page, t)
  PROVE  t \in ToSet(Slice(OrderBy(T, Listed(T, list), None, dir), PageSize, (page - 1) * PageSize))
<1> DEFINE S == Listed(T, list)
           seq == OrderBy(T, S, None, dir)
           k == Cardinality(Ahead(T, list, t))
<1>1. S \in SUBSET Rowed(T)
  BY ListedRowed
<1>2. /\ k \in Nat /\ k + 1 \in 1 .. Cardinality(S) /\ seq[k + 1] = t
  BY <1>1, DefaultPlaces DEF Ahead
<1>3. Cardinality(S) \in Nat /\ seq \in [1 .. Cardinality(S) -> S] /\ S \in SUBSET TaskIds
  BY <1>1, OrderByTyped, RowedTyped
<1>4. PageSize \in Nat \ {0} /\ (page - 1) * PageSize \in Int /\ page * PageSize \in Int
  BY PagesAssumption
<1>5. (page - 1) * PageSize < k + 1 /\ k + 1 <= page * PageSize
  BY <1>2, <1>4 DEF OnPage
<1> HIDE DEF S, seq, k
<1>6. seq[k + 1] \in ToSet(Slice(seq, PageSize, (page - 1) * PageSize))
  BY <1>2, <1>3, <1>5, PageSlice
<1> QED BY <1>2, <1>6 DEF S, seq

(* Every task of the list has a place within the pages of the list. *)
LEMMA PlaceWithin ==
  ASSUME NEW T \in Table, NEW list, NEW t \in Listed(T, list)
  PROVE  /\ Cardinality(Listed(T, list)) \in Nat
         /\ Cardinality(Ahead(T, list, t)) \in Nat
         /\ Cardinality(Ahead(T, list, t)) <
              TotalPages(Cardinality(Listed(T, list))) * PageSize
<1>1. Listed(T, list) \in SUBSET Rowed(T)
  BY ListedRowed
<1> DEFINE S == Listed(T, list)
<1>2. S \in SUBSET Rowed(T) /\ t \in S /\ Ahead(T, list, t) = {u \in S : Newer(T, u, t)}
  BY <1>1 DEF Ahead
<1> HIDE DEF S
<1>3. /\ Cardinality(Ahead(T, list, t)) \in Nat
      /\ Cardinality(Ahead(T, list, t)) + 1 \in 1 .. Cardinality(Listed(T, list))
  <2>1. \E dir : dir # "asc"
    <3>1. "desc" # "asc"
      OBVIOUS
    <3> WITNESS "desc"
    <3> QED BY <3>1
  <2>2. PICK dir : dir # "asc"
    BY <2>1
  <2>3. LET k == Cardinality({u \in S : Newer(T, u, t)})
        IN  k \in Nat /\ k + 1 \in 1 .. Cardinality(S)
    BY <1>2, <2>2, DefaultPlaces
  <2> QED BY <1>2, <2>3 DEF S
<1>4. Cardinality(Listed(T, list)) \in Nat
  BY <1>1, OrderByTyped
<1>5. TotalPages(Cardinality(Listed(T, list))) * PageSize \in Int
  BY <1>4, TotalPagesEnough, PagesAssumption
<1> QED BY <1>3, <1>4, <1>5, TotalPagesEnough

-----------------------------------------------------------------------------
(* The steps. *)

LEMMA Numbers ==
  /\ PageSize \in Nat \ {0} /\ Retention \in Nat \ {0} /\ CleanupInterval \in Nat \ {0}
  /\ MaxDelay \in Nat /\ MaxDelay <= Retention /\ Times \subseteq Nat /\ None \notin Nat
  BY PagesAssumption, RecordAssumption DEF Times

LEMMA DatedAge ==
  ASSUME NEW T \in Table, NEW t \in TaskIds
  PROVE  /\ T[t] # NoRow => Rank(T, t) \in Int
         /\ Dated(T, t) => Age(T[t]) \in Nat /\ Rank(T, t) = Age(T[t])
<1>1. T[t] # NoRow => Age(T[t]) \in Opt(Times)
  BY FieldsTyped DEF Table
<1>2. T[t] # NoRow /\ Age(T[t]) # None => Age(T[t]) \in Nat
  BY <1>1, Numbers DEF Opt
<1>3. -1 \in Int /\ Nat \subseteq Int
  OBVIOUS
<1> QED BY <1>2, <1>3 DEF Dated, Rank

(* Ahead of a task that stays as it is, no task goes away. *)
LEMMA AheadGrows ==
  ASSUME NEW T \in Table, NEW U \in Table, NEW list, NEW t \in TaskIds,
         Ahead(T, list, t) \subseteq Ahead(U, list, t),
         NEW n \in Int, Cardinality(Ahead(U, list, t)) < n
  PROVE  Cardinality(Ahead(T, list, t)) < n
<1>1. Listed(U, list) \in SUBSET Rowed(U) /\ Listed(T, list) \in SUBSET Rowed(T)
  BY ListedRowed
<1>2. IsFiniteSet(Listed(U, list))
  BY <1>1, RowedTyped
<1>3. Ahead(U, list, t) \in SUBSET Listed(U, list)
  BY DEF Ahead
<1>4. IsFiniteSet(Ahead(U, list, t))
  BY <1>2, <1>3, FS_Subset
<1>5. /\ IsFiniteSet(Ahead(T, list, t))
      /\ Cardinality(Ahead(T, list, t)) <= Cardinality(Ahead(U, list, t))
  BY <1>4, FS_Subset
<1>6. Cardinality(Ahead(T, list, t)) \in Nat /\ Cardinality(Ahead(U, list, t)) \in Nat
  BY <1>4, <1>5, FS_CardinalityType
<1> QED BY <1>5, <1>6

(* The table after an event: ages are kept or are the event's, and a task of the
   list that does not slide keeps its lead. *)
Stored(T, e) == [T EXCEPT ![e.task] = TaskRowAfter(T[e.task], e)]

LEMMA EventStored ==
  ASSUME NEW T \in Table, NEW e \in TaskEvent
  PROVE  /\ Stored(T, e) \in Table
         /\ \A t \in TaskIds : t # e.task => Stored(T, e)[t] = T[t]
         /\ \A time \in Int : Fresh(T, time) /\ e.ts >= time => Fresh(Stored(T, e), time)
         /\ Dated(T, e.task) => Age(Stored(T, e)[e.task]) # None
<1> DEFINE s == e.task
           U == Stored(T, e)
           row == TaskRowAfter(T[s], e)
<1>1. s \in TaskIds /\ T[s] \in TaskRow \cup {NoRow}
  BY DEF TaskEvent, Table
<1>2. /\ row \in TaskRow
      /\ \/ Age(row) \in {e.ts, None}
         \/ T[s] # NoRow /\ Age(row) = Age(T[s])
      /\ T[s] # NoRow /\ Age(T[s]) # None => Age(row) # None
  BY <1>1, AgeAfter
<1> HIDE DEF row
<1>3. U[s] = row /\ \A t \in TaskIds : t # s => U[t] = T[t]
  BY <1>1 DEF Table, Stored, row
<1>4. U \in Table
  BY <1>1, <1>2 DEF Table, Stored, row
<1> HIDE DEF U
<1>5. ASSUME NEW time \in Int, Fresh(T, time), e.ts >= time PROVE Fresh(U, time)
  BY <1>1, <1>2, <1>3, <1>5 DEF Fresh, Dated
<1> QED BY <1>2, <1>3, <1>4, <1>5 DEF Dated, U

LEMMA StoreEventInv ==
  ASSUME PagesInv, NEW e \in Incoming, NEW ts \in {now - MaxDelay, now} \cap Times,
         StoreEvent(e, ts)
  PROVE  PagesInv'
<1> DEFINE event == [e EXCEPT !.ts = ts]
           s == e.task
           list == request.list
<1>1. /\ tasks \in Table /\ now \in Nat /\ request \in Requests /\ walk \in Walks
      /\ lastCleanup # None => lastCleanup \in 0 .. now
      /\ request.at \in Nat
  BY Numbers DEF PagesInv, PagesShape, Requests
<1>2. event \in TaskEvent /\ event.task = s /\ event.ts = ts /\ s \in TaskIds
  BY PagesAssumption DEF TaskEvent
<1>3. /\ tasks' = [tasks EXCEPT ![s] = TaskRowAfter(tasks[s], event)]
      /\ walk' = [walk EXCEPT !.steady = @ \ {s}, !.moved = @ \/ Slides(s, TaskRowAfter(tasks[s], event))]
      /\ UNCHANGED <<now, lastCleanup, cleanupFailed, request>>
  BY DEF StoreEvent
<1> HIDE DEF event
<1>4. /\ tasks' \in Table
      /\ \A t \in TaskIds : t # s => tasks'[t] = tasks[t]
      /\ \A time \in Int : Fresh(tasks, time) /\ ts >= time => Fresh(tasks', time)
      /\ Dated(tasks, s) => Age(tasks'[s]) # None
  <2>1. tasks' = Stored(tasks, event)
    BY <1>2, <1>3 DEF Stored
  <2>2. /\ tasks' \in Table
        /\ \A t \in TaskIds : t # event.task => tasks'[t] = tasks[t]
        /\ \A time \in Int : Fresh(tasks, time) /\ event.ts >= time => Fresh(tasks', time)
        /\ Dated(tasks, event.task) => Age(tasks'[event.task]) # None
    BY <1>1, <1>2, <2>1, EventStored
  <2> QED BY <1>2, <2>2
<1>5. ts \in Int /\ ts >= now - Retention
  BY <1>1, Numbers
<1>6. /\ walk' \in Walks /\ walk'.steady = walk.steady \ {s} /\ walk'.seen = walk.seen
      /\ ~walk'.moved => ~walk.moved /\ ~Slides(s, tasks'[s])
  <2>1. tasks'[s] = TaskRowAfter(tasks[s], event)
    BY <1>1, <1>2, <1>3 DEF Table
  <2>2. Slides(s, TaskRowAfter(tasks[s], event)) \in BOOLEAN
    BY DEF Slides
  <2> QED BY <1>1, <1>3, <2>1, <2>2 DEF Walks
<1>7. PagesShape'
  BY <1>1, <1>3, <1>4, <1>6 DEF PagesInv, PagesShape
<1>8. RetentionSound'
  <2>1. lastCleanup # None => lastCleanup - Retention \in Int /\ ts >= lastCleanup - Retention
    BY <1>1, <1>5, Numbers
  <2>2. request.pc \in {"query", "reopen", "requery", "shown"} =>
           /\ request.at - Retention - CleanupInterval + 1 \in Int
           /\ ts >= request.at - Retention - CleanupInterval + 1
    <3>1. request.pc \in {"query", "reopen", "requery", "shown"} => request.at <= now
      BY <1>1 DEF PagesInv, RetentionSound
    <3> QED BY <1>1, <1>5, <3>1, Numbers
  <2> QED BY <1>3, <1>4, <2>1, <2>2 DEF PagesInv, RetentionSound
<1>9. WalkSound'
  <2> SUFFICES ASSUME list # None, list.key = None, ~walk'.moved PROVE WalkSound'
    BY <1>3 DEF WalkSound
  <2>1. /\ ~walk.moved
        /\ \A t \in walk.steady : t \in Listed(tasks, list) /\ Dated(tasks, t)
        /\ request.pc \notin {"reopen", "requery"} =>
             \A t \in walk.steady :
               Cardinality(Ahead(tasks, list, t)) < Covered * PageSize => t \in walk.seen
        /\ \/ request.pc \in {"reopen", "requery"}
           \/ request.pc = "shown" /\ request.page >= request.pages
           => walk.steady \subseteq walk.seen
    BY <1>6 DEF PagesInv, WalkSound
  <2>2. s \in Listed(tasks, list) =>
          /\ s \in Listed(tasks', list)
          /\ Age(tasks[s]) = None \/ ~(Age(tasks'[s]) < Age(tasks[s]))
    <3>1. tasks' = [tasks EXCEPT ![s] = tasks'[s]]
      BY <1>1, <1>2, <1>3, <1>4 DEF Table
    <3> QED BY <1>6, <3>1 DEF Slides
  <2>3. ASSUME NEW t \in walk'.steady
        PROVE  /\ t \in walk.steady /\ t # s /\ t \in TaskIds
               /\ t \in Listed(tasks', list) /\ Dated(tasks', t)
               /\ Ahead(tasks, list, t) \subseteq Ahead(tasks', list, t)
    <3>1. t \in walk.steady /\ t # s /\ t \in TaskIds
      BY <1>1, <1>6 DEF Walks
    <3>2. tasks'[t] = tasks[t] /\ t \in Listed(tasks', list) /\ Dated(tasks', t)
      BY <1>4, <2>1, <3>1, ListedByRow DEF Dated
    <3>3. ASSUME NEW u \in Ahead(tasks, list, t) PROVE u \in Ahead(tasks', list, t)
      <4>1. u \in Listed(tasks, list) /\ Newer(tasks, u, t)
        BY DEF Ahead
      <4>2. u \in TaskIds /\ tasks[u] # NoRow
        BY <4>1, ListedRowed DEF Rowed
      <4>3. CASE u # s
        <5>1. tasks'[u] = tasks[u]
          BY <1>4, <4>2, <4>3
        <5> QED BY <3>2, <4>1, <5>1, ListedByRow DEF Ahead, Newer, Rank
      <4>4. CASE u = s
        <5>1. u \in Listed(tasks', list) /\ tasks'[u] # NoRow
          BY <2>2, <4>1, <4>4, ListedRowed DEF Rowed
        <5>2. Rank(tasks, t) \in Nat /\ Rank(tasks', t) = Rank(tasks, t)
          BY <1>1, <2>1, <3>1, <3>2, DatedAge DEF Rank
        <5>3. Dated(tasks, u)
          BY <4>1, <4>2, <5>2 DEF Dated, Newer, Rank
        <5>4. Dated(tasks', u)
          BY <1>4, <4>4, <5>1, <5>3 DEF Dated
        <5>5. /\ Rank(tasks, u) \in Nat /\ Rank(tasks', u) \in Nat
              /\ Rank(tasks, u) = Age(tasks[u]) /\ Rank(tasks', u) = Age(tasks'[u])
          BY <1>1, <1>4, <4>2, <5>3, <5>4, DatedAge
        <5>6. Rank(tasks', u) >= Rank(tasks, u)
          BY <2>2, <4>1, <4>4, <5>3, <5>5 DEF Dated
        <5>7. Newer(tasks', u, t)
          BY <4>1, <5>2, <5>5, <5>6 DEF Newer
        <5> QED BY <5>1, <5>7 DEF Ahead
      <4> QED BY <4>3, <4>4
    <3> QED BY <3>1, <3>2, <3>3
  <2>4. Covered * PageSize \in Int /\ Covered' = Covered
    BY <1>1, <1>3, Numbers DEF Covered, Requests
  <2>5. ASSUME NEW t \in walk'.steady, request.pc \notin {"reopen", "requery"},
               Cardinality(Ahead(tasks', list, t)) < Covered * PageSize
        PROVE  t \in walk'.seen
    BY <1>1, <1>4, <1>6, <2>1, <2>3, <2>4, <2>5, AheadGrows
  <2> QED BY <1>3, <1>6, <2>1, <2>3, <2>4, <2>5 DEF WalkSound
<1> QED BY <1>7, <1>8, <1>9 DEF PagesInv

(* The cleanup takes away dated cut older than the cutoff, and no other. *)
LEMMA CleanedUp ==
  ASSUME NEW T \in Table, NEW cutoff \in Int
  PROVE  /\ Cleaned(T, cutoff) \in Table /\ Fresh(Cleaned(T, cutoff), cutoff)
         /\ \A t \in TaskIds : \/ Cleaned(T, cutoff)[t] = T[t]
                               \/ /\ Cleaned(T, cutoff)[t] = NoRow
                                  /\ Dated(T, t) /\ Age(T[t]) < cutoff
<1> DEFINE U == Cleaned(T, cutoff)
<1>1. /\ \A t \in TaskIds : U[t] = IF Dated(T, t) /\ Age(T[t]) < cutoff THEN NoRow ELSE T[t]
      /\ U = [t \in TaskIds |-> U[t]]
  BY DEF Cleaned, Dated
<1> HIDE DEF U
<1>2. U \in Table
  BY <1>1 DEF Table
<1>3. ASSUME NEW t \in TaskIds, Dated(U, t) PROVE Age(U[t]) >= cutoff
  <2>1. U[t] = T[t] /\ Dated(T, t) /\ ~(Age(T[t]) < cutoff)
    BY <1>1, <1>3 DEF Dated
  <2> QED BY <2>1, DatedAge
<1> QED BY <1>1, <1>2, <1>3 DEF Fresh, U

LEMMA OpenListInv ==
  ASSUME PagesInv, NEW list \in Lists, OpenList(list)
  PROVE  PagesInv'
<1>1. /\ tasks \in Table /\ now \in Times /\ request \in Requests /\ walk \in Walks
      /\ lastCleanup # None => lastCleanup \in 0 .. now
      /\ None \notin Lists /\ list # None
  BY PagesAssumption DEF PagesInv, PagesShape
<1>2. /\ request' = [pc |-> "open", list |-> list, page |-> 1, pages |-> 1, rows |-> <<>>, at |-> now]
      /\ walk' = [seen |-> {}, moved |-> FALSE,
                  steady |-> {t \in Listed(tasks, list) : Age(tasks[t]) # None}]
      /\ UNCHANGED <<tasks, now, lastCleanup, cleanupFailed>>
  BY DEF OpenList, NoRequest
<1>3. request' \in Requests
  BY <1>1, <1>2 DEF Requests, Opt
<1>4. walk'.steady \subseteq TaskIds /\ \A t \in walk'.steady : t \in Listed(tasks, list) /\ Dated(tasks, t)
  BY <1>1, <1>2, ListedRowed DEF Rowed, Dated
<1>5. PagesShape'
  BY <1>1, <1>2, <1>3, <1>4 DEF PagesInv, PagesShape, Walks
<1>6. RetentionSound'
  BY <1>2 DEF PagesInv, RetentionSound
<1>7. WalkSound'
  <2>1. (Covered * PageSize)' = 0
    BY <1>2, Numbers DEF Covered
  <2>2. ASSUME NEW t \in walk'.steady PROVE ~(Cardinality(Ahead(tasks, list, t)) < 0)
    BY <1>1, <1>4, PlaceWithin
  <2> QED BY <1>2, <1>4, <2>1, <2>2 DEF WalkSound
<1> QED BY <1>5, <1>6, <1>7 DEF PagesInv

LEMMA FollowNextInv ==
  ASSUME PagesInv, FollowNext
  PROVE  PagesInv'
<1>1. /\ now \in Times /\ request \in Requests
      /\ request.list # None
  BY DEF PagesInv, PagesShape, FollowNext
<1>2. /\ request.pc = "shown"
      /\ request' = [request EXCEPT !.pc = "open", !.page = request.page + 1, !.at = now]
      /\ UNCHANGED <<tasks, now, lastCleanup, cleanupFailed, walk>>
  BY DEF FollowNext
<1>3. /\ request' \in Requests /\ request'.pc = "open" /\ request'.at = now
      /\ request'.list = request.list /\ request'.page = request.page + 1
  <2>1. request.page + 1 \in Nat \ {0}
    BY <1>1 DEF Requests
  <2> QED BY <1>1, <1>2, <2>1 DEF Requests
<1>4. PagesShape'
  BY <1>1, <1>2, <1>3 DEF PagesInv, PagesShape
<1>5. RetentionSound'
  BY <1>2, <1>3 DEF PagesInv, RetentionSound
<1>6. Covered' = Covered
  BY <1>1, <1>2, <1>3 DEF Covered, Requests
<1>7. WalkSound'
  BY <1>2, <1>3, <1>6 DEF PagesInv, WalkSound
<1> QED BY <1>4, <1>5, <1>7 DEF PagesInv

(* A step that leaves the request and the table as they are, or sends the user to
   an error page. *)
LEMMA FailedInv ==
  ASSUME PagesInv, Failed, UNCHANGED <<tasks, now>>,
         \/ lastCleanup' \in {lastCleanup, None} /\ UNCHANGED cleanupFailed
         \/ lastCleanup' = now /\ cleanupFailed' = TRUE
  PROVE  PagesInv'
<1>1. /\ request' = [pc |-> "failed", list |-> None, page |-> 1, pages |-> 1, rows |-> <<>>, at |-> 0]
      /\ walk' = [seen |-> {}, steady |-> {}, moved |-> FALSE]
  BY DEF Failed, NoRequest, NoWalk
<1>2. 0 \in Times
  BY RecordAssumption DEF Times
<1>3. request' \in Requests /\ walk' \in Walks
  BY <1>1, <1>2 DEF Requests, Walks, Opt
<1>4. PagesShape'
  <2>1. now \in 0 .. now
    BY Numbers DEF PagesInv, PagesShape
  <2> QED BY <1>1, <1>3, <2>1 DEF PagesInv, PagesShape
<1>5. RetentionSound' /\ WalkSound'
  BY <1>1 DEF PagesInv, RetentionSound, WalkSound
<1> QED BY <1>4, <1>5 DEF PagesInv

LEMMA RestInv ==
  ASSUME PagesInv, UNCHANGED <<tasks, request, walk, cleanupFailed>>,
         \/ lastCleanup' \in {lastCleanup, None} /\ UNCHANGED now
         \/ UNCHANGED lastCleanup /\ now' = now + 1 /\ now < MaxTime
             /\ request.pc \in {"idle", "shown", "failed"}
  PROVE  PagesInv'
<1>1. now \in Nat /\ now' \in Times /\ now <= now'
  BY RecordAssumption DEF PagesInv, PagesShape, Times
<1>2. lastCleanup' # None => lastCleanup' = lastCleanup /\ lastCleanup \in 0 .. now'
  BY <1>1, Numbers DEF PagesInv, PagesShape
<1>3. PagesShape'
  BY <1>1, <1>2 DEF PagesInv, PagesShape
<1>4. request.at \in Nat
  BY Numbers DEF PagesInv, PagesShape, Requests
<1>5. RetentionSound'
  BY <1>1, <1>2, <1>4 DEF PagesInv, RetentionSound
<1>6. WalkSound'
  BY DEF PagesInv, WalkSound, Covered
<1> QED BY <1>3, <1>5, <1>6 DEF PagesInv

LEMMA OpenDbInv ==
  ASSUME PagesInv, OpenDb
  PROVE  PagesInv'
<1>1. /\ tasks \in Table /\ now \in Nat /\ request \in Requests /\ walk \in Walks
      /\ lastCleanup # None => lastCleanup \in 0 .. now
      /\ cleanupFailed \in BOOLEAN
  BY Numbers DEF PagesInv, PagesShape
<1>2. request.pc \in {"open", "reopen"} /\ request.at = now /\ request.list # None
  BY DEF OpenDb, Opening, PagesInv, PagesShape, RetentionSound
<1> DEFINE list == request.list
           next == [request EXCEPT !.pc = Opening[@]]
<1>3. /\ next \in Requests /\ next.list = list /\ next.at = now
      /\ next.page = request.page /\ next.pages = request.pages
      /\ next.pc = IF request.pc = "open" THEN "query" ELSE "requery"
  BY <1>1, <1>2 DEF Opening, Requests
<1> HIDE DEF next
<1>4. \A T : \A b, c \in Int : T \in Table /\ c <= b /\ Fresh(T, b) => Fresh(T, c)
  BY DatedAge DEF Fresh
<1>5. now - Retention - CleanupInterval + 1 \in Int /\ now - Retention \in Int
  BY <1>1, Numbers
<1>6. CASE ~ShouldCleanup
  <2>1. /\ lastCleanup # None /\ ~(now - lastCleanup >= CleanupInterval)
        /\ request' = next /\ UNCHANGED <<tasks, now, lastCleanup, cleanupFailed, walk>>
    BY <1>6 DEF OpenDb, ShouldCleanup, next
  <2>2. PagesShape'
    BY <1>2, <1>3, <2>1 DEF PagesInv, PagesShape
  <2>3. ~cleanupFailed => Fresh(tasks, now - Retention - CleanupInterval + 1)
    <3>1. /\ lastCleanup - Retention \in Int
          /\ now - Retention - CleanupInterval + 1 <= lastCleanup - Retention
      BY <1>1, <2>1, Numbers
    <3> QED BY <1>1, <1>4, <1>5, <2>1, <3>1 DEF PagesInv, RetentionSound
  <2>4. RetentionSound'
    BY <1>3, <2>1, <2>3 DEF PagesInv, RetentionSound
  <2>5. WalkSound'
    BY <1>2, <1>3, <2>1 DEF PagesInv, WalkSound, Covered
  <2> QED BY <2>2, <2>4, <2>5 DEF PagesInv
<1>7. CASE ShouldCleanup /\ tasks' = Cleaned(tasks, now - Retention) /\ cleanupFailed' = FALSE
           /\ walk' = [walk EXCEPT !.steady = {t \in @ : tasks'[t] # NoRow}]
           /\ request' = next
  <2>1. /\ lastCleanup' = now /\ UNCHANGED now
    BY <1>7 DEF OpenDb
  <2>2. /\ tasks' \in Table /\ Fresh(tasks', now - Retention)
        /\ \A t \in TaskIds : \/ tasks'[t] = tasks[t]
                              \/ /\ tasks'[t] = NoRow
                                 /\ Dated(tasks, t) /\ Age(tasks[t]) < now - Retention
    BY <1>1, <1>5, <1>7, CleanedUp
  <2>3. /\ walk' \in Walks /\ walk'.steady = {t \in walk.steady : tasks'[t] # NoRow}
        /\ walk'.seen = walk.seen /\ walk'.moved = walk.moved
    BY <1>1, <1>7 DEF Walks
  <2>4. PagesShape'
    <3>1. lastCleanup' \in 0 .. now' /\ cleanupFailed' \in BOOLEAN
      <4>1. now \in 0 .. now
        BY <1>1
      <4>2. cleanupFailed' \in BOOLEAN
        BY <1>7
      <4> QED BY <2>1, <4>1, <4>2
    <3>2. request' \in Requests /\ request'.list = list /\ request'.pc \notin {"idle", "failed"}
      BY <1>3, <1>7
    <3>3. now' \in Times
      BY <2>1 DEF PagesInv, PagesShape
    <3> QED BY <1>2, <2>2, <2>3, <3>1, <3>2, <3>3 DEF PagesShape
  <2>5. RetentionSound'
    <3>1. now - Retention - CleanupInterval + 1 <= now - Retention
      BY <1>1, Numbers
    <3>2. Fresh(tasks', now - Retention - CleanupInterval + 1)
      BY <1>4, <1>5, <2>2, <3>1
    <3> QED BY <1>3, <1>7, <2>1, <2>2, <3>2 DEF RetentionSound
  <2>6. WalkSound'
    <3> SUFFICES ASSUME list # None, list.key = None, ~walk.moved PROVE WalkSound'
      BY <1>3, <1>7, <2>3 DEF WalkSound
    <3>1. /\ \A t \in walk.steady : t \in Listed(tasks, list) /\ Dated(tasks, t)
          /\ request.pc \notin {"reopen", "requery"} =>
               \A t \in walk.steady :
                 Cardinality(Ahead(tasks, list, t)) < Covered * PageSize => t \in walk.seen
          /\ request.pc = "reopen" => walk.steady \subseteq walk.seen
      BY DEF PagesInv, WalkSound
    <3>2. ASSUME NEW t \in walk'.steady
          PROVE  /\ t \in walk.steady /\ t \in TaskIds
                 /\ t \in Listed(tasks', list) /\ Dated(tasks', t)
                 /\ Ahead(tasks, list, t) \subseteq Ahead(tasks', list, t)
      <4>1. t \in walk.steady /\ t \in TaskIds /\ tasks'[t] = tasks[t]
        BY <1>1, <2>2, <2>3 DEF Walks
      <4>2. t \in Listed(tasks', list) /\ Dated(tasks', t)
        BY <3>1, <4>1, ListedByRow DEF Dated
      <4>3. /\ Age(tasks[t]) \in Nat /\ Age(tasks[t]) >= now - Retention
            /\ Rank(tasks, t) = Age(tasks[t]) /\ Rank(tasks', t) = Rank(tasks, t)
        BY <1>1, <2>2, <3>1, <4>1, <4>2, DatedAge DEF Fresh, Rank
      <4>4. ASSUME NEW u \in Ahead(tasks, list, t) PROVE u \in Ahead(tasks', list, t)
        <5>1. u \in Listed(tasks, list) /\ Newer(tasks, u, t) /\ u \in TaskIds /\ tasks[u] # NoRow
          BY ListedRowed DEF Ahead, Rowed
        <5>2. ~(Dated(tasks, u) /\ Age(tasks[u]) < now - Retention)
          <6> SUFFICES ASSUME Dated(tasks, u), Age(tasks[u]) < now - Retention PROVE FALSE
            OBVIOUS
          <6>1. Age(tasks[u]) \in Nat /\ Rank(tasks, u) = Age(tasks[u])
            BY <1>1, <5>1, DatedAge
          <6> QED BY <1>5, <4>3, <5>1, <6>1 DEF Newer
        <5>3. tasks'[u] = tasks[u]
          BY <2>2, <5>1, <5>2
        <5> QED BY <4>1, <5>1, <5>3, ListedByRow DEF Ahead, Newer, Rank
      <4> QED BY <4>1, <4>2, <4>4
    <3>3. request.pc = "open" => Covered' = Covered /\ Covered * PageSize \in Int
      BY <1>1, <1>2, <1>3, <1>7, Numbers DEF Covered, Requests
    <3>4. ASSUME NEW t \in walk'.steady, request.pc = "open",
                 Cardinality(Ahead(tasks', list, t)) < Covered * PageSize
          PROVE  t \in walk'.seen
      BY <1>1, <2>2, <2>3, <3>1, <3>2, <3>3, <3>4, AheadGrows
    <3> QED BY <1>2, <1>3, <1>7, <2>3, <3>1, <3>2, <3>3, <3>4 DEF WalkSound
  <2> QED BY <2>4, <2>5, <2>6 DEF PagesInv
<1>8. CASE ShouldCleanup /\ Failed /\ cleanupFailed' = TRUE /\ UNCHANGED tasks
  <2>1. lastCleanup' = now /\ UNCHANGED now
    BY <1>8 DEF OpenDb
  <2> QED BY <1>8, <2>1, FailedInv
<1> QED BY <1>6, <1>7, <1>8 DEF OpenDb, next

(* A page that shows the tasks standing on it, or all of them. *)
LEMMA ShowInv ==
  ASSUME PagesInv, request.pc \in {"query", "requery"},
         NEW page \in Nat \ {0}, NEW pages \in Nat \ {0}, NEW cut \in Seq(TaskIds),
         Show(page, pages, cut), UNCHANGED <<tasks, now, lastCleanup, cleanupFailed>>,
         request.list.key = None /\ ~walk.moved =>
           /\ \A t \in walk.steady :
                Cardinality(Ahead(tasks, request.list, t)) < page * PageSize
                  => t \in walk.seen \cup ToSet(cut)
           /\ page >= pages => walk.steady \subseteq walk.seen \cup ToSet(cut)
  PROVE  PagesInv'
<1>1. request \in Requests /\ walk \in Walks /\ request.list # None /\ request.at = now
  BY DEF PagesInv, PagesShape, RetentionSound
<1>2. ToSet(cut) \subseteq TaskIds
  BY DEF ToSet
<1>3. /\ request' \in Requests /\ request'.pc = "shown" /\ request'.list = request.list
      /\ request'.page = page /\ request'.pages = pages /\ request'.at = now
  BY <1>1 DEF Show, Requests
<1>4. /\ walk' \in Walks /\ walk'.seen = walk.seen \cup ToSet(cut)
      /\ walk'.steady = walk.steady /\ walk'.moved = walk.moved
  BY <1>1, <1>2 DEF Show, Walks
<1>5. PagesShape'
  BY <1>1, <1>3, <1>4 DEF PagesInv, PagesShape
<1>6. now \in Nat
  BY Numbers DEF PagesInv, PagesShape
<1>7. RetentionSound'
  BY <1>1, <1>3, <1>6 DEF PagesInv, RetentionSound
<1>8. WalkSound'
  <2> SUFFICES ASSUME request.list.key = None, ~walk.moved PROVE WalkSound'
    BY <1>3, <1>4 DEF WalkSound
  <2>1. \A t \in walk.steady : t \in Listed(tasks, request.list) /\ Dated(tasks, t)
    BY <1>1 DEF PagesInv, WalkSound
  <2>2. Covered' = page
    BY <1>3 DEF Covered
  <2> QED BY <1>3, <1>4, <2>1, <2>2 DEF WalkSound
<1> QED BY <1>5, <1>7, <1>8 DEF PagesInv

LEMMA MemoryPage ==
  ASSUME NEW T \in Table, NEW list, NEW page \in Nat \ {0}
  PROVE  LET answer == InMemoryPage(T, list, page)
             last == TotalPages(Cardinality(Listed(T, list)))
         IN  /\ answer.pages = last
             /\ answer.page = IF page > last THEN last ELSE page
             /\ answer.rows \in Seq(TaskIds)
             /\ list.key = None => \A t \in Listed(T, list) :
                  OnPage(T, list, answer.page, t) => t \in ToSet(answer.rows)
<1> DEFINE S == Listed(T, list)
           n == Cardinality(S)
           last == TotalPages(n)
           shown == IF page > last THEN last ELSE page
           seq == OrderBy(T, S, None, "desc")
           sorted == IF list.key = None THEN seq ELSE SortTasks(T, seq, list.key, list.dir)
           cut == Slice(sorted, PageSize, (shown - 1) * PageSize)
<1>1. S \in SUBSET Rowed(T) /\ S \in SUBSET TaskIds
  BY ListedRowed, RowedTyped
<1> HIDE DEF S
<1>2. n \in Nat /\ seq \in [1 .. n -> S] /\ \A t \in S : \E i \in 1 .. n : seq[i] = t
  BY <1>1, OrderByTyped
<1>3. Len(seq) = n
  BY <1>2
<1>4. /\ InMemoryPage(T, list, page).pages = last /\ InMemoryPage(T, list, page).page = shown
      /\ InMemoryPage(T, list, page).rows = cut
  BY <1>3 DEF InMemoryPage, S
<1>5. shown \in Nat \ {0}
  BY <1>2, TotalPagesEnough
<1>6. sorted \in [1 .. n -> S]
  <2>1. SortTasks(T, seq, list.key, list.dir) \in [1 .. n -> S]
    BY <1>1, <1>2, SortTasksTyped
  <2> QED BY <1>2, <2>1
<1> HIDE DEF n, shown, sorted
<1>7. cut \in Seq(TaskIds)
  BY <1>1, <1>2, <1>5, <1>6, PageSlice
<1>8. ASSUME list.key = None, NEW t \in S, OnPage(T, list, shown, t)
      PROVE  t \in ToSet(cut)
  <2>1. "desc" # "asc"
    OBVIOUS
  <2>2. t \in ToSet(Slice(OrderBy(T, Listed(T, list), None, "desc"), PageSize, (shown - 1) * PageSize))
    BY <1>5, <1>8, <2>1, PlaceOnPage DEF S
  <2> QED BY <1>8, <2>2 DEF sorted, S
<1> QED BY <1>4, <1>7, <1>8 DEF shown, n, S

LEMMA QueriedPage ==
  ASSUME tasks \in Table, NEW page \in Nat \ {0}
  PROVE  LET answer == PageQuery(page)
             list == request.list
         IN  /\ answer.rows \in Seq(TaskIds)
             /\ ~(Cardinality(list.states) > 1) => answer.total = Cardinality(Listed(tasks, list))
             /\ ~(Cardinality(list.states) > 1) /\ list.key = None =>
                  \A t \in Listed(tasks, list) :
                    OnPage(tasks, list, page, t) => t \in ToSet(answer.rows)
<1> DEFINE list == request.list
           dir == IF list.key = None THEN None ELSE list.dir
           M == Matching(tasks, Selection(list))
           seq == OrderBy(tasks, M, list.key, dir)
           cut == Slice(seq, PageSize, (page - 1) * PageSize)
<1>1. PageQuery(page).rows = cut /\ PageQuery(page).total = Cardinality(M)
  BY DEF PageQuery, GetTasksPage
<1>2. M \in SUBSET Rowed(tasks) /\ M \in SUBSET TaskIds
  BY ListedRowed, RowedTyped
<1>3. ~(Cardinality(list.states) > 1) => M = Listed(tasks, list)
  BY ListedIsMatching
<1> HIDE DEF M, dir
<1>4. Cardinality(M) \in Nat /\ seq \in [1 .. Cardinality(M) -> M]
  BY <1>2, OrderByTyped
<1>5. cut \in Seq(TaskIds)
  BY <1>2, <1>4, PageSlice
<1>6. ASSUME ~(Cardinality(list.states) > 1), list.key = None, NEW t \in Listed(tasks, list),
             OnPage(tasks, list, page, t)
      PROVE  t \in ToSet(cut)
  <2>1. dir = None /\ dir # "asc"
    BY <1>6, QueriesAssumption DEF dir
  <2>2. t \in ToSet(Slice(OrderBy(tasks, Listed(tasks, list), None, dir), PageSize, (page - 1) * PageSize))
    BY <1>6, <2>1, PlaceOnPage
  <2> QED BY <1>3, <1>6, <2>2
<1> QED BY <1>1, <1>3, <1>5, <1>6

LEMMA QueryInv ==
  ASSUME PagesInv, Query
  PROVE  PagesInv'
<1> DEFINE list == request.list
           page == request.page
           S == Listed(tasks, list)
           last == TotalPages(Cardinality(S))
           k(t) == Cardinality(Ahead(tasks, list, t))
<1>1. /\ tasks \in Table /\ request \in Requests /\ walk \in Walks /\ list # None
      /\ request.pc = "query" /\ page \in Nat \ {0} /\ PageSize \in Nat \ {0}
      /\ UNCHANGED <<tasks, now, lastCleanup, cleanupFailed>>
  BY Numbers DEF PagesInv, PagesShape, Query, Requests
<1>2. Cardinality(S) \in Nat /\ last \in Nat \ {0} /\ Cardinality(S) <= last * PageSize
  <2>1. Cardinality(S) \in Nat
    BY <1>1, ListedRowed, OrderByTyped
  <2> QED BY <2>1, TotalPagesEnough
<1>3. \A t \in S : k(t) \in Nat /\ k(t) < last * PageSize
  BY <1>1, PlaceWithin
<1>4. ASSUME list.key = None, ~walk.moved, NEW t \in walk.steady
      PROVE  t \in S /\ (k(t) < (page - 1) * PageSize => t \in walk.seen)
  BY <1>1, <1>4 DEF PagesInv, WalkSound, Covered
<1> HIDE DEF S, last, k
<1>5. \A p \in Nat \ {0}, q \in Nat \ {0} : p <= q => p * PageSize <= q * PageSize
  BY <1>1
<1>6. (page - 1) * PageSize \in Int /\ page * PageSize \in Int /\ last * PageSize \in Int
  BY <1>1, <1>2
<1>7. ASSUME list.key = None, ~walk.moved, page > last PROVE walk.steady \subseteq walk.seen
  <2>1. last <= page - 1 /\ page - 1 \in Nat \ {0}
    BY <1>1, <1>2, <1>7
  <2>2. last * PageSize <= (page - 1) * PageSize
    BY <1>2, <1>5, <2>1
  <2> QED BY <1>3, <1>4, <1>6, <1>7, <2>2
<1>8. ASSUME NEW shown \in Nat \ {0}, shown = IF page > last THEN last ELSE page,
             NEW cut \in Seq(TaskIds), Show(shown, last, cut),
             list.key = None => \A t \in S : OnPage(tasks, list, shown, t) => t \in ToSet(cut)
      PROVE  PagesInv'
  <2>1. ASSUME list.key = None, ~walk.moved, NEW t \in walk.steady, k(t) < shown * PageSize
        PROVE  t \in walk.seen \cup ToSet(cut)
    <3>1. CASE page > last
      BY <1>7, <2>1, <3>1
    <3>2. CASE shown = page /\ k(t) < (page - 1) * PageSize
      BY <1>4, <2>1, <3>2
    <3>3. CASE shown = page /\ ~(k(t) < (page - 1) * PageSize)
      <4>1. t \in S /\ k(t) \in Nat
        BY <1>3, <1>4, <2>1
      <4>2. OnPage(tasks, list, shown, t)
        BY <1>6, <2>1, <3>3, <4>1 DEF OnPage, k
      <4> QED BY <1>8, <2>1, <4>1, <4>2
    <3> QED BY <1>8, <3>1, <3>2, <3>3
  <2>2. ASSUME list.key = None, ~walk.moved, shown >= last, NEW t \in walk.steady
        PROVE  t \in walk.seen \cup ToSet(cut)
    <3>1. last * PageSize <= shown * PageSize /\ shown * PageSize \in Int
      BY <1>1, <1>2, <1>5, <2>2
    <3>2. t \in S /\ k(t) \in Nat /\ k(t) < last * PageSize
      BY <1>3, <1>4, <2>2
    <3>3. k(t) < shown * PageSize
      BY <1>6, <3>1, <3>2
    <3> QED BY <2>1, <2>2, <3>3
  <2>3. list.key = None /\ ~walk.moved =>
           /\ \A t \in walk.steady :
                Cardinality(Ahead(tasks, list, t)) < shown * PageSize => t \in walk.seen \cup ToSet(cut)
           /\ shown >= last => walk.steady \subseteq walk.seen \cup ToSet(cut)
    BY <2>1, <2>2 DEF k
  <2> QED BY <1>1, <1>2, <1>8, <2>3, ShowInv
<1>9. CASE Cardinality(list.states) > 1
  <2> DEFINE answer == InMemoryPage(tasks, list, page)
  <2>1. Show(answer.page, answer.pages, answer.rows)
    BY <1>9 DEF Query
  <2>2. /\ answer.pages = last /\ answer.page = IF page > last THEN last ELSE page
        /\ answer.rows \in Seq(TaskIds)
        /\ list.key = None => \A t \in S : OnPage(tasks, list, answer.page, t) => t \in ToSet(answer.rows)
    BY <1>1, MemoryPage DEF S, last
  <2>3. answer.page \in Nat \ {0}
    BY <1>1, <1>2, <2>2
  <2> HIDE DEF answer
  <2> QED BY <1>8, <2>1, <2>2, <2>3
<1>10. CASE ~(Cardinality(list.states) > 1)
  <2> DEFINE answer == PageQuery(page)
  <2>1. /\ answer.rows \in Seq(TaskIds) /\ answer.total = Cardinality(S)
        /\ list.key = None => \A t \in S : OnPage(tasks, list, page, t) => t \in ToSet(answer.rows)
    BY <1>1, <1>10, QueriedPage DEF S
  <2>2. \/ /\ answer.total > 0 /\ page > last
           /\ request' = [request EXCEPT !.pc = "reopen", !.page = last, !.pages = last]
           /\ UNCHANGED walk
        \/ ~(answer.total > 0 /\ page > last) /\ Show(page, last, answer.rows)
    BY <1>10, <2>1 DEF Query, last
  <2> HIDE DEF answer
  <2>3. CASE /\ answer.total > 0 /\ page > last
             /\ request' = [request EXCEPT !.pc = "reopen", !.page = last, !.pages = last]
             /\ UNCHANGED walk
    <3>1. /\ request' \in Requests /\ request'.pc = "reopen" /\ request'.list = list
          /\ request'.at = request.at
      BY <1>1, <1>2, <2>3 DEF Requests
    <3>2. PagesShape'
      BY <1>1, <2>3, <3>1 DEF PagesInv, PagesShape
    <3>3. RetentionSound'
      BY <1>1, <3>1 DEF PagesInv, RetentionSound
    <3>4. WalkSound'
      BY <1>1, <1>7, <2>3, <3>1 DEF PagesInv, WalkSound
    <3> QED BY <3>2, <3>3, <3>4 DEF PagesInv
  <2>4. CASE Show(page, last, answer.rows) /\ ~(page > last)
    BY <1>1, <1>8, <2>1, <2>4
  <2>5. CASE Show(page, last, answer.rows) /\ ~(answer.total > 0)
    <3>1. Cardinality(S) = 0
      BY <1>2, <2>1, <2>5
    <3>2. S = {}
      <4>1. S \in SUBSET Rowed(tasks)
        BY ListedRowed DEF S
      <4> QED BY <1>1, <3>1, <4>1, RowedTyped, FS_EmptySet
    <3>3. list.key = None /\ ~walk.moved => walk.steady = {}
      BY <1>4, <3>2
    <3> QED BY <1>1, <1>2, <2>1, <2>5, <3>3, ShowInv
  <2> QED BY <2>2, <2>3, <2>4, <2>5
<1> QED BY <1>9, <1>10

LEMMA RequeryInv ==
  ASSUME PagesInv, Requery
  PROVE  PagesInv'
<1>1. /\ tasks \in Table /\ request.pc = "requery" /\ request.list # None
      /\ request.page \in Nat \ {0} /\ request.pages \in Nat \ {0}
      /\ Show(request.page, request.pages, PageQuery(request.page).rows)
      /\ UNCHANGED <<tasks, now, lastCleanup, cleanupFailed>>
  BY DEF PagesInv, PagesShape, Requery, Requests
<1>2. PageQuery(request.page).rows \in Seq(TaskIds)
  BY <1>1, QueriedPage
<1>3. request.list.key = None /\ ~walk.moved => walk.steady \subseteq walk.seen
  BY <1>1 DEF PagesInv, WalkSound
<1> QED BY <1>1, <1>2, <1>3, ShowInv

LEMMA PagesStep == PagesInv /\ [PagesNext]_pageVars => PagesInv'
<1> SUFFICES ASSUME PagesInv, [PagesNext]_pageVars PROVE PagesInv'
  OBVIOUS
<1>1. CASE UNCHANGED pageVars
  BY <1>1, RestInv DEF pageVars
<1>2. CASE Tick
  BY <1>2, RestInv DEF Tick
<1>3. CASE FailRequest
  BY <1>3, FailedInv DEF FailRequest
<1>4. CASE Restart
  BY <1>4, FailedInv, RestInv DEF Restart
<1> QED
  BY <1>1, <1>2, <1>3, <1>4, StoreEventInv, OpenListInv, FollowNextInv, OpenDbInv,
     QueryInv, RequeryInv DEF PagesNext

LEMMA PagesInvHolds == PagesSpec => []PagesInv
<1>1. PagesInit => PagesInv
  <2> SUFFICES ASSUME PagesInit PROVE PagesInv
    OBVIOUS
  <2>1. 0 \in Times
    BY RecordAssumption DEF Times
  <2>2. request \in Requests /\ walk \in Walks
    BY <2>1 DEF PagesInit, NoRequest, NoWalk, Requests, Walks, Opt
  <2>3. PagesShape
    BY <2>1, <2>2 DEF PagesInit, PagesShape, NoRequest, Table
  <2>4. RetentionSound /\ WalkSound
    BY DEF PagesInit, RetentionSound, WalkSound, NoRequest
  <2> QED BY <2>3, <2>4 DEF PagesInv
<1> QED BY <1>1, PagesStep, PTL DEF PagesSpec

(* No page shows a dated task older than the retention by an interval of the
   cleanup throttle, unless the last cleanup failed: what a cleanup leaves is
   young enough, and what is stored after it is younger. *)
THEOREM NothingTooOldIsShown == PagesSpec => []ShownWithinRetention
<1>1. PagesInv => ShownWithinRetention
  <2> SUFFICES ASSUME PagesInv, Shown, ~cleanupFailed, NEW t \in ToSet(request.rows),
                      tasks[t] # NoRow, Age(tasks[t]) # None
               PROVE  Age(tasks[t]) > request.at - Retention - CleanupInterval
    BY DEF ShownWithinRetention
  <2>1. /\ tasks \in Table /\ request.rows \in Seq(TaskIds) /\ request.at \in Nat
    BY Numbers DEF PagesInv, PagesShape, Requests
  <2>2. t \in TaskIds
    BY <2>1 DEF ToSet
  <2>3. Age(tasks[t]) >= request.at - Retention - CleanupInterval + 1
    BY <2>2 DEF PagesInv, RetentionSound, Shown, Fresh, Dated
  <2>4. Age(tasks[t]) \in Nat
    BY <2>1, <2>2, DatedAge DEF Dated
  <2> QED BY <2>1, <2>3, <2>4, Numbers
<1> QED BY <1>1, PagesInvHolds, PTL

(* Whoever follows "next" to the end of the newest-first list has seen every dated
   task that was listed all the time and did not change: what comes, goes or moves
   between two pages takes nothing from before such a task, so it never slips to
   a page already left. *)
THEOREM NothingIsMissed == PagesSpec => []PagingMissesNothing
<1>1. PagesInv => PagingMissesNothing
  BY DEF PagesInv, PagesShape, WalkSound, PagingMissesNothing, Shown
<1> QED BY <1>1, PagesInvHolds, PTL

-----------------------------------------------------------------------------
(* Counting. *)

LEMMA TwoCounts ==
  ASSUME NEW A, NEW B, IsFiniteSet(A), IsFiniteSet(B), A \cap B = {}
  PROVE  /\ IsFiniteSet(A \cup B)
         /\ Cardinality(A \cup B) = Cardinality(A) + Cardinality(B)
         /\ Cardinality(A) \in Nat /\ Cardinality(B) \in Nat
<1>1. /\ IsFiniteSet(A \cup B)
      /\ Cardinality(A \cup B) = Cardinality(A) + Cardinality(B) - Cardinality(A \cap B)
  BY FS_Union
<1>2. Cardinality(A) \in Nat /\ Cardinality(B) \in Nat /\ Cardinality(A \cap B) = 0
  BY FS_CardinalityType, FS_EmptySet
<1> QED BY <1>1, <1>2

(* A set of numbers has a least one. *)
LEMMA LeastNat ==
  ASSUME NEW T \in SUBSET Nat, T # {}
  PROVE  \E n \in T : \A m \in T : n <= m
<1> DEFINE R == OpToRel(<, Nat)
<1>1. IsWellFoundedOn(R, Nat)
  BY NatLessThanWellFounded
<1>2. \A m, n \in Nat : m < n => <<m, n>> \in R
  BY DEF OpToRel
<1> HIDE DEF R
<1>3. PICK n \in T : \A m \in T : ~(<<m, n>> \in R)
  BY <1>1, WFMin
<1>4. ASSUME NEW m \in T PROVE n <= m
  <2>1. m \in Nat /\ n \in Nat
    OBVIOUS
  <2>2. ~(m < n)
    BY <1>2, <1>3, <2>1
  <2> QED BY <2>1, <2>2
<1> QED BY <1>4

(* What is counted by classes adds up to the number of what is counted: the sum, a
   recursive function of the set of classes, is the number of those in its classes. *)
LEMMA CountsAddUp ==
  ASSUME NEW D, IsFiniteSet(D), NEW S, IsFiniteSet(S), NEW c \in [S -> D],
         NEW f, f = [d \in D |-> Cardinality({t \in S : c[t] = d})]
  PROVE  TotalOf(f) = Cardinality(S)
<1> DEFINE In(s) == {t \in S : c[t] \in s}
           g == [s \in SUBSET D |-> Cardinality(In(s))]
           first(s) == CHOOSE x \in s : TRUE
           Body(h, s) == IF s = {} THEN 0 ELSE f[first(s)] + h[s \ {first(s)}]
           iter == CHOOSE h : h = [s \in SUBSET D |-> Body(h, s)]
<1>1. \A s : IsFiniteSet(In(s)) /\ Cardinality(In(s)) \in Nat
  BY FS_Subset, FS_CardinalityType
<1>2. TotalOf(f) = iter[D]
  <2>1. DOMAIN f = D
    OBVIOUS
  <2> QED BY <2>1 DEF TotalOf, MapThenSumSet, MapThenFoldSet
<1>3. ASSUME NEW s \in SUBSET D, s # {}
      PROVE  /\ first(s) \in s /\ s \ {first(s)} \in SUBSET D
             /\ Cardinality(In(s)) = f[first(s)] + Cardinality(In(s \ {first(s)}))
  <2>1. first(s) \in s /\ s \ {first(s)} \in SUBSET D
    BY <1>3
  <2> HIDE DEF first
  <2> DEFINE A == {t \in S : c[t] = first(s)}
             B == In(s \ {first(s)})
  <2>2. IsFiniteSet(A) /\ IsFiniteSet(B)
    BY <1>1, FS_Subset
  <2>3. A \cap B = {} /\ In(s) = A \cup B
    BY <2>1
  <2>4. f[first(s)] = Cardinality(A)
    BY <2>1
  <2> HIDE DEF A, B, In
  <2>5. Cardinality(A \cup B) = Cardinality(A) + Cardinality(B)
    BY <2>2, <2>3, TwoCounts
  <2> QED BY <2>1, <2>3, <2>4, <2>5 DEF B
<1>4. g = [s \in SUBSET D |-> Body(g, s)]
  <2>1. ASSUME NEW s \in SUBSET D PROVE g[s] = Body(g, s)
    <3>1. CASE s = {}
      <4>1. In(s) = {} /\ g[s] = Cardinality(In(s))
        BY <3>1
      <4> QED BY <3>1, <4>1, FS_EmptySet
    <3>2. CASE s # {}
      <4> HIDE DEF In, first
      <4> QED BY <1>3, <3>2
    <3> QED BY <3>1, <3>2
  <2>2. g \in [SUBSET D -> Nat]
    BY <1>1
  <2> HIDE DEF g, Body
  <2> QED BY <2>1, <2>2
<1>5. iter = [s \in SUBSET D |-> Body(iter, s)]
  <2> HIDE DEF g, Body
  <2> QED BY <1>4
<1> HIDE DEF iter
<1>6. \A s \in SUBSET D : iter[s] = Body(iter, s) /\ g[s] = Cardinality(In(s))
  <2> HIDE DEF Body, In
  <2> QED BY <1>5
<1> HIDE DEF g
<1>7. \A s \in SUBSET D : iter[s] = g[s]
  <2> SUFFICES ASSUME NEW r \in SUBSET D, iter[r] # g[r] PROVE FALSE
    OBVIOUS
  <2> DEFINE T == {n \in Nat : \E s \in SUBSET D : Cardinality(s) = n /\ iter[s] # g[s]}
  <2>1. \A s \in SUBSET D : IsFiniteSet(s) /\ Cardinality(s) \in Nat
    BY FS_Subset, FS_CardinalityType
  <2>2. T \in SUBSET Nat /\ T # {}
    BY <2>1
  <2>3. PICK n \in T : \A m \in T : n <= m
    <3> HIDE DEF T
    <3> QED BY <2>2, LeastNat
  <2>4. PICK s \in SUBSET D : Cardinality(s) = n /\ iter[s] # g[s]
    BY <2>3
  <2>5. s # {}
    <3>1. In({}) = {}
      OBVIOUS
    <3> QED BY <1>6, <2>4, <3>1, FS_EmptySet
  <2> HIDE DEF T, first, In
  <2>6. /\ first(s) \in s /\ s \ {first(s)} \in SUBSET D
        /\ Cardinality(In(s)) = f[first(s)] + Cardinality(In(s \ {first(s)}))
    BY <1>3, <2>5
  <2>7. iter[s \ {first(s)}] # g[s \ {first(s)}]
    BY <1>6, <2>4, <2>5, <2>6
  <2>8. Cardinality(s \ {first(s)}) = n - 1
    BY <2>1, <2>4, <2>6, FS_RemoveElement
  <2>9. n - 1 \in T
    BY <2>1, <2>6, <2>7, <2>8 DEF T
  <2> QED BY <2>2, <2>3, <2>9
<1>8. In(D) = S
  OBVIOUS
<1> QED BY <1>2, <1>6, <1>7, <1>8

LEMMA PartCounted ==
  ASSUME NEW B, IsFiniteSet(B), NEW A \in SUBSET B
  PROVE  /\ IsFiniteSet(A) /\ Cardinality(A) \in Nat /\ Cardinality(B) \in Nat
         /\ Cardinality(A) <= Cardinality(B)
         /\ A # B => Cardinality(A) < Cardinality(B)
<1>1. /\ IsFiniteSet(A) /\ Cardinality(A) <= Cardinality(B)
      /\ Cardinality(A) = Cardinality(B) => B = A
  BY FS_Subset
<1>2. Cardinality(A) \in Nat /\ Cardinality(B) \in Nat
  BY <1>1, FS_CardinalityType
<1> QED BY <1>1, <1>2

(* One to one with a set, as many of them. *)
LEMMA AsMany ==
  ASSUME NEW D, IsFiniteSet(D), NEW E, NEW p \in Bijection(E, D), NEW T \in SUBSET D
  PROVE  Cardinality({e \in E : p[e] \in T}) = Cardinality(T)
<1> DEFINE A == {e \in E : p[e] \in T}
           q == [e \in A |-> p[e]]
<1>1. /\ p \in [E -> D] /\ \A a, b \in E : p[a] = p[b] => a = b
      /\ \A d \in D : \E e \in E : p[e] = d
  BY DEF Bijection, Injection, Surjection, IsInjective
<1>2. q \in [A -> T] /\ \A e \in A : q[e] = p[e]
  OBVIOUS
<1>3. \A a, b \in A : q[a] = q[b] => a = b
  BY <1>1, <1>2
<1>4. \A d \in T : \E e \in A : q[e] = d
  BY <1>1
<1> HIDE DEF A, q
<1>5. q \in Bijection(A, T)
  BY <1>2, <1>3, <1>4 DEF Bijection, Injection, Surjection, IsInjective
<1>6. ExistsBijection(A, T)
  BY <1>5 DEF ExistsBijection
<1>7. IsFiniteSet(T)
  BY FS_Subset
<1>8. ExistsBijection(T, A)
  BY <1>6, Fun_ExistsBijSymmetric
<1> QED BY <1>7, <1>8, FS_Bijection DEF A

-----------------------------------------------------------------------------
(* Ascending order. *)

Below(value, v) == Cardinality({x \in DOMAIN value : value[x] < v})
UpToValue(value, v) == Cardinality({x \in DOMAIN value : value[x] <= v})

LEMMA Highest ==
  ASSUME NEW D, IsFiniteSet(D), D # {}, NEW value, \A x \in D : value[x] \in Nat
  PROVE  \E x \in D : \A y \in D : value[y] <= value[x]
<1> DEFINE Over(x) == {y \in D : value[y] > value[x]}
           T == {Cardinality(Over(x)) : x \in D}
<1>1. \A x \in D : Over(x) \in SUBSET D /\ IsFiniteSet(Over(x)) /\ Cardinality(Over(x)) \in Nat
  BY FS_Subset, FS_CardinalityType
<1>2. T \in SUBSET Nat /\ T # {}
  BY <1>1
<1>3. PICK n \in T : \A m \in T : n <= m
  <2> HIDE DEF T
  <2> QED BY <1>2, LeastNat
<1>4. PICK x \in D : n = Cardinality(Over(x))
  BY <1>3
<1>5. ASSUME NEW y \in D, value[y] > value[x] PROVE FALSE
  <2>1. Over(y) \in SUBSET Over(x) /\ y \in Over(x) /\ y \notin Over(y)
    BY <1>5
  <2>2. Cardinality(Over(y)) \in T
    OBVIOUS
  <2> HIDE DEF Over, T
  <2>3. Cardinality(Over(y)) < Cardinality(Over(x))
    BY <1>1, <2>1, PartCounted
  <2> QED BY <1>1, <1>2, <1>3, <1>4, <2>2, <2>3
<1> QED BY <1>5

LEMMA AscendingPlaces ==
  ASSUME NEW D, IsFiniteSet(D), NEW value \in [D -> Nat]
  PROVE  LET a == Ascending(value)
         IN  /\ Cardinality(D) \in Nat
             /\ a \in [1 .. Cardinality(D) -> Nat]
             /\ \A i \in 1 .. Cardinality(D) :
                  /\ Below(value, a[i]) < i /\ i <= UpToValue(value, a[i])
                  /\ \E x \in D : a[i] = value[x]
<1> DEFINE n == Cardinality(D)
           a == Ascending(value)
           Values0 == {value[x] : x \in DOMAIN value}
<1>1. n \in Nat
  BY FS_CardinalityType
<1>2. \A v : Below(value, v) \in Nat /\ UpToValue(value, v) \in Nat
  <2>1. \A A \in SUBSET D : Cardinality(A) \in Nat
    BY FS_Subset, FS_CardinalityType
  <2> QED BY <2>1 DEF Below, UpToValue
<1>3. ASSUME NEW i \in 1 .. n
      PROVE  \E v \in Values0 : Below(value, v) < i /\ i <= UpToValue(value, v)
  <2> DEFINE V == {v \in Values0 : i <= UpToValue(value, v)}
  <2>1. D # {}
    BY <1>3, FS_EmptySet
  <2>2. PICK h \in D : \A y \in D : value[y] <= value[h]
    BY <2>1, Highest
  <2>3. {x \in DOMAIN value : value[x] <= value[h]} = D
    BY <2>2
  <2>4. UpToValue(value, value[h]) = n
    BY <2>3 DEF UpToValue
  <2>5. V \in SUBSET Nat /\ V # {}
    BY <2>4
  <2>6. PICK w \in V : \A v \in V : w <= v
    <3> HIDE DEF V
    <3> QED BY <2>5, LeastNat
  <2>7. ASSUME i <= Below(value, w) PROVE FALSE
    <3> DEFINE E == {x \in D : value[x] < w}
    <3>1. Below(value, w) = Cardinality(E)
      BY DEF Below
    <3>2. E # {} /\ IsFiniteSet(E)
      <4>1. IsFiniteSet(E)
        BY FS_Subset
      <4>2. Cardinality(E) # 0
        BY <1>2, <1>3, <2>7, <3>1
      <4> QED BY <4>1, <4>2, FS_EmptySet
    <3>3. PICK x \in E : \A y \in E : value[y] <= value[x]
      <4>1. \A y \in E : value[y] \in Nat
        OBVIOUS
      <4> HIDE DEF E
      <4> QED BY <3>2, <4>1, Highest
    <3> DEFINE U == {y \in D : value[y] <= value[x]}
    <3>4. E \in SUBSET U /\ IsFiniteSet(U)
      BY <3>3, FS_Subset
    <3>5. UpToValue(value, value[x]) = Cardinality(U)
      BY DEF UpToValue
    <3>6. Cardinality(E) <= Cardinality(U) /\ Cardinality(E) \in Nat /\ Cardinality(U) \in Nat
      <4> HIDE DEF E, U
      <4> QED BY <3>4, PartCounted
    <3>7. i <= UpToValue(value, value[x])
      BY <1>1, <2>7, <3>1, <3>5, <3>6
    <3>8. value[x] \in V /\ value[x] < w /\ w \in Nat
      BY <2>5, <3>7
    <3> QED BY <2>6, <3>8
  <2>8. Below(value, w) < i
    BY <1>1, <1>2, <2>7
  <2> QED BY <2>6, <2>8
<1>4. /\ a \in [1 .. n -> Values0]
      /\ \A i \in 1 .. n : Below(value, a[i]) < i /\ i <= UpToValue(value, a[i])
  <2>1. a = [i \in 1 .. Cardinality(DOMAIN value) |->
              CHOOSE v \in Values0 : Below(value, v) < i /\ i <= UpToValue(value, v)]
    BY DEF Ascending, Below, UpToValue
  <2>2. DOMAIN value = D
    OBVIOUS
  <2> HIDE DEF a, Values0
  <2> QED BY <1>3, <2>1, <2>2
<1> HIDE DEF a
<1>5. a \in [1 .. n -> Nat] /\ \A i \in 1 .. n : \E x \in D : a[i] = value[x]
  <2>1. Values0 \in SUBSET Nat /\ \A v \in Values0 : \E x \in D : v = value[x]
    OBVIOUS
  <2> HIDE DEF Values0
  <2> QED BY <1>4, <2>1
<1> QED BY <1>1, <1>4, <1>5 DEF a

(* As many as do not exceed a value are below the next. *)
LEMMA BelowTheNext ==
  ASSUME NEW D, IsFiniteSet(D), NEW value \in [D -> Nat], NEW v \in Nat, NEW w \in Nat, v < w
  PROVE  /\ UpToValue(value, v) \in Nat /\ Below(value, w) \in Nat
         /\ UpToValue(value, v) <= Below(value, w)
<1> DEFINE A == {x \in D : value[x] <= v}
           B == {x \in D : value[x] < w}
<1>1. A \in SUBSET B /\ IsFiniteSet(B)
  BY FS_Subset
<1>2. UpToValue(value, v) = Cardinality(A) /\ Below(value, w) = Cardinality(B)
  BY DEF UpToValue, Below
<1> HIDE DEF A, B
<1> QED BY <1>1, <1>2, PartCounted

LEMMA AscendingRises ==
  ASSUME NEW D, IsFiniteSet(D), NEW value \in [D -> Nat],
         NEW i \in 1 .. Cardinality(D), NEW j \in 1 .. Cardinality(D), i <= j
  PROVE  Ascending(value)[i] <= Ascending(value)[j]
<1> DEFINE a == Ascending(value)
<1>1. /\ Cardinality(D) \in Nat /\ a[i] \in Nat /\ a[j] \in Nat
      /\ Below(value, a[i]) < i /\ j <= UpToValue(value, a[j])
  BY AscendingPlaces
<1> HIDE DEF a
<1>2. a[j] < a[i] => /\ UpToValue(value, a[j]) \in Nat /\ Below(value, a[i]) \in Nat
                     /\ UpToValue(value, a[j]) <= Below(value, a[i])
  BY <1>1, BelowTheNext
<1>3. ~(a[j] < a[i])
  BY <1>1, <1>2
<1> QED BY <1>1, <1>3 DEF a

(* The same values, reached another way, are the same in ascending order. *)
LEMMA AscendingSame ==
  ASSUME NEW D, IsFiniteSet(D), NEW value \in [D -> Nat], NEW E, NEW p \in Bijection(E, D),
         NEW other \in [E -> Nat], \A e \in E : other[e] = value[p[e]]
  PROVE  Ascending(other) = Ascending(value)
<1>1. p \in [E -> D] /\ \A d \in D : \E e \in E : p[e] = d
  BY DEF Bijection, Injection, Surjection
<1>2. {other[e] : e \in E} = {value[d] : d \in D}
  BY <1>1
<1>3. Cardinality(E) = Cardinality(D)
  <2>1. {e \in E : p[e] \in D} = E
    BY <1>1
  <2>2. Cardinality({e \in E : p[e] \in D}) = Cardinality(D)
    BY AsMany
  <2> QED BY <2>1, <2>2
<1>4. ASSUME NEW v
      PROVE  Below(other, v) = Below(value, v) /\ UpToValue(other, v) = UpToValue(value, v)
  <2> DEFINE A == {d \in D : value[d] < v}
             B == {d \in D : value[d] <= v}
  <2>1. A \in SUBSET D /\ B \in SUBSET D
    OBVIOUS
  <2>2. /\ {e \in DOMAIN other : other[e] < v} = {e \in E : p[e] \in A}
        /\ {e \in DOMAIN other : other[e] <= v} = {e \in E : p[e] \in B}
    BY <1>1
  <2>3. Below(value, v) = Cardinality(A) /\ UpToValue(value, v) = Cardinality(B)
    BY DEF Below, UpToValue
  <2> HIDE DEF A, B
  <2>4. /\ Cardinality({e \in E : p[e] \in A}) = Cardinality(A)
        /\ Cardinality({e \in E : p[e] \in B}) = Cardinality(B)
    BY <2>1, AsMany
  <2> QED BY <2>2, <2>3, <2>4 DEF Below, UpToValue
<1> DEFINE a == Ascending(value)
           b == Ascending(other)
           n == Cardinality(D)
<1>5. IsFiniteSet(E)
  <2>1. ExistsBijection(E, D)
    BY DEF ExistsBijection
  <2>2. ExistsBijection(D, E)
    BY <2>1, Fun_ExistsBijSymmetric
  <2> QED BY <2>2, FS_Bijection
<1>6. /\ a \in [1 .. n -> Nat] /\ b \in [1 .. n -> Nat] /\ n \in Nat
      /\ \A i \in 1 .. n : /\ Below(value, a[i]) < i /\ i <= UpToValue(value, a[i])
                          /\ Below(value, b[i]) < i /\ i <= UpToValue(value, b[i])
  BY <1>3, <1>4, <1>5, AscendingPlaces
<1> HIDE DEF a, b, n
<1>7. ASSUME NEW i \in 1 .. n PROVE a[i] = b[i]
  <2>1. a[i] \in Nat /\ b[i] \in Nat
    BY <1>6
  <2>2. a[i] < b[i] => /\ UpToValue(value, a[i]) \in Nat /\ Below(value, b[i]) \in Nat
                       /\ UpToValue(value, a[i]) <= Below(value, b[i])
    BY <2>1, BelowTheNext
  <2>3. b[i] < a[i] => /\ UpToValue(value, b[i]) \in Nat /\ Below(value, a[i]) \in Nat
                       /\ UpToValue(value, b[i]) <= Below(value, a[i])
    BY <2>1, BelowTheNext
  <2> QED BY <1>6, <2>1, <2>2, <2>3
<1>8. a = b
  BY <1>6, <1>7
<1> QED BY <1>8 DEF a, b

-----------------------------------------------------------------------------
(* Percentiles: the interpolation at an index, in hundredths of a place. *)

Whole(k) == k \div 100
Part(k) == k % 100
Upper(k, n) == IF Whole(k) + 1 < n - 1 THEN Whole(k) + 1 ELSE n - 1

At(values, k) ==
  100 * values[Whole(k) + 1]
    + (values[Upper(k, Len(values)) + 1] - values[Whole(k) + 1]) * Part(k)

Rising(values) == \A i, j \in 1 .. Len(values) : i <= j => values[i] <= values[j]

LEMMA Hundredths ==
  ASSUME NEW k \in Nat
  PROVE  /\ Whole(k) \in Nat /\ Part(k) \in 0 .. 99 /\ Part(k) \in Nat
         /\ k = 100 * Whole(k) + Part(k)
<1>1. Whole(k) \in Nat
  BY DEF Whole
<1>2. Part(k) \in 0 .. 99
  BY DEF Part
<1>3. Part(k) = k - 100 * Whole(k)
  BY DEF Whole, Part
<1>4. Part(k) \in Nat
  BY <1>2
<1> QED BY <1>1, <1>2, <1>3, <1>4

LEMMA Digits ==
  ASSUME NEW a \in Int, NEW b \in Int, NEW c \in 0 .. 99, NEW d \in 0 .. 99,
         100 * a + c <= 100 * b + d
  PROVE  a < b \/ (a = b /\ c <= d)
  OBVIOUS

LEMMA Weighted ==
  ASSUME NEW d \in Nat, NEW w \in Nat, NEW u \in Nat, w <= u
  PROVE  /\ d * w \in Nat /\ d * u \in Nat /\ d * w <= d * u
<1>1. PICK x \in Nat : u = w + x
  <2>1. u - w \in Nat /\ u = w + (u - w)
    OBVIOUS
  <2> QED BY <2>1
<1>2. d * u = d * w + d * x /\ d * x \in Nat /\ d * w \in Nat
  BY <1>1
<1> QED BY <1>2

(* Between the two neighbours. *)
LEMMA AtBetween ==
  ASSUME NEW n \in Nat \ {0}, NEW values \in [1 .. n -> Nat], Rising(values),
         NEW k \in 0 .. 100 * (n - 1)
  PROVE  /\ Whole(k) \in 0 .. n - 1 /\ Upper(k, n) \in Whole(k) .. n - 1
         /\ Upper(k, n) <= Whole(k) + 1
         /\ At(values, k) \in Nat
         /\ 100 * values[Whole(k) + 1] <= At(values, k)
         /\ At(values, k) <= 100 * values[Upper(k, n) + 1]
<1> DEFINE lower == Whole(k)
           upper == Upper(k, n)
           w == Part(k)
<1>1. Len(values) = n
  OBVIOUS
<1>2. lower \in Nat /\ w \in 0 .. 99 /\ k = 100 * lower + w
  <2>1. k \in Nat
    OBVIOUS
  <2> QED BY <2>1, Hundredths
<1>3. At(values, k) = 100 * values[lower + 1] + (values[upper + 1] - values[lower + 1]) * w
  BY <1>1 DEF At
<1> HIDE DEF w
<1>4. lower \in 0 .. n - 1 /\ upper \in lower .. n - 1 /\ upper <= lower + 1
  BY <1>2 DEF Upper
<1> HIDE DEF lower, upper
<1>5. lower + 1 \in 1 .. n /\ upper + 1 \in 1 .. n /\ lower + 1 <= upper + 1
  BY <1>4
<1> DEFINE a == values[lower + 1]
           b == values[upper + 1]
<1>6. a \in Nat /\ b \in Nat /\ a <= b
  BY <1>1, <1>5 DEF Rising
<1>7. b - a \in Nat /\ (b - a) * w \in Nat /\ (b - a) * w <= (b - a) * 100
  <2>1. b - a \in Nat /\ w \in Nat /\ w <= 100
    BY <1>2, <1>6
  <2> QED BY <2>1, Weighted
<1>8. At(values, k) = 100 * a + (b - a) * w
  BY <1>3
<1> HIDE DEF a, b
<1>9. At(values, k) \in Nat /\ 100 * a <= At(values, k) /\ At(values, k) <= 100 * b
  <2> DEFINE x == (b - a) * w
  <2>1. x \in Nat /\ x <= (b - a) * 100 /\ At(values, k) = 100 * a + x
    BY <1>7, <1>8
  <2> HIDE DEF x
  <2> QED BY <1>6, <2>1
<1> QED BY <1>4, <1>9 DEF a, b, lower, upper

LEMMA AtRises ==
  ASSUME NEW n \in Nat \ {0}, NEW values \in [1 .. n -> Nat], Rising(values),
         NEW k \in 0 .. 100 * (n - 1), NEW m \in 0 .. 100 * (n - 1), k <= m
  PROVE  At(values, k) <= At(values, m)
<1>1. Len(values) = n
  OBVIOUS
<1>2. /\ Whole(k) \in 0 .. n - 1 /\ Upper(k, n) \in Whole(k) .. n - 1
      /\ Upper(k, n) <= Whole(k) + 1
      /\ At(values, k) \in Nat /\ At(values, k) <= 100 * values[Upper(k, n) + 1]
  BY AtBetween
<1>3. /\ Whole(m) \in 0 .. n - 1 /\ At(values, m) \in Nat
      /\ 100 * values[Whole(m) + 1] <= At(values, m)
  BY AtBetween
<1>4. /\ Part(k) \in Nat /\ Part(m) \in Nat
      /\ Part(k) \in 0 .. 99 /\ k = 100 * Whole(k) + Part(k)
      /\ Part(m) \in 0 .. 99 /\ m = 100 * Whole(m) + Part(m)
  <2>1. k \in Nat /\ m \in Nat
    OBVIOUS
  <2> QED BY <2>1, Hundredths
<1>5. Whole(k) < Whole(m) \/ (Whole(k) = Whole(m) /\ Part(k) <= Part(m))
  <2> DEFINE a == Whole(k)
             b == Whole(m)
             c == Part(k)
             d == Part(m)
  <2>1. a \in Int /\ b \in Int /\ c \in 0 .. 99 /\ d \in 0 .. 99
        /\ k = 100 * a + c /\ m = 100 * b + d
    BY <1>2, <1>3, <1>4
  <2>2. k <= m
    OBVIOUS
  <2> HIDE DEF a, b, c, d
  <2>3. 100 * a + c <= 100 * b + d
    BY <2>1, <2>2
  <2>4. a < b \/ (a = b /\ c <= d)
    BY <2>1, <2>3, Digits
  <2> QED BY <2>4 DEF a, b, c, d
<1>6. CASE Whole(k) = Whole(m) /\ Part(k) <= Part(m)
  <2> DEFINE a == values[Whole(k) + 1]
             b == values[Upper(k, n) + 1]
             x == (b - a) * Part(k)
             y == (b - a) * Part(m)
  <2>1. Upper(m, n) = Upper(k, n)
    BY <1>6 DEF Upper
  <2>2. At(values, k) = 100 * a + x /\ At(values, m) = 100 * a + y
    BY <1>1, <1>6, <2>1 DEF At
  <2>3. Whole(k) + 1 \in 1 .. n /\ Upper(k, n) + 1 \in 1 .. n /\ Whole(k) + 1 <= Upper(k, n) + 1
    BY <1>2
  <2>4. a \in Nat /\ b \in Nat /\ a <= b
    BY <1>1, <2>3 DEF Rising
  <2> HIDE DEF a, b
  <2>5. b - a \in Nat
    BY <2>4
  <2>6. x \in Nat /\ y \in Nat /\ x <= y
    <3>1. Part(k) \in Nat /\ Part(m) \in Nat
      BY <1>4
    <3> QED BY <1>6, <2>5, <3>1, Weighted
  <2> HIDE DEF x, y
  <2> QED BY <2>2, <2>4, <2>6
<1>7. CASE Whole(k) < Whole(m)
  <2> DEFINE i == Upper(k, n) + 1
             j == Whole(m) + 1
  <2>1. i \in 1 .. n /\ j \in 1 .. n /\ i <= j
    <3> DEFINE a == Whole(k)
               b == Whole(m)
               c == Upper(k, n)
    <3>1. a \in 0 .. n - 1 /\ c \in a .. n - 1 /\ c <= a + 1 /\ b \in 0 .. n - 1 /\ a < b
      BY <1>2, <1>3, <1>7
    <3> HIDE DEF a, b, c
    <3>2. c + 1 \in 1 .. n /\ b + 1 \in 1 .. n /\ c + 1 <= b + 1
      BY <3>1
    <3> QED BY <3>2 DEF b, c
  <2>2. At(values, k) <= 100 * values[i] /\ 100 * values[j] <= At(values, m)
    BY <1>2, <1>3
  <2> HIDE DEF i, j
  <2>3. values[i] <= values[j] /\ values[i] \in Nat /\ values[j] \in Nat
    BY <1>1, <2>1 DEF Rising
  <2>4. At(values, k) \in Nat /\ At(values, m) \in Nat
    BY <1>2, <1>3
  <2> QED BY <2>2, <2>3, <2>4
<1> QED BY <1>5, <1>6, <1>7

LEMMA PercentilesRise ==
  ASSUME NEW n \in Nat \ {0}, NEW values \in [1 .. n -> Nat], Rising(values)
  PROVE  LET p50 == Percentile(values, 50)
             p95 == Percentile(values, 95)
             p99 == Percentile(values, 99)
         IN  /\ 100 * values[1] <= p50 /\ p50 <= p95 /\ p95 <= p99 /\ p99 <= 100 * values[n]
             /\ 2 * Cardinality({i \in DOMAIN values : 100 * values[i] <= p50}) >= n
<1>1. Len(values) = n /\ DOMAIN values = 1 .. n /\ values # <<>>
  OBVIOUS
<1> DEFINE k(p) == (n - 1) * p
<1>2. /\ Percentile(values, 50) = At(values, k(50))
      /\ Percentile(values, 95) = At(values, k(95))
      /\ Percentile(values, 99) = At(values, k(99))
  BY <1>1 DEF Percentile, At, Whole, Part, Upper
<1>3. /\ k(50) \in 0 .. 100 * (n - 1) /\ k(95) \in 0 .. 100 * (n - 1)
      /\ k(99) \in 0 .. 100 * (n - 1) /\ k(50) <= k(95) /\ k(95) <= k(99)
      /\ k(50) = 50 * (n - 1)
  OBVIOUS
<1> HIDE DEF k
<1>4. At(values, k(50)) <= At(values, k(95)) /\ At(values, k(95)) <= At(values, k(99))
  BY <1>3, AtRises
<1> DEFINE low == Whole(k(50))
<1>5. low \in 0 .. n - 1 /\ 100 * values[low + 1] <= At(values, k(50)) /\ At(values, k(50)) \in Nat
  BY <1>3, AtBetween
<1>6. \A i \in 1 .. low + 1 : i \in 1 .. n /\ values[i] \in Nat /\ values[i] <= values[low + 1]
                              /\ values[low + 1] \in Nat
  BY <1>1, <1>5 DEF Rising
<1>7. 100 * values[1] <= At(values, k(50))
  <2>1. 1 \in 1 .. low + 1
    BY <1>5
  <2> HIDE DEF low
  <2> QED BY <1>5, <1>6, <2>1
<1>8. At(values, k(99)) <= 100 * values[n]
  <2> DEFINE upper == Upper(k(99), n)
  <2>1. /\ Whole(k(99)) \in 0 .. n - 1 /\ upper \in Whole(k(99)) .. n - 1
        /\ At(values, k(99)) \in Nat /\ At(values, k(99)) <= 100 * values[upper + 1]
    BY <1>3, AtBetween
  <2> HIDE DEF upper
  <2>2. upper + 1 \in 1 .. n /\ n \in 1 .. n /\ upper + 1 <= n
    BY <2>1
  <2>3. values[upper + 1] <= values[n] /\ values[upper + 1] \in Nat /\ values[n] \in Nat
    BY <1>1, <2>2 DEF Rising
  <2> QED BY <2>1, <2>3
<1>9. 2 * Cardinality({i \in DOMAIN values : 100 * values[i] <= Percentile(values, 50)}) >= n
  <2> DEFINE H == {i \in DOMAIN values : 100 * values[i] <= Percentile(values, 50)}
  <2>1. 2 * (low + 1) >= n
    <3>1. k(50) \in Nat
      BY <1>3
    <3>2. k(50) = 100 * low + Part(k(50)) /\ Part(k(50)) \in 0 .. 99
      BY <3>1, Hundredths
    <3>3. low \in 0 .. n - 1 /\ k(50) = 50 * (n - 1)
      BY <1>3, <1>5
    <3> DEFINE c == Part(k(50))
    <3>4. c \in 0 .. 99 /\ 50 * (n - 1) = 100 * low + c
      BY <3>2, <3>3
    <3> HIDE DEF low, c
    <3> QED BY <3>3, <3>4
  <2> HIDE DEF low
  <2>2. 1 .. low + 1 \in SUBSET H
    <3>1. ASSUME NEW i \in 1 .. low + 1 PROVE i \in H
      <4>1. 100 * values[i] <= At(values, k(50))
        BY <1>5, <1>6
      <4> QED BY <1>1, <1>2, <1>6, <4>1
    <3> QED BY <3>1
  <2>3. IsFiniteSet(H)
    <3>1. H \in SUBSET (1 .. n)
      BY <1>1
    <3>2. IsFiniteSet(1 .. n)
      BY FS_Interval
    <3> QED BY <3>1, <3>2, FS_Subset
  <2>4. Cardinality(1 .. low + 1) = low + 1
    BY <1>5, FS_Interval
  <2> HIDE DEF H
  <2>5. Cardinality(1 .. low + 1) <= Cardinality(H) /\ Cardinality(H) \in Nat
    BY <2>2, <2>3, PartCounted
  <2>6. 2 * Cardinality(H) >= n
    BY <1>5, <2>1, <2>4, <2>5
  <2> QED BY <2>6 DEF H
<1> QED BY <1>2, <1>4, <1>7, <1>8, <1>9

-----------------------------------------------------------------------------
(* What the queries select. *)

LEMMA Selected ==
  ASSUME NEW T
  PROVE  /\ \A range : Matching(T, [NoFilter EXCEPT !.range = range]) = FilterTasks(T, None, range)
         /\ FilterTasks(T, None, None) = Rowed(T)
         /\ Matching(T, NoFilter) = Rowed(T)
         /\ \A name, range : FilterTasks(T, name, range) \in SUBSET Rowed(T)
<1>1. ASSUME NEW range
      PROVE  Matching(T, [NoFilter EXCEPT !.range = range]) = FilterTasks(T, None, range)
  <2> DEFINE f == [NoFilter EXCEPT !.range = range]
  <2>1. /\ f.name = None /\ f.state = None /\ f.worker = None /\ f.group = None
        /\ f.root = None /\ f.search = None /\ f.range = range
    BY DEF NoFilter
  <2> HIDE DEF f
  <2>2. Matching(T, f) = FilterTasks(T, None, range)
    BY <2>1 DEF Matching, MatchesFilter, FilterTasks
  <2> QED BY <2>2 DEF f
<1>2. FilterTasks(T, None, None) = Rowed(T)
  BY DEF FilterTasks, Rowed
<1>3. Matching(T, NoFilter) = Rowed(T)
  <2>1. /\ NoFilter.name = None /\ NoFilter.state = None /\ NoFilter.worker = None
        /\ NoFilter.group = None /\ NoFilter.root = None /\ NoFilter.search = None
        /\ NoFilter.range = None
    BY DEF NoFilter
  <2> QED BY <2>1 DEF Matching, MatchesFilter, Rowed
<1>4. \A name, range : FilterTasks(T, name, range) \in SUBSET Rowed(T)
  BY DEF FilterTasks
<1> QED BY <1>1, <1>2, <1>3, <1>4

LEMMA InfoTyped ==
  ASSUME NEW row \in TaskRow
  PROVE  /\ Info(row, "runtime") \in Opt(Nat)
         /\ row.state \in States
<1>1. SortColumn(row, "runtime") \in Opt(Nat)
  BY FieldsTyped
<1>2. SortColumn(row, "runtime") = Info(row, "runtime")
  BY DEF SortColumn, SortColumns
<1> QED BY <1>1, <1>2 DEF TaskRow

-----------------------------------------------------------------------------
(* Ranges: every task of a range is in one bucket and in one cell. *)

LEMMA BucketInRange ==
  ASSUME NEW start \in Nat, NEW end \in Nat, NEW stamp \in Nat, start <= stamp, stamp <= end,
         NEW width \in Nat \ {0}
  PROVE  BucketStart(start, stamp, width) \in InitBuckets([start |-> start, end |-> end], width)
<1> DEFINE x == stamp - start
           i == x \div width
           y == i * width
<1>1. x \in Nat
  OBVIOUS
<1>2. i \in Nat /\ y <= x
  <2> HIDE DEF x
  <2> QED BY <1>1
<1>3. BucketStart(start, stamp, width) = start + y
  BY <1>2 DEF BucketStart
<1>4. y \in Nat /\ y % width = 0
  <2> HIDE DEF i
  <2> QED BY <1>2
<1>5. start + y \in start .. end /\ (start + y) - start = y
  <2> HIDE DEF y, i
  <2> QED BY <1>1, <1>2, <1>4
<1> HIDE DEF y, i, x
<1> QED BY <1>3, <1>4, <1>5 DEF InitBuckets

LEMMA RangeCounted ==
  ASSUME NEW T \in Table, NEW start \in Nat, NEW end \in Nat,
         NEW width \in Nat \ {0}, NEW week \in Nat \ {0}
  PROVE  LET range == [start |-> start, end |-> end]
             count == Cardinality(Matching(T, [NoFilter EXCEPT !.range = range]))
         IN  /\ TotalOf(GetThroughput(T, range, width)) = count
             /\ TotalOf(GetHeatmap(T, range, week)) = count
<1> DEFINE range == [start |-> start, end |-> end]
           S == FilterTasks(T, None, range)
<1>1. Matching(T, [NoFilter EXCEPT !.range = range]) = S
  BY Selected
<1>2. S \in SUBSET Rowed(T)
  BY Selected
<1>3. IsFiniteSet(S) /\ \A t \in S : T[t] \in TaskRow
  <2> HIDE DEF S
  <2> QED BY <1>2, RowedTyped
<1>4. range # None /\ range.start = start /\ range.end = end
  BY QueriesAssumption
<1>5. ASSUME NEW t \in S
      PROVE  Age(T[t]) # None /\ Age(T[t]) \in Nat /\ start <= Age(T[t]) /\ Age(T[t]) <= end
  <2>1. Within(Age(T[t]), range)
    BY <1>4 DEF FilterTasks
  <2>2. Age(T[t]) \in Opt(Nat)
    BY <1>3, FieldsTyped
  <2> HIDE DEF range
  <2> QED BY <1>4, <2>1, <2>2 DEF Within, Opt
<1> HIDE DEF S
<1>6. TotalOf(GetThroughput(T, range, width)) = Cardinality(S)
  <2> DEFINE D == InitBuckets(range, width)
             c == [t \in S |-> BucketStart(start, Age(T[t]), width)]
             f == GetThroughput(T, range, width)
  <2>1. c \in [S -> D]
    BY <1>5, BucketInRange
  <2>2. IsFiniteSet(D)
    <3>1. D \in SUBSET (start .. end)
      BY <1>4 DEF InitBuckets
    <3>2. IsFiniteSet(start .. end)
      BY FS_Interval
    <3> HIDE DEF D
    <3> QED BY <3>1, <3>2, FS_Subset
  <2>3. f = [b \in D |-> Cardinality({t \in S : c[t] = b})]
    <3>1. \A b : {t \in S : c[t] = b} = {t \in S : BucketStart(range.start, Age(T[t]), width) = b}
      BY <1>4
    <3>2. f = [b \in D |-> Cardinality({t \in S : BucketStart(range.start, Age(T[t]), width) = b})]
      BY DEF GetThroughput, S
    <3> HIDE DEF c, f, D, range
    <3> QED BY <3>1, <3>2
  <2> HIDE DEF c, f, D
  <2>4. TotalOf(f) = Cardinality(S)
    BY <1>3, <2>1, <2>2, <2>3, CountsAddUp
  <2> QED BY <2>4 DEF f
<1>7. TotalOf(GetHeatmap(T, range, week)) = Cardinality(S)
  <2> DEFINE D == 0 .. week - 1
             c == [t \in S |-> Age(T[t]) % week]
             f == GetHeatmap(T, range, week)
  <2>1. c \in [S -> D]
    BY <1>5
  <2>2. IsFiniteSet(D)
    BY FS_Interval
  <2>3. f = [b \in D |-> Cardinality({t \in S : c[t] = b})]
    <3>1. \A b : {t \in S : c[t] = b} = {t \in S : Age(T[t]) # None /\ Age(T[t]) % week = b}
      BY <1>5
    <3>2. f = [b \in D |-> Cardinality({t \in S : Age(T[t]) # None /\ Age(T[t]) % week = b})]
      BY DEF GetHeatmap, S
    <3> HIDE DEF c, f, D, range
    <3> QED BY <3>1, <3>2
  <2> HIDE DEF c, f, D
  <2>4. TotalOf(f) = Cardinality(S)
    BY <1>3, <2>1, <2>2, <2>3, CountsAddUp
  <2> QED BY <2>4 DEF f
<1> QED BY <1>1, <1>6, <1>7

LEMMA RangesAgree ==
  ASSUME PagesShape
  PROVE  RangesCounted
<1> SUFFICES ASSUME NEW n \in {1, 2}
             PROVE  LET inRange == Cardinality(Matching(tasks, [NoFilter EXCEPT !.range = LastHours(n)]))
                    IN  /\ TotalOf(GetThroughput(tasks, LastHours(n), Hour)) = inRange
                        /\ TotalOf(GetHeatmap(tasks, LastHours(n), Week)) = inRange
  BY DEF RangesCounted
<1>1. now \in Nat /\ Hour \in Nat \ {0} /\ Week \in Nat \ {0} /\ tasks \in Table
  BY PagesAssumption DEF PagesShape, Times
<1> DEFINE start == IF now < n * Hour THEN 0 ELSE now - n * Hour
<1>2. start \in Nat
  BY <1>1
<1>3. LastHours(n) = [start |-> start, end |-> now]
  BY DEF LastHours
<1> HIDE DEF start
<1> QED BY <1>1, <1>2, <1>3, RangeCounted

-----------------------------------------------------------------------------
(* Statistics. *)

LEMMA ClassesFinite ==
  ASSUME NEW S, IsFiniteSet(S), NEW c, DOMAIN c = S
  PROVE  IsFiniteSet({c[t] : t \in S})
<1> DEFINE D == {c[t] : t \in S}
           g == [t \in S |-> c[t]]
<1>1. g \in Surjection(S, D)
  BY DEF Surjection
<1> HIDE DEF D, g
<1>2. IsFiniteSet(D)
  BY <1>1, FS_Surjection
<1> QED BY <1>2 DEF D

LEMMA RuntimesRise ==
  ASSUME NEW T \in Table, NEW S \in SUBSET Rowed(T)
  PROVE  LET D == {t \in S : Info(T[t], "runtime") # None}
             value == [t \in D |-> Info(T[t], "runtime")]
         IN  /\ IsFiniteSet(D) /\ Cardinality(D) \in Nat /\ value \in [D -> Nat]
             /\ Runtimes(T, S) = Ascending(value)
             /\ Runtimes(T, S) \in [1 .. Cardinality(D) -> Nat]
             /\ Rising(Runtimes(T, S))
<1> DEFINE D == {t \in S : Info(T[t], "runtime") # None}
           value == [t \in D |-> Info(T[t], "runtime")]
           n == Cardinality(D)
           r == Runtimes(T, S)
<1>1. IsFiniteSet(S) /\ \A t \in S : T[t] \in TaskRow
  BY RowedTyped
<1>2. IsFiniteSet(D)
  BY <1>1, FS_Subset
<1>3. \A t \in D : Info(T[t], "runtime") \in Nat
  BY <1>1, InfoTyped DEF Opt
<1>4. value \in [D -> Nat]
  BY <1>3
<1>5. r = Ascending(value)
  BY DEF Runtimes
<1> HIDE DEF value, D, r
<1>6. n \in Nat /\ r \in [1 .. n -> Nat]
  BY <1>2, <1>4, <1>5, AscendingPlaces
<1>7. \A i, j \in 1 .. n : i <= j => r[i] <= r[j]
  BY <1>2, <1>4, <1>5, AscendingRises
<1>8. Len(r) = n
  BY <1>6
<1>9. Rising(r)
  BY <1>7, <1>8 DEF Rising
<1> QED BY <1>2, <1>4, <1>5, <1>6, <1>9 DEF value, D, r

LEMMA PercentilesAgree ==
  ASSUME PagesShape
  PROVE  PercentilesOrdered
<1> DEFINE r == Runtimes(tasks, Rowed(tasks))
           all == GetTaskStats(tasks, None, None).times
           D == {t \in Rowed(tasks) : Info(tasks[t], "runtime") # None}
           n == Cardinality(D)
<1>1. all = RuntimeStats(r)
  BY Selected DEF GetTaskStats
<1>2. tasks \in Table /\ Rowed(tasks) \in SUBSET Rowed(tasks)
  BY DEF PagesShape
<1>3. n \in Nat /\ r \in [1 .. n -> Nat] /\ Rising(r)
  BY <1>2, RuntimesRise
<1> HIDE DEF D, r, all
<1>4. SUFFICES ASSUME all.min # None
               PROVE  /\ 100 * all.min <= all.p50 /\ all.p50 <= all.p95 /\ all.p95 <= all.p99
                      /\ all.p99 <= 100 * all.max
                      /\ 2 * Cardinality({i \in DOMAIN r : 100 * r[i] <= all.p50}) >= Len(r)
  BY DEF PercentilesOrdered, all, r
<1>5. r # <<>>
  BY <1>1, <1>4 DEF RuntimeStats
<1>6. n # 0 /\ Len(r) = n
  BY <1>3, <1>5
<1>7. /\ all.min = r[1] /\ all.max = r[n] /\ all.p50 = Percentile(r, 50)
      /\ all.p95 = Percentile(r, 95) /\ all.p99 = Percentile(r, 99)
  BY <1>1, <1>5, <1>6 DEF RuntimeStats
<1>8. n \in Nat \ {0}
  BY <1>3, <1>6
<1> HIDE DEF n
<1>9. /\ 100 * r[1] <= Percentile(r, 50) /\ Percentile(r, 50) <= Percentile(r, 95)
      /\ Percentile(r, 95) <= Percentile(r, 99) /\ Percentile(r, 99) <= 100 * r[n]
      /\ 2 * Cardinality({i \in DOMAIN r : 100 * r[i] <= Percentile(r, 50)}) >= n
  BY <1>3, <1>8, PercentilesRise
<1> QED BY <1>6, <1>7, <1>9

(* The seq of a list are its tasks, one place each. *)
LEMMA RowsOnce ==
  ASSUME NEW T \in Table
  PROVE  LET seq == GetTasks(T, NoFilter)
         IN  seq \in Bijection(DOMAIN seq, Rowed(T))
<1> DEFINE S == Rowed(T)
           n == Cardinality(S)
           seq == GetTasks(T, NoFilter)
<1>1. S \in SUBSET Rowed(T) /\ IsFiniteSet(S)
  BY RowedTyped
<1>2. seq = OrderBy(T, S, None, "desc")
  BY Selected DEF GetTasks
<1> HIDE DEF seq, S
<1>3. n \in Nat /\ seq \in [1 .. n -> S] /\ \A t \in S : \E i \in 1 .. n : seq[i] = t
  BY <1>1, <1>2, OrderByTyped
<1>4. seq \in Surjection(1 .. n, S)
  BY <1>3 DEF Surjection
<1>5. IsFiniteSet(1 .. n) /\ Cardinality(1 .. n) = n
  BY <1>3, FS_Interval
<1>6. seq \in Injection(1 .. n, S)
  BY <1>4, <1>5, FS_SurjSameCardinalityImpliesInj
<1>7. DOMAIN seq = 1 .. n
  BY <1>3
<1> QED BY <1>4, <1>6, <1>7 DEF Bijection, seq, S

(* The statistics of a name, from its places in the list and from its tasks. *)
LEMMA SameStats ==
  ASSUME NEW T \in Table, NEW name
  PROVE  LET seq == GetTasks(T, NoFilter)
             S == {t \in Rowed(T) : StatsName(T[t]) = name}
             group == {i \in DOMAIN seq : StatsName(T[seq[i]]) = name}
             runtime(i) == Info(T[seq[i]], "runtime")
         IN  /\ Cardinality(group) = Cardinality(S)
             /\ Ascending([i \in {i \in group : runtime(i) # None} |-> runtime(i)]) = Runtimes(T, S)
<1> DEFINE seq == GetTasks(T, NoFilter)
           S == {t \in Rowed(T) : StatsName(T[t]) = name}
           group == {i \in DOMAIN seq : StatsName(T[seq[i]]) = name}
           runtime(i) == Info(T[seq[i]], "runtime")
           D == {t \in S : Info(T[t], "runtime") # None}
           E == {i \in group : runtime(i) # None}
           value == [t \in D |-> Info(T[t], "runtime")]
           other == [i \in E |-> runtime(i)]
<1>1. seq \in Bijection(DOMAIN seq, Rowed(T))
  BY RowsOnce
<1>2. /\ seq \in [DOMAIN seq -> Rowed(T)]
      /\ \A i, j \in DOMAIN seq : seq[i] = seq[j] => i = j
      /\ \A t \in Rowed(T) : \E i \in DOMAIN seq : seq[i] = t
  BY <1>1 DEF Bijection, Injection, Surjection, IsInjective
<1>3. IsFiniteSet(Rowed(T)) /\ S \in SUBSET Rowed(T)
  BY RowedTyped
<1> HIDE DEF seq
<1>4. group = {i \in DOMAIN seq : seq[i] \in S}
  BY <1>2
<1>5. Cardinality(group) = Cardinality(S)
  BY <1>1, <1>3, <1>4, AsMany
<1>6. IsFiniteSet(D) /\ value \in [D -> Nat] /\ Runtimes(T, S) = Ascending(value)
  BY <1>3, RuntimesRise
<1> DEFINE p == [i \in E |-> seq[i]]
<1>7. p \in [E -> D] /\ \A i \in E : p[i] = seq[i]
  BY <1>2
<1>8. (\A i, j \in E : p[i] = p[j] => i = j) /\ \A t \in D : \E i \in E : p[i] = t
  BY <1>2
<1>9. \A i \in E : other[i] = value[p[i]]
  BY <1>7
<1>10. other \in [E -> Nat]
  <2>1. \A i \in E : value[p[i]] \in Nat
    <3> HIDE DEF p, value, D, E
    <3> QED BY <1>6, <1>7
  <2>2. other \in [E -> {other[i] : i \in E}]
    OBVIOUS
  <2> HIDE DEF p, value, D, E, other
  <2> QED BY <1>9, <2>1, <2>2
<1> HIDE DEF p, value, D, E, other
<1>11. p \in Bijection(E, D)
  BY <1>7, <1>8 DEF Bijection, Injection, Surjection, IsInjective
<1>12. Ascending(other) = Ascending(value)
  BY <1>6, <1>9, <1>10, <1>11, AscendingSame
<1> QED BY <1>5, <1>6, <1>12 DEF other, E, seq

LEMMA ToolAgreesWithTab ==
  ASSUME NEW T \in Table
  PROVE  LET stats == BuildStatsRows(T)
         IN  FetchTaskStats(T) = [name \in DOMAIN stats |->
               [count |-> stats[name].count, times |-> stats[name].times]]
<1> DEFINE seq == GetTasks(T, NoFilter)
           N == {StatsName(T[t]) : t \in Rowed(T)}
           S(name) == {t \in Rowed(T) : StatsName(T[t]) = name}
           stats == BuildStatsRows(T)
           group(name) == {i \in DOMAIN seq : StatsName(T[seq[i]]) = name}
           runtime(i) == Info(T[seq[i]], "runtime")
           times(name) == Ascending([i \in {i \in group(name) : runtime(i) # None} |-> runtime(i)])
<1>1. /\ DOMAIN stats = N
      /\ \A name \in N : /\ stats[name].count = Cardinality(S(name))
                         /\ stats[name].times = RuntimeStats(Runtimes(T, S(name)))
  BY DEF BuildStatsRows
<1>2. {StatsName(T[seq[i]]) : i \in DOMAIN seq} = N
  <2>1. seq \in Bijection(DOMAIN seq, Rowed(T))
    BY RowsOnce
  <2>2. seq \in [DOMAIN seq -> Rowed(T)] /\ \A t \in Rowed(T) : \E i \in DOMAIN seq : seq[i] = t
    BY <2>1 DEF Bijection, Injection, Surjection
  <2> HIDE DEF seq
  <2> QED BY <2>2
<1>3. FetchTaskStats(T) = [name \in {StatsName(T[seq[i]]) : i \in DOMAIN seq} |->
        [count |-> Cardinality(group(name)), times |-> RuntimeStats(times(name))]]
  BY DEF FetchTaskStats
<1>4. \A name : Cardinality(group(name)) = Cardinality(S(name)) /\ times(name) = Runtimes(T, S(name))
  BY SameStats
<1> HIDE DEF stats, N, S, group, times, seq
<1>5. \A name \in N : [count |-> Cardinality(group(name)), times |-> RuntimeStats(times(name))]
                        = [count |-> stats[name].count, times |-> stats[name].times]
  BY <1>1, <1>4
<1> QED BY <1>1, <1>2, <1>3, <1>5 DEF stats

LEMMA StatesFinite == IsFiniteSet(States)
<1>1. \A x : IsFiniteSet({x})
  BY FS_Singleton
<1>2. /\ States = {"SUCCESS"} \cup {"FAILURE"} \cup {"REVOKED"} \cup {"PENDING"} \cup {"RECEIVED"}
                  \cup {"STARTED"} \cup {"RETRY"} \cup {"REJECTED"}
  BY DEF States, FinalStates, WaitingStates
<1>3. \A A, B : IsFiniteSet(A) /\ IsFiniteSet(B) => IsFiniteSet(A \cup B)
  BY FS_Union
<1> QED BY <1>1, <1>2, <1>3

ShownAs(state) == IF state = "RECEIVED" THEN "PENDING" ELSE state
OnCard(T, s) == {t \in Rowed(T) : ShownAs(T[t].state) = s}

(* A card counts the tasks of its state, PENDING those of RECEIVED too. *)
LEMMA CardsCount ==
  ASSUME NEW T \in Table, NEW time, NEW hour,
         NEW s \in {"SUCCESS", "FAILURE", "STARTED", "PENDING"}
  PROVE  StateCards(T, time, hour)[s].count = Cardinality(OnCard(T, s))
<1> DEFINE R == Rowed(T)
           having(x) == {t \in R : T[t].state = x}
           counts == GetStateDistribution(T)
           current == CollapseReceived(counts)
           of(x) == IF x \in DOMAIN counts THEN counts[x] ELSE 0
<1>1. StateCards(T, time, hour)[s].count = IF s \in DOMAIN current THEN current[s] ELSE 0
  BY DEF StateCards
<1>2. IsFiniteSet(R)
  BY RowedTyped
<1>3. \A x : IsFiniteSet(having(x)) /\ Cardinality(having(x)) \in Nat
  BY <1>2, FS_Subset, FS_CardinalityType
<1>4. ASSUME NEW x PROVE of(x) = Cardinality(having(x))
  <2>1. counts = [y \in {T[t].state : t \in R} |-> Cardinality(having(y))]
    BY DEF GetStateDistribution
  <2>2. CASE x \in DOMAIN counts
    <3> HIDE DEF having, R, counts
    <3> QED BY <2>1, <2>2
  <2>3. CASE x \notin DOMAIN counts
    <3>1. having(x) = {}
      BY <2>1, <2>3
    <3> QED BY <2>3, <3>1, FS_EmptySet
  <2> QED BY <2>2, <2>3
<1> HIDE DEF counts
<1>5. CASE s # "PENDING"
  <2>1. OnCard(T, s) = having(s)
    BY <1>5 DEF OnCard, ShownAs
  <2>2. (IF s \in DOMAIN current THEN current[s] ELSE 0) = of(s)
    BY <1>5 DEF CollapseReceived
  <2> HIDE DEF current, of, having
  <2> QED BY <1>1, <1>4, <2>1, <2>2
<1>6. CASE s = "PENDING"
  <2>1. OnCard(T, s) = having("PENDING") \cup having("RECEIVED")
    BY <1>6 DEF OnCard, ShownAs
  <2>2. having("PENDING") \cap having("RECEIVED") = {}
    OBVIOUS
  <2>3. Cardinality(OnCard(T, s)) = of("PENDING") + of("RECEIVED")
    <3> HIDE DEF having, of
    <3> QED BY <1>3, <1>4, <2>1, <2>2, TwoCounts
  <2>4. of("PENDING") \in Nat /\ of("RECEIVED") \in Nat
    <3> HIDE DEF having, of
    <3> QED BY <1>3, <1>4
  <2>5. (IF s \in DOMAIN current THEN current[s] ELSE 0) = of("PENDING") + of("RECEIVED")
    <3>1. CASE "RECEIVED" \in DOMAIN counts
      <4>1. current = [x \in (DOMAIN counts \ {"RECEIVED"}) \cup {"PENDING"} |->
                        IF x = "PENDING" THEN of("PENDING") + of("RECEIVED") ELSE counts[x]]
        BY <3>1 DEF CollapseReceived
      <4> HIDE DEF of, current
      <4> QED BY <1>6, <4>1
    <3>2. CASE "RECEIVED" \notin DOMAIN counts
      <4>1. current = counts /\ of("RECEIVED") = 0
        BY <3>2 DEF CollapseReceived
      <4>2. (IF s \in DOMAIN current THEN current[s] ELSE 0) = of("PENDING")
        BY <1>6, <4>1
      <4> HIDE DEF of, current
      <4> QED BY <2>4, <4>1, <4>2
    <3> QED BY <3>1, <3>2
  <2> HIDE DEF current, of, having
  <2> QED BY <1>1, <2>3, <2>5
<1> QED BY <1>5, <1>6

LEMMA StatesAgree ==
  ASSUME PagesShape
  PROVE  StatesCounted
<1> DEFINE R == Rowed(tasks)
           total == GetTasksPage(tasks, NoFilter, None, None, PageSize, 0).total
           stats == BuildStatsRows(tasks)
           cards == StateCards(tasks, now, Hour)
           others == {t \in R : tasks[t].state \in {"RETRY", "REVOKED", "REJECTED"}}
<1>1. tasks \in Table
  BY DEF PagesShape
<1>2. IsFiniteSet(R) /\ \A t \in R : tasks[t].state \in States
  BY <1>1, RowedTyped, InfoTyped
<1>3. total = Cardinality(R)
  BY Selected DEF GetTasksPage
<1>4. TotalOf(GetStateDistribution(tasks)) = Cardinality(R)
  <2> DEFINE D == {tasks[t].state : t \in R}
             c == [t \in R |-> tasks[t].state]
             f == GetStateDistribution(tasks)
  <2>1. c \in [R -> D]
    OBVIOUS
  <2>2. IsFiniteSet(D)
    <3>1. D \in SUBSET States
      BY <1>2
    <3> HIDE DEF D
    <3> QED BY <3>1, StatesFinite, FS_Subset
  <2>3. f = [x \in D |-> Cardinality({t \in R : c[t] = x})]
    <3>1. \A x : {t \in R : c[t] = x} = {t \in R : tasks[t].state = x}
      OBVIOUS
    <3>2. f = [x \in D |-> Cardinality({t \in R : tasks[t].state = x})]
      BY DEF GetStateDistribution
    <3> HIDE DEF c, f, D, R
    <3> QED BY <3>1, <3>2
  <2> HIDE DEF c, f, D, R
  <2>4. TotalOf(f) = Cardinality(R)
    BY <1>2, <2>1, <2>2, <2>3, CountsAddUp
  <2> QED BY <2>4 DEF f, R
<1>5. DOMAIN stats = {StatsName(tasks[t]) : t \in R}
  BY DEF BuildStatsRows
<1>6. TotalOf([name \in DOMAIN stats |-> stats[name].count]) = Cardinality(R)
  <2> DEFINE D == DOMAIN stats
             c == [t \in R |-> StatsName(tasks[t])]
             f == [name \in D |-> stats[name].count]
  <2>1. c \in [R -> D] /\ D = {c[t] : t \in R}
    BY <1>5
  <2>2. \A name \in D : stats[name].count = Cardinality({t \in R : StatsName(tasks[t]) = name})
    BY DEF BuildStatsRows
  <2>3. \A name : {t \in R : c[t] = name} = {t \in R : StatsName(tasks[t]) = name}
    OBVIOUS
  <2> HIDE DEF stats, R
  <2>4. DOMAIN c = R
    OBVIOUS
  <2> HIDE DEF c, D
  <2>5. IsFiniteSet(D)
    BY <1>2, <2>1, <2>4, ClassesFinite
  <2>6. f = [x \in D |-> Cardinality({t \in R : c[t] = x})]
    BY <2>2, <2>3
  <2> HIDE DEF f
  <2>7. TotalOf(f) = Cardinality(R)
    BY <1>2, <2>1, <2>5, <2>6, CountsAddUp
  <2> QED BY <2>7 DEF f, D
<1>7. DOMAIN stats = ListTaskNames(tasks)
  BY <1>5 DEF ListTaskNames, StatsName
<1>8. FetchTaskStats(tasks) = [name \in DOMAIN stats |->
        [count |-> stats[name].count, times |-> stats[name].times]]
  BY <1>1, ToolAgreesWithTab
<1>9. TotalOf([s \in DOMAIN cards |-> cards[s].count]) = Cardinality(R) - Cardinality(others)
  <2> DEFINE D == {"SUCCESS", "FAILURE", "STARTED", "PENDING"}
             shown(t) == ShownAs(tasks[t].state)
             S == {t \in R : shown(t) \in D}
             c == [t \in S |-> shown(t)]
             f == [s \in DOMAIN cards |-> cards[s].count]
  <2>1. DOMAIN cards = D
    BY DEF StateCards
  <2>2. ASSUME NEW s \in D PROVE cards[s].count = Cardinality({t \in R : shown(t) = s})
    <3>1. s \in {"SUCCESS", "FAILURE", "STARTED", "PENDING"}
      OBVIOUS
    <3>2. cards[s].count = Cardinality(OnCard(tasks, s))
      BY <1>1, <3>1, CardsCount
    <3>3. OnCard(tasks, s) = {t \in R : shown(t) = s}
      BY DEF OnCard
    <3> QED BY <3>2, <3>3
  <2>3. c \in [S -> D] /\ IsFiniteSet(S)
    BY <1>2, FS_Subset
  <2>4. IsFiniteSet(D)
    <3>1. D \in SUBSET States
      BY DEF States, FinalStates, WaitingStates
    <3> HIDE DEF D
    <3> QED BY <3>1, StatesFinite, FS_Subset
  <2>5. R = S \cup others /\ S \cap others = {}
    BY <1>2 DEF States, FinalStates, WaitingStates, ShownAs
  <2>6. Cardinality(R) = Cardinality(S) + Cardinality(others)
        /\ Cardinality(S) \in Nat /\ Cardinality(others) \in Nat
    <3>1. IsFiniteSet(others)
      BY <1>2, FS_Subset
    <3> HIDE DEF S, others, R
    <3> QED BY <2>3, <2>5, <3>1, TwoCounts
  <2>7. \A s \in D : {t \in S : c[t] = s} = {t \in R : shown(t) = s}
    OBVIOUS
  <2> HIDE DEF c, S, cards, D, shown
  <2>8. f = [s \in D |-> Cardinality({t \in S : c[t] = s})]
    BY <2>1, <2>2, <2>7
  <2> HIDE DEF f
  <2>9. TotalOf(f) = Cardinality(S)
    BY <2>3, <2>4, <2>8, CountsAddUp
  <2> HIDE DEF others, R
  <2>10. TotalOf(f) = Cardinality(R) - Cardinality(others)
    BY <2>6, <2>9
  <2> QED BY <2>10 DEF f
<1> QED BY <1>3, <1>4, <1>6, <1>7, <1>8, <1>9 DEF StatesCounted

-----------------------------------------------------------------------------
(* Workers and the feed. *)

LEMMA WorkersAgree ==
  ASSUME PagesShape
  PROVE  WorkersCounted
<1> DEFINE R == Rowed(tasks)
           workers == {Info(tasks[t], "worker") : t \in R} \ {None}
           cells == WorkerCells(tasks, workers)
<1>1. tasks \in Table /\ now \in Nat /\ Day \in Nat \ {0}
  BY PagesAssumption DEF PagesShape, Times
<1>2. IsFiniteSet(R) /\ \A t \in R : tasks[t] # NoRow /\ tasks[t] \in TaskRow
  BY <1>1, RowedTyped DEF Rowed
<1>3. ASSUME NEW w \in workers
      PROVE  Processed(cells[w]) =
               Cardinality({t \in Matching(tasks, [NoFilter EXCEPT !.worker = w]) : Final(tasks[t])})
  <2> DEFINE M == {t \in R : Info(tasks[t], "worker") = w}
             F == {t \in Matching(tasks, [NoFilter EXCEPT !.worker = w]) : Final(tasks[t])}
             having(s) == {t \in M : tasks[t].state = s}
  <2>1. F = {t \in M : tasks[t].state \in FinalStates}
    <3> DEFINE f == [NoFilter EXCEPT !.worker = w]
    <3>1. /\ f.name = None /\ f.state = None /\ f.worker = w /\ f.group = None
          /\ f.root = None /\ f.search = None /\ f.range = None /\ w # None
      BY DEF NoFilter
    <3> HIDE DEF f, workers
    <3>2. Matching(tasks, f) = M
      BY <3>1 DEF Matching, MatchesFilter
    <3> HIDE DEF M
    <3>3. F = {t \in M : Final(tasks[t])}
      BY <3>2 DEF f
    <3>4. \A t \in M : Final(tasks[t]) <=> tasks[t].state \in FinalStates
      BY <1>2 DEF Final, M
    <3> HIDE DEF F
    <3> QED BY <3>3, <3>4
  <2>2. \A s : IsFiniteSet(having(s))
    BY <1>2, FS_Subset
  <2>3. /\ cells[w]["SUCCESS"] = Cardinality(having("SUCCESS"))
        /\ cells[w]["FAILURE"] = Cardinality(having("FAILURE"))
        /\ cells[w]["REVOKED"] = Cardinality(having("REVOKED"))
    <3> DEFINE shown(t) == IF tasks[t].state = "RECEIVED" THEN "PENDING" ELSE tasks[t].state
    <3>1. ASSUME NEW s \in FinalStates PROVE cells[w][s] = Cardinality({t \in M : shown(t) = s})
      <4>1. s \in States \ {"RECEIVED", "REJECTED"}
        BY DEF States, FinalStates
      <4> HIDE DEF workers
      <4> QED BY <4>1 DEF WorkerCells
    <3>2. \A s \in FinalStates : {t \in M : shown(t) = s} = having(s)
      BY DEF FinalStates
    <3>3. "SUCCESS" \in FinalStates /\ "FAILURE" \in FinalStates /\ "REVOKED" \in FinalStates
      BY DEF FinalStates
    <3> HIDE DEF M, cells, having
    <3> QED BY <3>1, <3>2, <3>3
  <2>4. F = (having("SUCCESS") \cup having("FAILURE")) \cup having("REVOKED")
    BY <2>1 DEF FinalStates
  <2>5. /\ having("SUCCESS") \cap having("FAILURE") = {}
        /\ (having("SUCCESS") \cup having("FAILURE")) \cap having("REVOKED") = {}
    OBVIOUS
  <2> HIDE DEF having, F, cells, M
  <2>6. /\ IsFiniteSet(having("SUCCESS") \cup having("FAILURE"))
        /\ Cardinality(having("SUCCESS") \cup having("FAILURE"))
             = Cardinality(having("SUCCESS")) + Cardinality(having("FAILURE"))
    BY <2>2, <2>5, TwoCounts
  <2>7. Cardinality(F) = Cardinality(having("SUCCESS") \cup having("FAILURE"))
                           + Cardinality(having("REVOKED"))
    BY <2>2, <2>4, <2>5, <2>6, TwoCounts
  <2>8. Processed(cells[w]) = Cardinality(F)
    BY <2>3, <2>6, <2>7 DEF Processed
  <2> QED BY <2>8 DEF F
<1>4. Len(ActivityFeed(tasks, now, Day)) <= TasksToday(tasks, now, Day, Hour).count
        + Cardinality({t \in R : Age(tasks[t]) # None /\ Age(tasks[t]) < (now \div Day) * Day})
  <2> DEFINE midnight == (now \div Day) * Day
             lastDay == [start |-> now - Day, end |-> now]
             today == FilterTasks(tasks, None, [start |-> midnight, end |-> now])
             older == {t \in R : Age(tasks[t]) # None /\ Age(tasks[t]) < midnight}
             M == FilterTasks(tasks, None, lastDay)
             list == GetTasks(tasks, [NoFilter EXCEPT !.range = lastDay])
             n == Cardinality(M)
  <2>1. midnight \in Nat
    <3>1. now \div Day \in Nat
      BY <1>1
    <3> QED BY <1>1, <3>1
  <2>2. M \in SUBSET R /\ today \in SUBSET R /\ older \in SUBSET R
    BY Selected
  <2>3. IsFiniteSet(M) /\ IsFiniteSet(today) /\ IsFiniteSet(older)
    <3> HIDE DEF M, today, older
    <3> QED BY <1>2, <2>2, FS_Subset
  <2> HIDE DEF midnight
  <2>4. ASSUME NEW t \in M PROVE t \in today \cup older
    <3>1. [start |-> now - Day, end |-> now] # None /\ [start |-> midnight, end |-> now] # None
      BY <1>1, <2>1, QueriesAssumption
    <3>2. t \in R /\ Age(tasks[t]) # None /\ Age(tasks[t]) <= now
      BY <3>1 DEF FilterTasks, Within
    <3>3. Age(tasks[t]) \in Nat
      BY <1>2, <3>2, FieldsTyped DEF Opt
    <3>4. midnight <= Age(tasks[t]) => t \in today
      BY <3>1, <3>2 DEF FilterTasks, Within
    <3> QED BY <2>1, <3>2, <3>3, <3>4
  <2> HIDE DEF M, today, older
  <2>5. n <= Cardinality(today) + Cardinality(older) /\ n \in Nat
    <3>1. M \in SUBSET (today \cup older)
      BY <2>4
    <3>2. /\ IsFiniteSet(today \cup older) /\ Cardinality(today \cap older) \in Nat
          /\ Cardinality(today \cup older)
               = Cardinality(today) + Cardinality(older) - Cardinality(today \cap older)
          /\ Cardinality(today) \in Nat /\ Cardinality(older) \in Nat
      <4>1. IsFiniteSet(today \cap older)
        BY <2>3, FS_Subset
      <4> QED BY <2>3, <4>1, FS_Union, FS_CardinalityType
    <3>3. Cardinality(M) <= Cardinality(today \cup older) /\ Cardinality(M) \in Nat
      BY <3>1, <3>2, PartCounted
    <3> QED BY <3>2, <3>3
  <2>6. list \in [1 .. n -> M]
    <3>1. Matching(tasks, [NoFilter EXCEPT !.range = lastDay]) = M
      BY Selected DEF M
    <3>2. list = OrderBy(tasks, M, None, "desc")
      BY <3>1 DEF GetTasks
    <3> HIDE DEF list, lastDay
    <3> QED BY <1>1, <2>2, <3>2, OrderByTyped
  <2>7. ActivityFeed(tasks, now, Day) = Slice(list, 5, 0)
    BY DEF ActivityFeed
  <2> HIDE DEF list, n
  <2>8. Len(Slice(list, 5, 0)) <= n
    <3> DEFINE last == IF 5 < n THEN 5 ELSE n
    <3>1. list \in Seq(M) /\ Len(list) = n
      BY <2>5, <2>6
    <3>2. Slice(list, 5, 0) = SubSeq(list, 1, last)
      BY <3>1 DEF Slice
    <3>3. last \in Nat /\ last <= n
      BY <2>5
    <3> HIDE DEF last
    <3>4. Len(SubSeq(list, 1, last)) = last
      <4>1. 1 \in 1 .. Len(list) + 1 /\ last \in 0 .. Len(list)
        BY <2>5, <3>1, <3>3
      <4> QED BY <3>1, <3>3, <4>1, SubSeqProperties
    <3> QED BY <3>2, <3>3, <3>4
  <2>9. TasksToday(tasks, now, Day, Hour).count = Cardinality(today)
    BY DEF TasksToday, today, midnight
  <2>10. Len(Slice(list, 5, 0)) \in Nat
    <3>1. Slice(list, 5, 0) \in Seq(M)
      BY <2>5, <2>6, SliceHas
    <3> QED BY <3>1
  <2>11. Cardinality(today) \in Nat /\ Cardinality(older) \in Nat
    BY <2>3, FS_CardinalityType
  <2>12. Len(ActivityFeed(tasks, now, Day)) <= Cardinality(today) + Cardinality(older)
    BY <2>5, <2>7, <2>8, <2>10, <2>11
  <2> QED BY <2>9, <2>12 DEF older, midnight
<1> QED BY <1>3, <1>4 DEF WorkersCounted

(* What two pages compute in different ways from one table is the same, of any table:
   counts by any classes add up to what is counted, and ascending values with as many
   below and up to each are the same values. *)
THEOREM PagesNeverDisagree == PagesSpec => []PagesAgree
<1>1. PagesInv => PagesAgree
  BY RangesAgree, StatesAgree, PercentilesAgree, WorkersAgree DEF PagesInv, PagesAgree
<1> QED BY <1>1, PagesInvHolds, PTL


-----------------------------------------------------------------------------
(* The types.  Task pages: PagesInv holds all but the bounds of the counters. *)

MostPages == TotalPages(Cardinality(TaskIds))
PagesBounded == stores \in 0 .. MaxStores /\ request.page <= MostPages /\ request.pages <= MostPages

LEMMA MostPagesEnough ==
  /\ MostPages \in Nat \ {0}
  /\ \A T \in Table : \A list : TotalPages(Cardinality(Listed(T, list))) <= MostPages
<1>1. \A m, n \in Nat : m <= n => TotalPages(m) <= TotalPages(n)
  <2> SUFFICES ASSUME NEW m \in Nat, NEW n \in Nat, m <= n PROVE TotalPages(m) <= TotalPages(n)
    OBVIOUS
  <2>1. PageSize \in Nat \ {0}
    BY Numbers
  <2>2. TotalPages(n) >= 1 /\ TotalPages(n) \in Nat
    BY TotalPagesEnough
  <2>3. CASE m = 0
    BY <2>2, <2>3 DEF TotalPages
  <2>4. CASE m # 0
    <3> DEFINE p == TotalPages(m)
               q == TotalPages(n)
    <3>1. p = (m + PageSize - 1) \div PageSize /\ q = (n + PageSize - 1) \div PageSize
      BY <2>4 DEF TotalPages
    <3>2. p \in Int /\ p * PageSize <= m + PageSize - 1
      BY <2>1, <3>1
    <3>3. q \in Int /\ n + PageSize - 1 < (q + 1) * PageSize
      BY <2>1, <3>1
    <3> HIDE DEF p, q
    <3>4. p * PageSize < (q + 1) * PageSize
      BY <2>1, <3>2, <3>3
    <3>5. p < q + 1
      BY <2>1, <3>2, <3>3, <3>4
    <3> QED BY <3>2, <3>3, <3>5 DEF p, q
  <2> QED BY <2>3, <2>4
<1>2. Cardinality(TaskIds) \in Nat
  BY FS_CardinalityType, QueriesAssumption
<1>3. ASSUME NEW T \in Table, NEW list
      PROVE  Cardinality(Listed(T, list)) \in Nat /\ Cardinality(Listed(T, list)) <= Cardinality(TaskIds)
  <2>1. Listed(T, list) \subseteq TaskIds /\ IsFiniteSet(Listed(T, list))
    BY ListedRowed, RowedTyped
  <2> QED BY <2>1, FS_CardinalityType, FS_Subset, QueriesAssumption
<1> QED BY <1>1, <1>2, <1>3, TotalPagesEnough DEF MostPages

LEMMA PagesBoundedStep == PagesInv /\ PagesBounded /\ [PagesNext]_pageVars => PagesBounded'
<1> SUFFICES ASSUME PagesInv, PagesBounded, [PagesNext]_pageVars PROVE PagesBounded'
  OBVIOUS
<1>1. /\ tasks \in Table /\ request \in Requests
      /\ request.page \in Nat \ {0} /\ request.pages \in Nat \ {0}
  BY DEF PagesInv, PagesShape, Requests
<1>2. MostPages \in Nat \ {0}
  BY MostPagesEnough
<1>3. NoRequest.page = 1 /\ NoRequest.pages = 1
  BY DEF NoRequest
<1>4. CASE UNCHANGED <<stores, request>>
  BY <1>4 DEF PagesBounded, pageVars
<1>5. CASE UNCHANGED stores /\ Failed
  BY <1>2, <1>5 DEF PagesBounded, Failed, NoRequest
<1>6. ASSUME NEW e \in Incoming, NEW ts \in {now - MaxDelay, now} \cap Times, StoreEvent(e, ts)
      PROVE  PagesBounded'
  BY <1>6, PagesAssumption DEF StoreEvent, PagesBounded
<1>7. ASSUME NEW list \in Lists, OpenList(list) PROVE PagesBounded'
  BY <1>2, <1>7 DEF OpenList, NoRequest, PagesBounded
<1>8. CASE FollowNext
  BY <1>1, <1>2, <1>8 DEF FollowNext, PagesBounded, Requests
<1>9. ASSUME NEW pc, request' = [request EXCEPT !.pc = pc], UNCHANGED stores PROVE PagesBounded'
  BY <1>1, <1>9 DEF PagesBounded, Requests
<1>10. CASE OpenDb
  BY <1>4, <1>5, <1>9, <1>10 DEF OpenDb
<1>11. ASSUME NEW page, NEW pages, NEW rws, Show(page, pages, rws), UNCHANGED stores,
              page <= MostPages, pages <= MostPages
       PROVE  PagesBounded'
  BY <1>1, <1>11 DEF PagesBounded, Show, Requests
<1>12. CASE Query
  <2> DEFINE last == TotalPages(Cardinality(Listed(tasks, request.list)))
  <2>1. last <= MostPages
    BY <1>1, MostPagesEnough
  <2>2. UNCHANGED stores
    BY <1>12 DEF Query
  <2> HIDE DEF last
  <2>3. CASE Cardinality(request.list.states) > 1
    <3> DEFINE answer == InMemoryPage(tasks, request.list, request.page)
    <3>1. Show(answer.page, answer.pages, answer.rows)
      BY <1>12, <2>3 DEF Query
    <3>2. answer.pages = last /\ answer.page = IF request.page > last THEN last ELSE request.page
      BY <1>1, MemoryPage DEF last
    <3>3. answer.pages <= MostPages /\ answer.page <= MostPages
      BY <2>1, <3>2 DEF PagesBounded
    <3> HIDE DEF answer
    <3> QED BY <1>11, <2>2, <3>1, <3>3
  <2>4. CASE ~(Cardinality(request.list.states) > 1)
    <3>1. PageQuery(request.page).total = Cardinality(Listed(tasks, request.list))
      BY <1>1, <2>4, QueriedPage
    <3>2. \/ request' = [request EXCEPT !.pc = "reopen", !.page = last, !.pages = last]
          \/ Show(request.page, last, PageQuery(request.page).rows)
      BY <1>12, <2>4, <3>1 DEF Query, last
    <3>3. CASE request' = [request EXCEPT !.pc = "reopen", !.page = last, !.pages = last]
      BY <1>1, <2>1, <2>2, <3>3 DEF PagesBounded, Requests
    <3> QED BY <1>11, <2>1, <2>2, <3>2, <3>3 DEF PagesBounded
  <2> QED BY <2>3, <2>4
<1>13. CASE Requery
  BY <1>11, <1>13 DEF Requery, PagesBounded
<1> QED
  BY <1>4, <1>5, <1>6, <1>7, <1>8, <1>10, <1>12, <1>13
  DEF PagesNext, pageVars, Tick, FailRequest, Restart

(* Every table, request and walk of the task pages is well formed, and no page
   number goes beyond the last page that all tasks together would fill. *)
THEOREM PagesTyped == PagesSpec => []PagesTypeOK
<1>1. PagesInit => PagesBounded
  BY MostPagesEnough, PagesAssumption DEF PagesInit, NoRequest, PagesBounded
<1>2. PagesSpec => []PagesBounded
  BY <1>1, PagesBoundedStep, PagesInvHolds, PTL DEF PagesSpec
<1>3. PagesInv /\ PagesBounded => PagesTypeOK
  <2> SUFFICES ASSUME PagesInv, PagesBounded PROVE PagesTypeOK
    OBVIOUS
  <2>1. /\ tasks \in Table /\ request \in Requests /\ walk \in Walks /\ now \in Times
        /\ lastCleanup \in Opt(Times) /\ cleanupFailed \in BOOLEAN
    BY RecordAssumption DEF PagesInv, PagesShape, Opt, Times
  <2>2. ToSet(request.rows) \subseteq TaskIds
    BY <2>1 DEF Requests, ToSet
  <2>3. {request.page, request.pages} \subseteq 1 .. MostPages
    BY <2>1, MostPagesEnough DEF PagesBounded, Requests
  <2> QED BY <2>1, <2>2, <2>3 DEF PagesTypeOK, PagesBounded, MostPages, Table, Requests, Walks
<1> QED BY <1>2, <1>3, PagesInvHolds, PTL
=============================================================================

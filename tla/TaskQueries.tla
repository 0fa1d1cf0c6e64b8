---------------------------- MODULE TaskQueries ----------------------------
(***************************************************************************)
(* What the pages, the API and the MCP tools read from the "tasks" table:   *)
(* the queries of SQLiteController and what the task list and the dashboard *)
(* compute from their results.  No variables: every operator is a function  *)
(* of a table.  The columns of a row that no query tells apart from another *)
(* stay one value, as in TaskRecord; here that value is a record of the     *)
(* task's name, worker and runtime.                                         *)
(***************************************************************************)
EXTENDS TaskRecord, Sequences, FiniteSets, FiniteSetsExt, SequencesExt

CONSTANTS
  Collate,   \* the order SQLite gives to the texts of a column: text -> Nat
  RowId      \* the order of a table scan, in which SQLite leaves equal keys

Rowed(tasks) == {t \in TaskIds : tasks[t] # NoRow}

Info(row, field) == IF row.cols["info"] = None THEN None ELSE row.cols["info"][field]

-----------------------------------------------------------------------------
(* Filters.  A range is inclusive at both ends, and NULL is in no range. *)
NoFilter == [name |-> None, state |-> None, worker |-> None, group |-> None,
             root |-> None, search |-> None, range |-> None]

Within(stamp, range) ==
  /\ stamp # None
  /\ range.start <= stamp
  /\ stamp <= range.end

MatchesFilter(t, row, f) ==
  /\ f.name # None => Info(row, "name") = f.name
  /\ f.state # None => row.state = f.state
  /\ f.worker # None => Info(row, "worker") = f.worker
  /\ f.group # None => row.cols["group"] = f.group
  /\ f.root # None => row.cols["root"] = f.root
  /\ f.search # None => f.search \in {t, Info(row, "name"), Info(row, "worker")}
  /\ f.range # None => Within(Age(row), f.range)

Matching(tasks, f) == {t \in Rowed(tasks) : MatchesFilter(t, tasks[t], f)}

(* _filter_tasks, the selection of the statistics. *)
FilterTasks(tasks, name, range) ==
  {t \in Rowed(tasks) : /\ name # None => Info(tasks[t], "name") = name
                        /\ range # None => Within(Age(tasks[t]), range)}

-----------------------------------------------------------------------------
(* Lists and pages. *)
SortColumns == {"state", "worker", "received", "started", "runtime"}

ASSUME QueriesAssumption ==
  /\ IsFiniteSet(TaskIds)
  /\ RowId \in [TaskIds -> Nat] /\ IsInjective(RowId)
  /\ States \subseteq DOMAIN Collate /\ \A text \in DOMAIN Collate : Collate[text] \in Nat
  /\ \A v \in Values : v["worker"] \in Opt(DOMAIN Collate) /\ v["runtime"] \in Opt(Nat)
  /\ None \notin SortColumns \cup {"asc"} /\ None \notin [start : Int, end : Int]

SortColumn(row, key) ==
  CASE key = "state" -> Collate[row.state]
    [] key = "worker" -> IF Info(row, "worker") = None THEN None
                         ELSE Collate[Info(row, "worker")]
    [] key = "received" -> row.received
    [] key = "started" -> row.started
    [] key = "runtime" -> Info(row, "runtime")
    [] key \notin SortColumns -> Age(row)

(* S in the order of a relation, each element at the place that the number of those
   before it gives. *)
InOrder(S, before) ==
  LET place(t) == Cardinality({u \in S : <<u, t>> \in before}) + 1
  IN  [i \in 1 .. Cardinality(S) |-> CHOOSE t \in S : place(t) = i]

(* Mutant: without a direction, oldest first. *)
OrderByOldestFirst(tasks, S, key, dir) ==
  LET rank(t) == LET v == SortColumn(tasks[t], key) IN IF v = None THEN -1 ELSE v
      precedes(a, b) ==
        IF rank(a) = rank(b) THEN RowId[a] < RowId[b]
        ELSE IF dir = "asc" \/ key = None THEN rank(a) < rank(b) ELSE rank(a) > rank(b)
  IN  InOrder(S, {p \in S \X S : precedes(p[1], p[2])})

(* ORDER BY: NULL is the smallest value. *)
OrderBy(tasks, S, key, dir) ==
  LET rank(t) == LET v == SortColumn(tasks[t], key) IN IF v = None THEN -1 ELSE v
      precedes(a, b) ==
        IF rank(a) = rank(b) THEN RowId[a] < RowId[b]
        ELSE IF dir = "asc" THEN rank(a) < rank(b) ELSE rank(a) > rank(b)
  IN  InOrder(S, {p \in S \X S : precedes(p[1], p[2])})

GetTasks(tasks, f) == OrderBy(tasks, Matching(tasks, f), None, "desc")

Slice(seq, limit, offset) ==
  SubSeq(seq, offset + 1, IF offset + limit < Len(seq) THEN offset + limit ELSE Len(seq))

GetTasksPage(tasks, f, key, dir, limit, offset) ==
  [rows  |-> Slice(OrderBy(tasks, Matching(tasks, f), key, dir), limit, offset),
   total |-> Cardinality(Matching(tasks, f))]

(* NULL names are listed as "unknown". *)
ListTaskNames(tasks) ==
  {IF Info(tasks[t], "name") = None THEN "unknown" ELSE Info(tasks[t], "name") :
     t \in Rowed(tasks)}

-----------------------------------------------------------------------------
(* Statistics. *)

(* _percentile, times 100, of ascending values: linear interpolation between the
   two neighbours of the index.  pct is in percent. *)
Percentile(values, pct) ==
  LET index == (Len(values) - 1) * pct
      lower == index \div 100
      upper == IF lower + 1 < Len(values) - 1 THEN lower + 1 ELSE Len(values) - 1
      weight == index % 100
  IN  IF values = <<>> THEN None
      ELSE IF pct >= 100 THEN 100 * values[Len(values)]
      ELSE 100 * values[lower + 1] + (values[upper + 1] - values[lower + 1]) * weight

(* The values of a function in ascending order: v is at the places between the
   number of the smaller ones and that of those it does not exceed. *)
Ascending(value) ==
  LET below(v) == Cardinality({x \in DOMAIN value : value[x] < v})
      upto(v) == Cardinality({x \in DOMAIN value : value[x] <= v})
  IN  [i \in 1 .. Cardinality(DOMAIN value) |->
         CHOOSE v \in {value[x] : x \in DOMAIN value} : below(v) < i /\ i <= upto(v)]

Runtimes(tasks, S) ==
  Ascending([t \in {t \in S : Info(tasks[t], "runtime") # None} |-> Info(tasks[t], "runtime")])

RuntimeStats(runtimes) ==
  IF runtimes = <<>>
  THEN [min |-> None, max |-> None, sum |-> 0, p50 |-> None, p95 |-> None, p99 |-> None]
  ELSE [min |-> runtimes[1], max |-> runtimes[Len(runtimes)], sum |-> FoldSeq(+, 0, runtimes),
        p50 |-> Percentile(runtimes, 50), p95 |-> Percentile(runtimes, 95),
        p99 |-> Percentile(runtimes, 99)]

GetTaskStats(tasks, name, range) ==
  LET S == FilterTasks(tasks, name, range)
  IN  [count |-> Cardinality(S), times |-> RuntimeStats(Runtimes(tasks, S))]

(* Mutant: no bucket for the last instant of the range. *)
InitBucketsHalfOpen(range, width) ==
  {b \in range.start .. range.end : (b - range.start) % width = 0 /\ b < range.end}

InitBuckets(range, width) ==
  {b \in range.start .. range.end : (b - range.start) % width = 0}

BucketStart(start, stamp, width) ==
  LET index == (stamp - start) \div width
  IN  start + (IF index > 0 THEN index ELSE 0) * width

GetThroughput(tasks, range, width) ==
  LET bucket(t) == BucketStart(range.start, Age(tasks[t]), width)
  IN  [b \in InitBuckets(range, width) |->
         Cardinality({t \in FilterTasks(tasks, None, range) : bucket(t) = b})]

GetStateDistribution(tasks) ==
  [s \in {tasks[t].state : t \in Rowed(tasks)} |->
     Cardinality({t \in Rowed(tasks) : tasks[t].state = s})]

(* The cells of the heatmap, weekday and hour, are the clock modulo the week. *)
GetHeatmap(tasks, range, week) ==
  [cell \in 0 .. week - 1 |->
     Cardinality({t \in FilterTasks(tasks, None, range) :
                    Age(tasks[t]) # None /\ Age(tasks[t]) % week = cell})]

TotalOf(f) == MapThenSumSet(LAMBDA k : f[k], DOMAIN f)

-----------------------------------------------------------------------------
(* The statistics tab of the task list: one row per name. *)
StatsName(row) == IF Info(row, "name") = None THEN "unknown" ELSE Info(row, "name")

BuildStatsRows(tasks) ==
  [name \in {StatsName(tasks[t]) : t \in Rowed(tasks)} |->
     LET S == {t \in Rowed(tasks) : StatsName(tasks[t]) = name}
         retried(row) == row.state = "RETRY" \/ (row.retries # None /\ row.retries > 0)
     IN  [count    |-> Cardinality(S),
          failures |-> Cardinality({t \in S : tasks[t].state = "FAILURE"}),
          retries  |-> Cardinality({t \in S : retried(tasks[t])}),
          times    |-> RuntimeStats(Runtimes(tasks, S))]]

(* The same table, grouped from the list, by the "stats" tool of the MCP server. *)
FetchTaskStats(tasks) ==
  LET rows == GetTasks(tasks, NoFilter)
      runtime(i) == Info(tasks[rows[i]], "runtime")
      group(name) == {i \in DOMAIN rows : StatsName(tasks[rows[i]]) = name}
      runtimes(name) == [i \in {i \in group(name) : runtime(i) # None} |-> runtime(i)]
  IN  [name \in {StatsName(tasks[rows[i]]) : i \in DOMAIN rows} |->
         [count |-> Cardinality(group(name)),
          times |-> RuntimeStats(Ascending(runtimes(name)))]]

(* The cards of the dashboard: counts by state, where RECEIVED is PENDING. *)
CollapseReceived(counts) ==
  LET of(s) == IF s \in DOMAIN counts THEN counts[s] ELSE 0
  IN  IF "RECEIVED" \notin DOMAIN counts THEN counts
      ELSE [s \in (DOMAIN counts \ {"RECEIVED"}) \cup {"PENDING"} |->
              IF s = "PENDING" THEN of("PENDING") + of("RECEIVED") ELSE counts[s]]

(* "change" compares the last hour with the one before; a task dated exactly at
   the boundary counts in both. *)
StateCards(tasks, now, hour) ==
  LET last == [start |-> now - hour, end |-> now]
      prev == [start |-> now - 2 * hour, end |-> now - hour]
      among(s, range) ==
        Cardinality({t \in FilterTasks(tasks, None, range) :
                       (IF tasks[t].state = "RECEIVED" THEN "PENDING" ELSE tasks[t].state) = s})
      current == CollapseReceived(GetStateDistribution(tasks))
  IN  [s \in {"SUCCESS", "FAILURE", "STARTED", "PENDING"} |->
         [count  |-> IF s \in DOMAIN current THEN current[s] ELSE 0,
          change |-> among(s, last) - among(s, prev)]]

(* The tasks of today and their trend: hour against hour, undefined without a
   task in the hour before. *)
TasksToday(tasks, now, day, hour) ==
  LET today == FilterTasks(tasks, None, [start |-> (now \div day) * day, end |-> now])
      last == {t \in today : now - hour <= Age(tasks[t])}
      prev == {t \in today : now - 2 * hour <= Age(tasks[t]) /\ Age(tasks[t]) < now - hour}
  IN  [count |-> Cardinality(today),
       trend |-> IF prev = {} THEN None ELSE Cardinality(last) - Cardinality(prev)]

(* The worker table of the dashboard: the tasks each worker has, by state. *)
WorkerCells(tasks, workers) ==
  [w \in workers |->
     LET mine == {t \in Rowed(tasks) : Info(tasks[t], "worker") = w}
         shown(row) == IF row.state = "RECEIVED" THEN "PENDING" ELSE row.state
     IN  [s \in States \ {"RECEIVED", "REJECTED"} |->
            Cardinality({t \in mine : shown(tasks[t]) = s})]]

Processed(cells) == cells["SUCCESS"] + cells["FAILURE"] + cells["REVOKED"]

(* The five newest tasks of the last day. *)
ActivityFeed(tasks, now, day) ==
  Slice(GetTasks(tasks, [NoFilter EXCEPT !.range = [start |-> now - day, end |-> now]]), 5, 0)
=============================================================================

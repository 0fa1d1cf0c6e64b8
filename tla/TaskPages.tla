----------------------------- MODULE TaskPages -----------------------------
(***************************************************************************)
(* A user who follows the links of the task list while events arrive and    *)
(* rows grow too old (views/tasks.task_list, services.open_db).  Every page *)
(* is a request of its own: a DB client that cleans the tables up when the  *)
(* throttle allows, the query, and a second query when the page asked for   *)
(* is beyond the last one.  Requests are short: the clock stands still      *)
(* during one, but events are stored between any two of its calls.          *)
(***************************************************************************)
EXTENDS TaskQueries

CONSTANTS
  Incoming,         \* the events of the instance, without their time
  Lists,            \* the lists a user may open: states, filter, sort column, direction
  PageSize,
  Retention,        \* retention_days, and the interval of the cleanup throttle
  CleanupInterval,
  MaxDelay,         \* bound: how late an event is stored
  MaxStores,        \* bound: the number of events stored
  Hour, Day, Week   \* units of the statistics

ASSUME PagesAssumption ==
  /\ PageSize \in Nat \ {0} /\ Retention \in Nat \ {0}
  /\ CleanupInterval \in Nat \ {0} /\ MaxStores \in Nat
  /\ {Hour, Day, Week} \subseteq Nat \ {0}
  /\ MaxDelay \in 0 .. Retention
  /\ Incoming \subseteq TaskEvent
  /\ None \notin Lists
  /\ \A list \in Lists : list.states \subseteq States

VARIABLES
  tasks,         \* the table "tasks"
  now,
  stores,        \* events stored so far (for the bound)
  lastCleanup,   \* services._LAST_CLEANUP_AT
  cleanupFailed, \* did the last attempt at a cleanup fail?
  request,       \* the request or, once it is shown, the page
  walk           \* what the user has seen since opening the list

pageVars == <<tasks, now, stores, lastCleanup, cleanupFailed, request, walk>>

NoRequest == [pc |-> "idle", list |-> None, page |-> 1, pages |-> 1, rows |-> <<>>, at |-> 0]
NoWalk == [seen |-> {}, steady |-> {}, moved |-> FALSE]

PagesInit ==
  /\ tasks = [t \in TaskIds |-> NoRow]
  /\ now = 0 /\ stores = 0
  /\ lastCleanup = None /\ cleanupFailed = FALSE
  /\ request = NoRequest
  /\ walk = NoWalk

-----------------------------------------------------------------------------
(* The list: one state goes into the query, two or more are filtered from its
   full result. *)
Selection(list) ==
  [list.filter EXCEPT !.state = IF Cardinality(list.states) = 1
                                THEN CHOOSE s \in list.states : TRUE ELSE None]

Listed(table, list) ==
  {t \in Matching(table, Selection(list)) :
     Cardinality(list.states) > 1 => table[t].state \in list.states}

(* Mutant: no page for an empty list. *)
TotalPagesOfNothing(count) == (count + PageSize - 1) \div PageSize

TotalPages(count) == IF count = 0 THEN 1 ELSE (count + PageSize - 1) \div PageSize

(* _sort_tasks, of the full result: missing values last in both directions,
   texts and numbers alike; equal values keep the order of the query. *)
SortTasks(table, seq, key, dir) ==
  LET value(t) == SortColumn(table[t], key)
      place == [t \in ToSet(seq) |-> CHOOSE i \in DOMAIN seq : seq[i] = t]
      before(a, b) ==
        IF value(a) = value(b) THEN place[a] < place[b]
        ELSE IF value(a) = None \/ value(b) = None THEN value(b) = None
        ELSE IF dir = "desc" THEN value(a) > value(b) ELSE value(a) < value(b)
  IN  InOrder(ToSet(seq), {p \in ToSet(seq) \X ToSet(seq) : before(p[1], p[2])})

(* get_tasks, filtered in memory: the order of the query stays. *)
InMemoryPage(table, list, page) ==
  LET found == OrderBy(table, Listed(table, list), None, "desc")
      sorted == IF list.key = None THEN found ELSE SortTasks(table, found, list.key, list.dir)
      last == TotalPages(Len(found))
      shown == IF page > last THEN last ELSE page
  IN  [page |-> shown, pages |-> last,
       rows |-> Slice(sorted, PageSize, (shown - 1) * PageSize)]

-----------------------------------------------------------------------------
(* The world outside the web process. *)

(* A row of the list went down or out of it other than by cleanup: the pages
   behind it are no longer where the user left them. *)
Slides(t, row) ==
  /\ request.list # None
  /\ t \in Listed(tasks, request.list)
  /\ LET table == [tasks EXCEPT ![t] = row]
     IN  \/ t \notin Listed(table, request.list)
         \/ Age(tasks[t]) # None /\ Age(row) < Age(tasks[t])

StoreEvent(e, ts) ==
  LET row == TaskRowAfter(tasks[e.task], [e EXCEPT !.ts = ts])
  IN  /\ stores < MaxStores
      /\ stores' = stores + 1
      /\ tasks' = [tasks EXCEPT ![e.task] = row]
      /\ walk' = [walk EXCEPT !.steady = @ \ {e.task}, !.moved = @ \/ Slides(e.task, row)]
      /\ UNCHANGED <<now, lastCleanup, cleanupFailed, request>>

Tick ==
  /\ request.pc \in {"idle", "shown", "failed"}
  /\ now < MaxTime
  /\ now' = now + 1
  /\ UNCHANGED <<tasks, stores, lastCleanup, cleanupFailed, request, walk>>

-----------------------------------------------------------------------------
(* The pages. *)
OpenList(list) ==
  /\ request.pc \in {"idle", "shown", "failed"}
  /\ request' = [NoRequest EXCEPT !.pc = "open", !.list = list, !.at = now]
  /\ walk' = [seen |-> {}, moved |-> FALSE,
              steady |-> {t \in Listed(tasks, list) : Age(tasks[t]) # None}]
  /\ UNCHANGED <<tasks, now, stores, lastCleanup, cleanupFailed>>

FollowNext ==
  /\ request.pc = "shown"
  /\ request.page < request.pages
  /\ request' = [request EXCEPT !.pc = "open", !.page = @ + 1, !.at = now]
  /\ UNCHANGED <<tasks, now, stores, lastCleanup, cleanupFailed, walk>>

(* Mutant: an old row is kept one interval longer. *)
ShouldCleanupRarely == lastCleanup = None \/ now - lastCleanup >= 2 * CleanupInterval

ShouldCleanup == lastCleanup = None \/ now - lastCleanup >= CleanupInterval

Cleaned(table, cutoff) ==
  [t \in TaskIds |->
     IF table[t] # NoRow /\ Age(table[t]) # None /\ Age(table[t]) < cutoff
     THEN NoRow ELSE table[t]]

(* An error page, from which the user starts again. *)
Failed ==
  /\ request' = [NoRequest EXCEPT !.pc = "failed"]
  /\ walk' = NoWalk

Opening == [open |-> "query", reopen |-> "requery"]

(* open_db: the throttle is stamped before the call that may fail. *)
OpenDb ==
  /\ request.pc \in DOMAIN Opening
  /\ IF ShouldCleanup
     THEN /\ lastCleanup' = now
          /\ \/ /\ tasks' = Cleaned(tasks, now - Retention)
                /\ cleanupFailed' = FALSE
                /\ walk' = [walk EXCEPT !.steady = {t \in @ : tasks'[t] # NoRow}]
                /\ request' = [request EXCEPT !.pc = Opening[@]]
             \/ /\ cleanupFailed' = TRUE
                /\ UNCHANGED tasks
                /\ Failed
     ELSE /\ request' = [request EXCEPT !.pc = Opening[@]]
          /\ UNCHANGED <<tasks, lastCleanup, cleanupFailed, walk>>
  /\ UNCHANGED <<now, stores>>

Show(page, pages, rows) ==
  /\ request' = [request EXCEPT !.pc = "shown", !.page = page, !.pages = pages, !.rows = rows]
  /\ walk' = [walk EXCEPT !.seen = @ \cup ToSet(rows)]

PageQuery(page) ==
  GetTasksPage(tasks, Selection(request.list), request.list.key,
               IF request.list.key = None THEN None ELSE request.list.dir,
               PageSize, (page - 1) * PageSize)

(* The query of the page, or of all rows when several states are asked for. *)
Query ==
  /\ request.pc = "query"
  /\ IF Cardinality(request.list.states) > 1
     THEN LET found == InMemoryPage(tasks, request.list, request.page)
          IN  Show(found.page, found.pages, found.rows)
     ELSE LET found == PageQuery(request.page)
              last == TotalPages(found.total)
          IN  IF found.total > 0 /\ request.page > last
              THEN /\ request' = [request EXCEPT !.pc = "reopen", !.page = last, !.pages = last]
                   /\ UNCHANGED walk
              ELSE Show(request.page, last, found.rows)
  /\ UNCHANGED <<tasks, now, stores, lastCleanup, cleanupFailed>>

(* The number of pages stays the one of the first query. *)
Requery ==
  /\ request.pc = "requery"
  /\ Show(request.page, request.pages, PageQuery(request.page).rows)
  /\ UNCHANGED <<tasks, now, stores, lastCleanup, cleanupFailed>>

(* Any other call of the request fails, or the web process restarts. *)
FailRequest ==
  /\ request.pc \in {"query", "requery"}
  /\ Failed
  /\ UNCHANGED <<tasks, now, stores, lastCleanup, cleanupFailed>>

Restart ==
  /\ lastCleanup # None
  /\ lastCleanup' = None
  /\ IF request.pc \in {"idle", "shown"} THEN UNCHANGED <<request, walk>> ELSE Failed
  /\ UNCHANGED <<tasks, now, stores, cleanupFailed>>

PagesNext ==
  \/ \E e \in Incoming : \E ts \in {now - MaxDelay, now} \cap Times : StoreEvent(e, ts)
  \/ Tick
  \/ \E list \in Lists : OpenList(list)
  \/ FollowNext \/ OpenDb \/ Query \/ Requery \/ FailRequest \/ Restart

PagesSpec == PagesInit /\ [][PagesNext]_pageVars

-----------------------------------------------------------------------------
Shown == request.pc = "shown"

PagesTypeOK ==
  /\ tasks \in [TaskIds -> TaskRow \cup {NoRow}]
  /\ now \in Times /\ stores \in 0 .. MaxStores
  /\ lastCleanup \in Opt(Times) /\ cleanupFailed \in BOOLEAN
  /\ request.pc \in {"idle", "open", "query", "reopen", "requery", "shown", "failed"}
  /\ request.list \in Opt(Lists)
  /\ {request.page, request.pages} \subseteq 1 .. TotalPages(Cardinality(TaskIds))
  /\ ToSet(request.rows) \subseteq TaskIds
  /\ walk.seen \subseteq TaskIds /\ walk.steady \subseteq TaskIds

(* A user who follows "next" to the last page of the newest-first list has seen
   every dated task that was in the list all the time and did not change,
   however many tasks arrive in front of it, grow too old behind it, or make
   the page asked for vanish; unless a task that changed slid back through the
   list.  (Undated tasks come last and move up when dated ones are removed.) *)
PagingMissesNothing ==
  Shown /\ request.list.key = None /\ request.page >= request.pages /\ ~walk.moved
    => walk.steady \subseteq walk.seen

(* The throttle lets no page show a dated task older than the retention by more
   than one interval, unless the last cleanup failed. *)
ShownWithinRetention ==
  Shown /\ ~cleanupFailed =>
    \A t \in ToSet(request.rows) :
      tasks[t] # NoRow /\ Age(tasks[t]) # None
        => Age(tasks[t]) > request.at - Retention - CleanupInterval

LastHours(n) == [start |-> IF now < n * Hour THEN 0 ELSE now - n * Hour, end |-> now]

RangesCounted ==
  \A n \in {1, 2} :
    LET inRange == Cardinality(Matching(tasks, [NoFilter EXCEPT !.range = LastHours(n)]))
    IN  /\ TotalOf(GetThroughput(tasks, LastHours(n), Hour)) = inRange
        /\ TotalOf(GetHeatmap(tasks, LastHours(n), Week)) = inRange

StatesCounted ==
  LET total == GetTasksPage(tasks, NoFilter, None, None, PageSize, 0).total
      stats == BuildStatsRows(tasks)
      cards == StateCards(tasks, now, Hour)
  IN  /\ TotalOf(GetStateDistribution(tasks)) = total
      /\ TotalOf([name \in DOMAIN stats |-> stats[name].count]) = total
      /\ DOMAIN stats = ListTaskNames(tasks)
      /\ FetchTaskStats(tasks) = [name \in DOMAIN stats |->
            [count |-> stats[name].count, times |-> stats[name].times]]
      /\ TotalOf([s \in DOMAIN cards |-> cards[s].count])
           = total - Cardinality({t \in Rowed(tasks) : tasks[t].state \in {"RETRY", "REVOKED", "REJECTED"}})

PercentilesOrdered ==
  LET all == GetTaskStats(tasks, None, None).times
  IN  all.min # None =>
        /\ 100 * all.min <= all.p50 /\ all.p50 <= all.p95 /\ all.p95 <= all.p99
        /\ all.p99 <= 100 * all.max
        /\ LET runtimes == Runtimes(tasks, Rowed(tasks))
           IN  2 * Cardinality({i \in DOMAIN runtimes : 100 * runtimes[i] <= all.p50}) >= Len(runtimes)

WorkersCounted ==
  LET workers == {Info(tasks[t], "worker") : t \in Rowed(tasks)} \ {None}
      cells == WorkerCells(tasks, workers)
  IN  /\ \A w \in workers : Processed(cells[w]) =
           Cardinality({t \in Matching(tasks, [NoFilter EXCEPT !.worker = w]) : Final(tasks[t])})
      /\ Len(ActivityFeed(tasks, now, Day)) <= TasksToday(tasks, now, Day, Hour).count
           + Cardinality({t \in Rowed(tasks) : Age(tasks[t]) # None
                                                /\ Age(tasks[t]) < (now \div Day) * Day})

(* What two pages compute in different ways from one table is the same:
   throughput and heatmap count every task of their range, the distribution, the
   statistics tab and the page total count every task, the cards every one in a
   state that has a card (RETRY, REVOKED and REJECTED have none), the MCP
   statistics are those of the tab, the worker table counts every finished task,
   and percentiles are ordered.  Every table there can be occurs between requests. *)
PagesAgree ==
  request.pc = "idle" =>
    /\ RangesCounted
    /\ StatesCounted
    /\ PercentilesOrdered
    /\ WorkersCounted
=============================================================================

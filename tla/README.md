# Celery Root: specifications and proofs

TLA+ models of the parts of Celery Root (package `celery_root`) whose behaviour depends on
the order in which things happen: what the event stream does to the database, the RPC that
every component uses to reach it, the schema of its file, the periodic tasks, the supervision
of the processes, the backfill of lost events, the metrics gauges, and the web console: its
task lists and statistics, sign-in, worker and broker commands, task graphs, schedules and
the re-sending of failed tasks. TLC checks them on small instances; TLAPS proves the safety
properties of all of them for every instance (section 5).

`PROJECT.json` maps every definition that models code to its lines, lists the runs, a mutant
per checked property (a plausible bug the property must catch), the hazards and the theorems.

## 1. The system

```
 Celery workers --events--> broker --> EventListener (one per broker) --RPC--> DBManager --> SQLite
        ^                                   |  put_nowait                          ^
        |                                   v                                      | RPC
   task/worker control            metrics queue -> exporter process                |
        ^                                                                          |
        +-- web pages, API, MCP, smart retry --------------------------------------+
        +-- Reconciler (inspections, result backend, broker queues) ---------------+
        +-- Beat (DatabaseScheduler, one per app) ---------------------------------+
 ProcessManager starts, watches, replaces and stops all of these processes.
```

Every box is an operating-system process. Only the DB manager opens the database; all others
reach it through one synchronous request/response RPC over a Unix socket.

| Component (source) | State | Operations | What is hard | What makes it correct |
|---|---|---|---|---|
| Task rows (`core/db/adapters/sqlite/__init__.py`) | one row per task: state, retries, three stamps, links | merge one event into a row | events late, repeated, reordered | a finished task never reopens, retries never drop, stamps agree with the state |
| Task store (same, and `core/db/dispatch.py`) | `tasks`, `task_events`, `task_relations` | ingest an event (several transactions), ingest a relation, cleanup | failure between transactions; two deletes by different columns | no logged event without its edges, no dated row without its dating event |
| Worker store, listener, inspections (`core/event_listener.py`, `core/reconciler.py`, `web/views/workers.py`) | `workers`, `worker_events`; events in the broker; writes on their way | stamp and store an event, inspect and store a snapshot, show a status | a delayed heartbeat after worker-offline, a snapshot of a worker that has died since | a dead worker is shown offline in bounded time |
| DB RPC (`core/db/rpc_client.py`, `core/db/manager.py`) | a connection per client, a thread per connection, one lock, one semaphore | call, timeout, reconnect, retry, admit, turn away, handle, stop, exit | timeouts race answers; the manager dies between commit and reply | lock, permits, connections in step, results that are true, calls that return |
| Beat (`components/beat/db_scheduler.py`, `web/views/beat.py`) | `schedules`; a copy of it per beat, run states, a cache of what was written | save, delete, refresh, tick, write back | a write-back from a stale copy, a refresh over unsaved run states, a failing RPC, a kill | no double run, bounded staleness, every schedule runs |
| Process manager (`core/process_manager.py`) | a dict of processes, stop events, the socket file | start, watch, replace, stop | an interrupt between any two steps; a socket file left by a killed manager | everything comes back; a stop forgets nobody |
| Reconciler backfill (`core/reconciler.py`) | a list of unfinished tasks, visited one by one | refresh, look up, store | the table changes between the queries, before the lookup and before the store | lost completions are found, no outcome is invented |
| Event fan-out and metrics (`core/event_listener.py`, `components/metrics/`) | a bounded queue per exporter; trackers and gauges | offer, drop, track, restart | gauges kept by differences over a stream with gaps and repetitions | the gauges agree with the trackers, nothing leaks, the database never waits for metrics |
| Smart retry (`core/engine/retry.py`) | a queue and a visited set over the stored relations | walk, send | cycles, relations stored twice, tasks gone, sends that raise | everything downstream once, nearest first |
| Schema (`core/db/adapters/sqlite/__init__.py`) | tables, columns, the version row | create, stamp, migrate | a death between two statements, each of which stays | requests are served from the current schema only |
| Task queries and pages (same, `web/views/tasks.py`, `dashboard.py`, `web/services.py`, MCP statistics) | a request, the cleanup throttle | filter, order, page, count, clean up, show | rows that move or vanish between two pages; statistics computed twice | no row is missed, nothing past its retention is shown, two pages agree |
| Sign-in (`web/auth.py`) | a session cookie shared by the tabs of a browser | guard, begin, callback, log out | answers that overwrite each other's cookie; settings from two places | who is signed in was allowed, and lands where they asked |
| Brokers and workers in the console (`core/reconciler.py`, `core/engine/`, `web/views/workers.py`, `broker.py`) | queue snapshots, whose turn it is, what a page showed | poll, show, send, grow, shrink, restart, purge, clean up | polls that fail, counts that are unknown, pages older than what they command | every app is polled in turn; a command sends what the worker has |
| Task graph (`web/views/graphs.py`, task detail) | a page read in several calls | relations, tasks, build | events, failures and cleanups between the calls | the graph holds what the tables held |
| Schedule pages and beat controller (`web/views/beat.py`, `components/beat/`) | two backends per schedule; a request of several calls | detect, list, save, move, delete | a failure between two calls; two users | a move does not lose a schedule, except by a failed call |

What is left of the remaining components (configuration, CLI, log queue, frontend, demo) and
of the partly modelled ones is in section 7 and, by component, in `PROJECT.json`.

## 2. Modules

`TaskRecord` is the pure part of `SQLiteController.store_task_event`: which events keep the
state (`ShouldPreserveState`), how retry counts merge (`MergeRetries`), the row an event
leaves (`TaskRowAfter`), the column a row ages by (`Age`, the SQL `coalesce`) and the edges
an event yields (`EdgesOf`, from `dispatch._store_relations`). The columns that an event
overwrites when it carries a value are one function; all that no property looks into are its
single column `"info"`. `Reconciler` uses the same operators for its task table.

`TaskStore` puts them behind the manager's lock: `StoreTaskEvent` is the first transaction of
the ingest handler, `StoreEdge` each following one in the order of the code, `IngestFails`
what an exception or a death leaves behind; `Cleanup` is one handler with its two deletes.
The events arrive as any sequence over the constant `Incoming`, so loss, repetition and
reordering are there without a channel of their own. It implements `TaskLifecycle`, the
promise to the readers of the table: absent, open, closed with an outcome; the mapping takes
the phase from the row's state and the tries from its retry column.

`WorkerStore` holds the worker tables and the status the pages resolve from them;
`WorkerFleet` instantiates it and adds workers (external), the broker's event queue, the
listener that stamps an event *at its receipt*, the reconciler's inspection (stamped when the
answers are in) and writes that are applied late, out of order or not at all, which is what
`DbRpc` shows a timed-out call to do.

`DbRpc` has a program counter per client (`request`: connect, send, poll, close and retry,
give up) and per server thread (`recv`, `admitted`, `locked`, `done`); `inbox` and `outbox`
are what a socket carries either way. A reply is an id (or none, when the manager made one
up) and a code. `Timeout` may strike as long as no reply has arrived and cancels nothing at
the server. `Stop` closes the listener and lets threads run on, `Exit` is the end of the process
or a kill, `Restart` the supervisor's replacement. A closed connection's identity is reused.

`BeatScheduler` takes each access to the table as a step of its own: `Refresh`, and one
`StoreSchedule` per entry written back. Celery's own tick (send one due entry, or say how long
to sleep) is external and modelled from how `DatabaseScheduler` calls it. Time is kept as ages
cut off at `MaxAge`, so that it can pass for ever and liveness be checked. Definitions of a
schedule are abstract: an app, an interval, enabled or not, well-formed or not.

`DbRpc` also has the registry of operations (`RpcOperations`: which calls read, write, or ingest a
task event in several transactions, so that one cut short has applied a part) and the calls
the methods of `DbRpcClient` make; `OperationsRegistered` states that the two agree. Which
calls run, and how often each is retried, is a workload.

`Schema` is what a DB manager does to the file before it listens, one step per statement that
SQLite keeps: Python's driver opens a transaction at the first INSERT, UPDATE or DELETE only, so
a CREATE or ALTER is permanent at once. `Supervisor` walks the dict of processes with one
action per loop turn; `Monitor` and `StartReplacement` are apart because an interrupt fits
between them. `socket` is the file of the DB manager: a kill leaves it `"stale"`. The start of the
DB process is `Schema`'s, and only a manager that finished it listens.

`Reconciler` is `_reconcile_task_states` with `_refresh_tasks` split into its queries.
`EventPipeline` is `_emit` (RPC, then `put_nowait` per exporter) and, per exporter,
`_track_task_state`, `_set_active_count`, the worker's labels and the online gauge. A count is a
record of what the tracker says, what the labelled series shows when it is set (Prometheus)
and when differences are added to it (OpenTelemetry).

The web console is six modules, composed in `MCWeb`: they share no state, so each behaviour of
`WebSpec` moves one of them, and one run checks all.

* `TaskQueries` has no variables: filters, order, paging, statistics, percentiles, buckets and the
  heatmap as functions of a table of `TaskRecord` rows. A text is a value with a collation
  rank; ORDER BY puts a task at the place the number of tasks before it gives (`InOrder`), a sorted
  list of runtimes has at each place the value that has that many up to it (`Ascending`).
  `TaskPages` is a user who follows the links of a task list, page by page, each a
  request of its own (throttled cleanup, query, second query beyond the last page), while
  events are stored and the clock moves between them.
* `SignIn` keeps nothing on the server, as the signed-cookie session does: a request carries the
  cookie the browser had when it was sent, an answer that changed the session overwrites it when it
  arrives. Two tabs, ten configurations resolved from settings and environment.
* `Console` has the broker's messages and the workers (external), the reconciler's polls, the stored
  snapshots, the pages' reads of them and the commands sent through an app of the registry.
* `TaskGraph` instantiates `TaskStore` and reads it in the calls of the page.
* `SchedulePages` is one request per user as the list of calls it has still to make; the two
  backends are a table and a set of periodic tasks under primary keys.
* `SmartRetry` is `_descendants_bfs` and the sending loop, from an arbitrary relation table.

`Absent` declares the one constant (`None`) that modules checked together share. `MC*` modules
only give constants their values; `MCWeb`, `MCDbManager` (the calls of `DbRpc`, the tables of
`TaskStore`) and `MCReconciler` (the backfill of `Reconciler`, the snapshots of `WorkerFleet`) also
put parts side by side that share no state, and `MCConsole` adds a history to `Console` for what
its autoscale button promises.
The theorems are in `TaskStoreProofs` (with the task graph and smart retry), `SupervisorProofs`,
`DbRpcProofs`, `BeatSchedulerProofs` (with the schedule pages), `EventPipelineProofs`, `ReconcilerProofs` (with
the worker fleet) and, for the web console, `TaskPagesProofs` and `WebProofs`.

## 3. Runs

| Run | Instance | Shows |
|---|---|---|
| `DbManager`, calls | 2 clients, 3 workloads (two writes beside a read; a retried ingest beside a write; a retried read beside a write), 3 connections, 2 permits, 1 stop or death | `LockAndPermits`, `InSync`, `ResultsAreTrue`, `AckedInOrder`, `EveryCallReturns` |
| `DbManager`, tables | a child with events of eight states at two times with two retry counts and links, a parent, an announced edge, 2 logged events, clock 0..2 | `StampsMatchState`, `AgeIsLogged`, `EdgesFollowEvents`, `LinksAreFound`, `NoRegression`, `ImplementsLifecycle` |
| `BeatScheduler` | 2 apps, each with its beat, 2 schedules; disabled, malformed, intervals 1 and 2; refresh 3, sleep 2; 2 edits, 1 failed RPC, 1 kill | `NoDoubleRun`, `PolledInTime`, `EveryScheduleRuns` |
| `BeatScheduler_starved` | 1 schedule, interval 3, refresh 2 | `EveryScheduleRuns` fails |
| `BeatScheduler_edits` | 1 schedule, 2 edits, no failures | `EditsSurvive` fails |
| `Supervisor` | 4 processes, 3 deaths, an interrupt anywhere, a file of any of the 5 versions or none | `NobodyForgotten`, `ServedSchemaMatches`, `AllComeBack` |
| `Supervisor_migration` | 2 processes, 1 death | `MigrationIsFinished` fails |
| `Reconciler`, backfill | 3 tasks that finish once each, 2 outcomes, 2 visits between refreshes, 1 failure | `OutcomesHappened`, `Backfilled` |
| `Reconciler`, workers | 1 worker, 1 event in the broker, 2 writes under way, clock 0..3, threshold 1, delay 1, retention 2 | `DeadShownOffline`, `HeartbeatIsLogged` |
| `Reconciler_crowded` | the backfill with 1 outcome | `EveryTaskBackfilled` fails |
| `EventPipeline` | 2 tasks of 2 workers: one received twice by a worker that never speaks itself; queue of 1 | `GaugesMatchTrackers`, `NothingLeaks`, `ListenerGoesOn` |
| `EventPipeline_series` | 1 task, 2 workers, queue of 2 | `NoneShownPrefetched` fails |
| `Console_autoscale` | 1 app, 1 worker with a pool of 2 | `AutoscaleAtPoolSize` fails |
| `Web`, task pages | 4 tasks of 2 names and 2 workers, 3 lists (default order, by runtime, filtered by worker), pages of 2, 4 stores, clock 0..2 | `PagingMissesNothing`, `ShownWithinRetention`, `PagesAgree` |
| `Web`, sign-in | 2 tabs, 2 accounts, 2 paths, 10 configurations, 3 sign-ins | `SignedInWasAllowed`, `LandsWhereAsked` |
| `Web`, console | 2 apps on 2 brokers (one without a URL), 2 workers, 2 queues, 1 message per queue, pools to 2 | `PollsInTurn` |
| `Web`, graph | a root, a grouped child, a task without a parent; 2 logged events, old and new | `GraphShowsStored` |
| `Web`, schedules | 3 apps (one under django-celery-beat), 2 users, 3 requests, 1 failed call | `MovesKeepSchedules` |
| `Web`, retry | 512 graphs over 4 ids, relations stored once or twice | `RetriesAllOnce`, `NearestFirst`, `RetryEnds` |

Rows of one name are one run: each of its behaviours is one of one part. `DbManager` (for its calls),
`BeatScheduler`, `EventPipeline` and `Web` also check the type invariant of their modules (`WebTypeOK` is the
conjunction of the six), and it is proved too. Those of `TaskStore`, `WorkerFleet`, `Supervisor` and
`Reconciler` are only proved.

Why the bounds are enough. The rows of different tasks and of different workers are independent
except through the edge and event tables, so two tasks and one worker show every interaction;
two logged events and a clock of three instants let any state be followed by any other, late
or early, with a cleanup in between, and the log is refilled after it. In `DbRpc` two
clients are the least that compete for the lock and a permit, two calls of one client the
least that can be applied out of order, and three connections are what three calls can use up,
so no client ever waits for an identity. In `BeatScheduler` the refresh interval lies above one
interval and the ages go beyond the sum of refresh and sleep; two apps and two edits are the least
that hand a schedule over. In `Reconciler` the tasks are one more than the visits between two
refreshes, so the list is cut off. In `EventPipeline` the queue is shorter than the life of a task, so it overflows. In the task list two pages and a half let a
row move over a page boundary in either direction while the user is between pages, and a page
vanish under them. Two tabs are the least that overwrite each other's session; a third sign-in
lets one be begun while two are open. Two schedule edits conflict, the third request follows
them. The 512 graphs of `Web` are all subsets of a diamond with a shortcut, a tail, two cycles
and a self-loop.

`CHECK_DEADLOCK FALSE` stands where the system really comes to rest: all calls made
(`DbManager`), the supervisor stopped (`Supervisor`), all tasks finished (`EventPipeline`). `Web` checks
for deadlock; a retry that is over stutters.

What a run named in section 6 checks is not a property of the code, and the run shows it. In
`BeatScheduler_starved` the property is that of the passing run, at an interval above the refresh
interval. `EveryTaskBackfilled` is what `Backfilled` promises without its condition: that in the end fewer tasks wait without an outcome
than there are visits between two refreshes.

## 4. Fairness

* `DbRpc`: `WF(ClientStep(c))` only. A client's every wait ends by its `poll` timeout; nothing
  is assumed of the manager, which may hang for ever. Connecting is one step: without
  `rpc_auth_key`, the default, `Client()` does not wait for the server. With a key it runs a
  handshake without timeout, and `EveryCallReturns` then rests on the manager accepting; a
  full listen backlog blocks `connect` in the same way. `send_bytes` and `recv_bytes` have no timeout
either: messages are taken to fit the socket's buffer, and for one that does not the client
waits on a manager that hangs while reading or writing it (`rpc_client.py:180`, 187).
* `BeatScheduler`: the beat's loop goes on (and a dead beat is started again, see
  `Supervisor`), and time passes.
* `Supervisor`: `WF(Supervise)`, its own steps (each wait has a timeout), and `WF(DbStep)`, a live DB
  manager goes on with its start until it listens. Nothing is assumed of the other processes: they
  may ignore their stop event and SIGTERM. `MigrationIsFinished` is refuted under this fairness:
  in its counterexample every start runs as far as it can.
* `Reconciler`, `EventPipeline`: the reconciler's and the listener's loops. Events may all be
  lost; exporters may be stuck for ever. That the reconciler's loop goes on needs brokers and
  result backends that answer or fail: its calls to them have no timeout (`brokers/base.py:100`,
  211-217), and one that hangs stops backfill, inspections and polls alike. `PollsInTurn` counts
  polls that ended, and says nothing of such a call.
* `Web`: none. A user may close the tab and a request may fail at any call; `RetryEnds` bounds the
  walk by an action property instead.

## 5. What is proved

`TaskStoreProofs`, for any task ids, events, edges, retention and clock bound, from the
named assumptions of `TaskRecord` and `TaskStore` only, and about what follows the stored relations:

* `TypeCorrect`; `StampsAlwaysMatch`, `AgeAlwaysLogged`, `EdgesAlwaysFollow`. The inductive
  invariant `Inv` is the type invariant with the three properties together: a cleanup keeps
  `AgeIsLogged` because both deletes compare with one cutoff, and ingest keeps it because
  `RowAfterAge` says that a row's age changes only to the time of the event just logged.
  The stamps step needs that kept states keep their stamps (`RowAfterStamps`).
* `LinksAlwaysFound`, under `RootsAreStable`: Celery never changes the root of a task and never
  sends a link without one. The strengthening `LinkInv` adds that the root a row shows is that
  of an incoming event; without it an edge could be filed under another root than it is
  looked up by. The assumption is needed: `LinksAreFound` fails without it.
* `RowsNeverRegress`, an action property, from the type invariant and `RowAfterNeverBack`.
* `StoreImplementsLifecycle`: every step of the store is a step of `TaskLifecycle` or a stutter.
* `GraphLeavesNothingOut`, for the graphs of `TaskGraph`, under `LinksAreStable` (as above, for the
  links too). `DueSound` follows each edge a graph must show through the calls of the page: a
  stored relation is collected by the first, a row's link by the second, and until then no event
  and no cleanup takes it away (`LinksStay`). The counts are six disjoint sets of nodes
  (`CountsAddUp`). A parent that only a row names is found because the row names a root
  (`RowsFollow`): without one the graph looks for relations alone, and a failure may have lost them.
* `RetriesEnd`, `EverythingOnce`, `NearestAreFirst`, for any finite relation graph. The
  invariant is that of breadth-first search: the queue is a level and the beginning of the
  next (`Level`), what is nearer is visited, and children of visited ids are visited or queued.
  Distances are defined by sets of ids reachable in n steps; that these become constant
  (`DownstreamClosed`) is a pigeonhole argument over the finite ids. The induction is done on
  sets of numbers (`LeastNat`, `UpTo`): a least counterexample exists because < is well-founded.

`SupervisorProofs`, for any processes in any order and any number of deaths:

* `TypeCorrect`, `NobodyEverForgotten`, `ServedSchemaAlwaysMatches`. The inductive invariant adds
  `StopSound` (what is told and terminated up to the index a loop of `stop()` is at), `SocketSound`
  (only a manager that finished its start has the socket) and `SchemaSound`, which says what each
  step of a start relies on whatever an earlier one left: a file without a version row has only
  tables made by `create_all`, with all their columns; one of version v has every column v
  brought; and a migration has added the columns of all steps before the next.

`DbRpcProofs`, for any clients, workloads, finite set of connections, permits and deaths:

* `TypeCorrect`, `OneHandlerAtATime`, `AnswersAreOnesOwn`, `CallersAreToldTheTruth`,
  `AcknowledgedInOrder`. One invariant carries all five. It follows a request: `CarriesOne`, a
  connection holds one request at most, sent, worked on or answered; `ClientsSound`, it is the call
  its client waits for, or one whose client has closed the connection; `ThreadsSound`, what a thread
  leaves on its connection at each step. That a client never reads another's answer follows,
  though it closes and reuses connections. `AnswersTrue` says the same of an answer on its way as
  `ResultsAreTrue` of one received; `CopiesBounded` and `AppliesBounded` count the copies of a
  request still under way, which a retry multiplies and a late handler applies. A reply under an id the manager made up (BUSY,
  an oversized or unreadable request) belongs to the call whose request it answers.
* The permits are counted over the set of busy connections (`FiniteSetTheorems`), hence the
  assumption that connections are finitely many at a time.

`BeatSchedulerProofs`, for any schedules, definitions, intervals and bounds:

* `TypeCorrect` and `PolledOnTime`, for any number of apps: `Phases` bounds the age of the last
  refresh by what the beat is about to do.
* `NothingRunsTwice`, for any number of apps, each with its beat. Two beats may run one schedule
  early only if users handed it from one app to the other, and `homes` remembers the apps a
  schedule was ever saved for. `AtHome` is why nothing else does: a row is of one of its homes, and
  a beat holds entries of its own app only. With one home there is one beat that sends the
  schedule and writes it back, and `RunStatesKept` says of it: unless the run state was lost
  (`unsaved`), every copy is at most as old as the last sending, and a row that is older is
  about to be overwritten by the beat that has it dirty.
* `MovesLoseNothing`, under `NamesAreNoNumbers`, no name is a primary key: with a schedule named "7"
  and a periodic task under key 7 one request means two schedules by one id. The invariant has a
  witness, the name each key stands for, and says that a request which takes a schedule away
  has yet to store it under the same id.

`EventPipelineProofs`, for any tasks, workers, exporters and queue sizes:

* `TypeCorrect`, without more.
* `CountsMatchTrackers` and `FinishedLeavesNothing`, under `OneWorkerEach`: no task is delivered to a
  second worker, in which case the code does keep a count (section 6). `MemorySound` says each
  gauge and series is the number of trackers it stands for, for every exporter alone; it needs
  `EventsSayable`, since a tracker leaves the count of the worker its *next* event names.
  `TasksFollowed` and `WorkersFollowed` say of an exporter that got every event that the newest event
  in its queue about a task, or else its tracker, has the task's state.

`ReconcilerProofs`, for any finite set of tasks and any number of runs, visits and failures:

* `TypeCorrect`, `OutcomesAreReal`. `NewsHappened` says of events under way, results in the backend and
  the outcome looked up but not stored what `OutcomesHappened` says of rows; `LoopSound`
  says what the reconciler holds at each step.

and, for any workers, delays, thresholds and bounds of `WorkerFleet`:

* `FleetTypeCorrect`, `HeartbeatAlwaysLogged`, `DeadAlwaysShownOffline`. The inductive invariant
  adds `Traces`: whatever tells of a worker (an event in the broker, an inspection, a write
  under way, the heartbeat of its row) is stamped no later than the worker's last sign of life
  plus `MaxDelay`. `DeadShownOffline` alone is not inductive, since a write still under way may
  set a row back to ONLINE at any time; `Traces` bounds the heartbeat it can bring.

`TaskPagesProofs`:

* `NothingTooOldIsShown`, `NothingIsMissed`, for any finite set of tasks, any lists, page size,
  retention and throttle interval. `InOrderSorted`: counting those before it gives every task of a
  finite set a place of its own, so the places are exactly 1 to the number of tasks and the sorted
  sequence exists; it is a fact about injections between finite sets, and needs no induction.
  `RetentionSound` says what a cleanup leaves, and that a request which skipped
  it (the throttle) is less than an interval later. `WalkSound` says that a task
  which stayed in the list unchanged and has fewer newer ones than the pages behind the user hold
  has been seen: no step but a slide back takes a newer one from before it. Both were
  checked by TLC on the instance of section 3 before they were proved. Assumed: ids are
  numbers of their own (ties keep one order), pages and intervals are not empty, an event is
  not delayed by more than the retention.
* `PagesNeverDisagree`, for any table, filters and time units; `PagesAgree` holds in every typed state.
  Totals are folds, over a set of names, states or buckets: `CountsAddUp` says once that a count
  by classes adds up to what is counted. A fold over a set is a recursive function of
  its subsets, which exists because a subset's value is the number in its classes, and is
  unique because a smallest set on which two differ has no smaller one. The rest is which
  class a task is in: a bucket for each time in the range and only one (`BucketInRange`), one
  name, one card. Runtimes are determined by how many are up to a value
  (`UpToValue`, `AscendingSame`): the tool groups by position and the tab by task, and both get the
  same sequence. That it rises (`AscendingRises`) gives the order of the percentiles, since a
  percentile is between the runtimes at its two places (`AtBetween`) and later places give more
  (`AtRises`). Assumed: hour, day and week are positive, and no time range is the absent value.

`WebProofs`:

* `OnlyTheAllowedAreIn`, `SignInsReturn`, for any tabs, accounts, profiles and settings. `SignInInv`
  speaks of every cookie, the browser's and those of answers on their way, since any of them
  may be the one that stays: each names an account the configuration admits, and a cookie with
  the token of a tab's sign-in remembers the page that tab asked for.
* `EveryAppHasItsTurn`, for any list of apps: `RoundTheApps` says how many polls ago each app had its
  turn, as a function of its distance to the index.
* `WebTypesKept`: `EachPartBehaves` shows that the composition `WebSpec` satisfies the specification of each
  part, so what is proved of a part holds in it, and each part keeps its types. A type says
  more than its properties need, hence invariants of its own: the cookies' tokens count from one
  and the page to return to is one behind the sign-in (`SignInAsked`); a command under
  way carries a limit that a pool has had (`CommandTyped`); a call that stores brings a row
  (`SchedulesTyped`); no page number lies beyond the last page of all tasks (`PagesBounded`, in
  `TaskPagesProofs`); what the queue of a retry holds is ids of the graph.

Only model-checked: liveness (`EveryCallReturns`, `EveryScheduleRuns`, `AllComeBack`, `Backfilled`,
`ListenerGoesOn`), which is out of the prover's reach.

## 6. What the models say about the code

Checked disagreements (listed under `findings`):

1. A schedule made in the UI has no `last_run_at`; each refresh counts it as run now. When its
   interval is not shorter than `beat_db_refresh_seconds` it never runs (`BeatScheduler_starved`).
2. The write-back of run state upserts the whole schedule from the copy made at the last
   refresh: an edit saved since is reverted, a deleted schedule comes back (`BeatScheduler_edits`).
3. A migration commits each ALTER TABLE as it runs, before the version row. A manager that dies
   between two of them fails at every later start on the column that is already there, and
   the supervisor restarts it for ever (`Supervisor_migration`).
4. A worker's series carry `broker="unknown"` until its first own event. A task counted before and
   gone after it leaves the old series at 1; the OpenTelemetry exporter also leaves the new one
   at -1 (`EventPipeline_series`).
5. The backfill list is rebuilt from its head on a timer, and a turn visits one task. Tasks without an
   outcome that are as many as the visits in between keep the one behind them from ever being
   looked up (`Reconciler_crowded`).
6. A heartbeat writes NULL over the pool size an inspection stored, and autoscale then sends a
   maximum of 1, whatever the pool is (`Console_autoscale`).

The properties are worded around these behaviours, which are in the models:

* A task row known only by RETRY or REJECTED events has no stamp and is never cleaned up, so it outlives
  its events; a worker row whose only event was worker-offline is not cleaned up either.
  `StampsMatchState` and `HeartbeatIsLogged` say which rows these are.
* A schedule handed from one app to another runs in both beats until the old one refreshes, and
  starts a clock of its own in the new one.
* One malformed schedule stops its whole app's beat at every refresh; `EveryScheduleRuns` excepts
  such apps.
* A BUSY reply carries a made-up request id, as does the one to a request that is too large or cannot
  be read; the client reports a mismatch, never what was wrong. A failed ingest reply may have
  applied the event's first transactions.
* Beat reads the table at most every refresh interval *plus* one sleep of Celery.
* An interrupt between registering a replacement process and starting it makes `stop()` raise
  when it joins that process; `NobodyForgotten` is about a stop that ends.
* A task received by a second worker while prefetched at a first stays counted at the first;
  `EventPipeline` delivers each task to one worker. A worker that dies without worker-offline
  stays online in the exporters.
* Smart retry is breadth-first by distance: `retry.py:52` says "re-sent in a breadth-first order
  so parents go before their children", and a shortcut sends a child before one of its parents.
  `NearestFirst` states what the order does promise.
* A lost relation row is still drawn in the graph, from the row's columns, but not followed by smart
  retry. `_parent_id` shows a root with children as its own parent.
* Two relation kinds outside the known ones between one pair both become "chain", under one edge id.
* A page beyond the last one is asked again for the last page of the first count; the count itself is
  not taken again, so an emptied list shows "page 3 of 1". Rows without the sort column come first
  in one list path and last in the other.
* A row exactly on an hour boundary counts in both hours of the card change.
* The idle purge treats a queue without a known consumer count (Redis, a failed poll) as one without
  consumers, and trusts the stored snapshot (`broker.py:365`, 380-381).
* The latest event of a worker may be a heartbeat, which carries neither queues nor pool: the upsert
  then writes NULL over the snapshot's, and the detail page lacks them until the next inspection.
  "Workers online" counts a worker that said OFFLINE by its heartbeat.
* Grow, shrink, retry and revoke are sent through the first registered app only. A worker of an
  app without a broker URL is shown under any broker with a queue of its name; two raw URLs that
  redact to one are counted twice in "Pending queue".
* `next` survives a failed sign-in in the session.
* The web process's `INSTALLED_APPS` lack django-celery-beat, so moving a schedule to such an app
  deletes it and then fails; where the models can be loaded, the copy in the table is kept under
  the name but listed and deleted under the primary key, so it outlives its deletion, and a
  rename is not applied. `MovesKeepSchedules` excepts moves that a failed call cut short.

## Not modelled

* Configuration, CLI, log queue, demo and deployment: no behaviour over time beyond starting the
  process manager. The frontend renders what the graph page sends.
* Event listener: the choice and priming of the event app (configuration).
* Exporters: counters and histograms, which only grow, and the pool-size gauge.
* Engine: revoke, rate limits, health checks, inspections and result lookups pass one command or
  answer on; the MCP tools but the statistics, the metrics and settings pages and the JSON
  views pass on one read.
* In the modelled parts: text and JSON conversions, SQL columns without a property, layout,
  logging; the RPC handshake's own steps (its effect, a manager that exits, is there); `sync` and
  `close` of the scheduler, which flush as a tick does; importing an app.
* Abstracted in the modelled parts: an address is allowed by membership (the code searches it for an
  unanchored regular expression), a search finds by equality (LIKE), an application's own task-*
  events, which get a state of their own name (`event_listener.py:356`), are left out. Settings do
  not change under a running server, so a session that outlives a narrowed allow list is not
  seen (`auth.py:486`). `DBManager.stop()` connects to its own socket and is one step. An
  inspection asks a worker that is listed now; the code's list of names may be 30 seconds old.

## 7. Plan

Stage 1 (done): task store, RPC, workers, beat, supervisor, smart retry, reconciler, metrics.

Stage 2 (done): queries and task pages, schema, cleanup throttle, sign-in, brokers, workers and
their commands, graph, schedule pages and beat controller, labelled series.

Stage 3, proofs (done). Left to model: the RPC
handshake's steps, the listener's choice of an event app, the frontend's pure graph transforms.

---------------------------- MODULE EventPipeline ----------------------------
(***************************************************************************)
(* From the event stream to the metrics: the listener sends each event to   *)
(* the DB manager and then offers it to the bounded queue of each exporter,  *)
(* dropping it where the queue is full; each exporter process takes events   *)
(* off its queue, keeps a tracker per unfinished task and from it the       *)
(* counts of prefetched and active tasks per worker.  Events are missed     *)
(* while the listener is away, exporters are slow, stuck or killed.  A count *)
(* is shown as a series labelled with the worker's broker, "unknown" until  *)
(* the worker's first own event: the Prometheus exporter sets the series,   *)
(* the OpenTelemetry exporter adds the difference to it.                    *)
(***************************************************************************)
EXTENDS Integers, Sequences, FiniteSets

CONSTANTS
  Tasks, Workers,
  WorkersOf,      \* task: the workers it may be delivered to
  Exporters,
  QueueSize,      \* event_queue_maxsize
  LoadsOf,        \* worker: active-task counts its own events report, none when it sends none
  MaxReceived,    \* bound, task: times it is received
  None

ASSUME PipelineAssumption ==
  /\ WorkersOf \in [Tasks -> SUBSET Workers]
  /\ QueueSize \in Nat \ {0}
  /\ LoadsOf \in [Workers -> SUBSET Nat]
  /\ MaxReceived \in [Tasks -> Nat]

VARIABLES
  life,           \* task: its last state, "new" before the first
  at,             \* task: the worker that has it, or None
  received,       \* task: how often it was received
  up,             \* worker: whether its last own event had it online, or None
  event,          \* the event the listener is at, or None
  offers,         \* the listener: the exporters it has yet to offer it to
  sentToDb,       \* the listener: the DB call for it has returned
  queue,          \* exporter: its queue
  trackers,       \* exporter: task |-> state and worker, or None
  prefetched,     \* exporter: worker |-> its count and, as each kind of exporter shows
                  \* it, the series of every label
  active,         \* exporter: the same of running tasks
  known,          \* exporter: the workers whose broker it knows, _worker_brokers
  online,         \* exporter: worker |-> the online gauge, None before it is shown
  complete        \* history: exporters that were offered and took every event

worldVars == <<life, at, received, up>>
listenerVars == <<event, offers, sentToDb>>
exporterVars == <<trackers, prefetched, active, known, online>>
vars == <<worldVars, listenerVars, queue, exporterVars, complete>>

(* SUCCESS stands for FAILURE too. *)
Terminal == {"SUCCESS", "REVOKED", "REJECTED"}
States == Terminal \cup {"RECEIVED", "STARTED", "RETRY"}

TaskEvent == [task : Tasks, state : States, worker : Workers]
WorkerEvent == [worker : Workers, load : UNION {LoadsOf[w] : w \in Workers}, online : BOOLEAN]
Tracker == [state : States \ Terminal, worker : Workers]
Labels == {"unknown", "broker"}
Gauge == [Workers -> [count : Nat, set : [Labels -> Nat], added : [Labels -> Int]]]
NoSeries == [l \in Labels |-> 0]
Zero == [w \in Workers |-> [count |-> 0, set |-> NoSeries, added |-> NoSeries]]
Silent == [w \in Workers |-> None]

ASSUME NoneIsNothing == None \notin TaskEvent \cup WorkerEvent \cup Tracker \cup Workers

TypeOK ==
  /\ life \in [Tasks -> States \cup {"new"}]
  /\ at \in [Tasks -> Workers \cup {None}]
  /\ received \in [Tasks -> Nat] /\ \A t \in Tasks : received[t] <= MaxReceived[t]
  /\ up \in [Workers -> BOOLEAN \cup {None}]
  /\ event \in TaskEvent \cup WorkerEvent \cup {None}
  /\ offers \subseteq Exporters
  /\ sentToDb \in BOOLEAN
  /\ queue \in [Exporters -> Seq(TaskEvent \cup WorkerEvent)]
  /\ \A x \in Exporters : Len(queue[x]) <= QueueSize
  /\ trackers \in [Exporters -> [Tasks -> Tracker \cup {None}]]
  /\ prefetched \in [Exporters -> Gauge] /\ active \in [Exporters -> Gauge]
  /\ known \in [Exporters -> SUBSET Workers]
  /\ online \in [Exporters -> [Workers -> BOOLEAN \cup {None}]]
  /\ complete \subseteq Exporters

Init ==
  /\ life = [t \in Tasks |-> "new"]
  /\ at = [t \in Tasks |-> None]
  /\ received = [t \in Tasks |-> 0]
  /\ up = Silent
  /\ event = None /\ offers = {} /\ sentToDb = FALSE
  /\ queue = [x \in Exporters |-> <<>>]
  /\ trackers = [x \in Exporters |-> [t \in Tasks |-> None]]
  /\ prefetched = [x \in Exporters |-> Zero]
  /\ active = [x \in Exporters |-> Zero]
  /\ known = [x \in Exporters |-> {}]
  /\ online = [x \in Exporters |-> Silent]
  /\ complete = Exporters

-----------------------------------------------------------------------------
(* The event stream (outside the repository): a task is received, started and
   finished by a worker, may be retried, revoked or rejected; a task whose worker
   was lost is received again, by another worker too. *)

Follows(state) ==
  CASE state = "RECEIVED" -> {"new", "RECEIVED", "STARTED", "RETRY"}
    [] state = "STARTED" -> {"RECEIVED"}
    [] state \in {"REVOKED", "REJECTED"} -> {"RECEIVED"}
    [] state \in {"SUCCESS", "RETRY"} -> {"STARTED"}

(* The listener gets it, or is away and misses it. *)
Publish(e) ==
  /\ event = None
  /\ \/ event' = e /\ offers' = Exporters /\ sentToDb' = FALSE /\ UNCHANGED complete
     \/ complete' = {} /\ UNCHANGED listenerVars

TaskStep(t, state, w) ==
  /\ life[t] \in Follows(state)
  /\ IF state = "RECEIVED"
     THEN w \in WorkersOf[t] /\ received[t] < MaxReceived[t]
     ELSE w = at[t]
  /\ received' = IF state = "RECEIVED" THEN [received EXCEPT ![t] = @ + 1] ELSE received
  /\ life' = [life EXCEPT ![t] = state]
  /\ at' = [at EXCEPT ![t] = w]
  /\ Publish([task |-> t, state |-> state, worker |-> w])
  /\ UNCHANGED <<up, queue, exporterVars>>

(* worker-online or worker-heartbeat, worker-offline: each with the active count. *)
WorkerStep(w, load, isUp) ==
  /\ up' = [up EXCEPT ![w] = isUp]
  /\ Publish([worker |-> w, load |-> load, online |-> isUp])
  /\ UNCHANGED <<life, at, received, queue, exporterVars>>

-----------------------------------------------------------------------------
(* The listener: _emit *)

(* The RPC returns, or fails with an error that is logged. *)
SendToDb ==
  /\ event # None /\ ~ sentToDb
  /\ sentToDb' = TRUE
  /\ UNCHANGED <<worldVars, event, offers, queue, exporterVars, complete>>

(* The ValueError of an event above rpc_max_message_bytes is caught only by the
   loop of run(): no exporter is offered the event. *)
SendRaises ==
  /\ event # None /\ ~ sentToDb
  /\ event' = None
  /\ offers' = {}
  /\ complete' = {}
  /\ UNCHANGED <<worldVars, sentToDb, queue, exporterVars>>

(* Mutant: put() instead of put_nowait(). *)
PutBlocking(x) ==
  /\ sentToDb /\ x \in offers
  /\ Len(queue[x]) < QueueSize
  /\ queue' = [queue EXCEPT ![x] = Append(@, event)]
  /\ offers' = offers \ {x}
  /\ UNCHANGED <<worldVars, event, sentToDb, exporterVars, complete>>

(* Mutant: the queue has no bound. *)
PutUnbounded(x) ==
  /\ sentToDb /\ x \in offers
  /\ queue' = [queue EXCEPT ![x] = Append(@, event)]
  /\ offers' = offers \ {x}
  /\ UNCHANGED <<worldVars, event, sentToDb, exporterVars, complete>>

(* put_nowait: an event for a full queue is dropped. *)
Put(x) ==
  /\ sentToDb /\ x \in offers
  /\ IF Len(queue[x]) < QueueSize
     THEN queue' = [queue EXCEPT ![x] = Append(@, event)] /\ UNCHANGED complete
     ELSE complete' = complete \ {x} /\ UNCHANGED queue
  /\ offers' = offers \ {x}
  /\ UNCHANGED <<worldVars, event, sentToDb, exporterVars>>

Handled ==
  /\ event # None /\ sentToDb /\ offers = {}
  /\ event' = None
  /\ sentToDb' = FALSE
  /\ UNCHANGED <<worldVars, offers, queue, exporterVars, complete>>

Listen == SendToDb \/ SendRaises \/ (\E x \in Exporters : Put(x)) \/ Handled

-----------------------------------------------------------------------------
(* An exporter: on_task_event, on_worker_event *)

(* _worker_labels: the broker (and the backend) only once an event of the worker
   itself told it. *)
Label(x, w) == IF w \in known[x] THEN "broker" ELSE "unknown"

(* The count of w becomes n: the Prometheus exporter sets the series of that label,
   the OpenTelemetry exporter adds the difference to it (actual_delta). *)
Counted(gauge, w, label, n) ==
  LET old == gauge[w]
      new == [count |-> n,
              set |-> [old.set EXCEPT ![label] = n],
              added |-> [old.added EXCEPT ![label] = @ + n - old.count]]
  IN  [gauge EXCEPT ![w] = new]

(* _update_prefetched and _update_active: never below zero. *)
Adjusted(x, gauge, w, delta) ==
  LET n == gauge[w].count + delta
  IN  Counted(gauge, w, Label(x, w), IF n <= 0 THEN 0 ELSE n)

(* Mutant: a task leaves the gauge only when it is finished. *)
MovedWhenFinished(x, gauge, state, previous, e) ==
  CASE previous # None /\ previous.state = state /\ e.state \in Terminal ->
         Adjusted(x, gauge, previous.worker, -1)
    [] e.state = state /\ (previous = None \/ previous.state # state) ->
         Adjusted(x, gauge, e.worker, 1)
    [] OTHER -> gauge

(* A gauge of the tasks in "state", after e for a task tracked as "previous". *)
Moved(x, gauge, state, previous, e) ==
  CASE previous # None /\ previous.state = state /\ e.state # state ->
         Adjusted(x, gauge, previous.worker, -1)
    [] e.state = state /\ (previous = None \/ previous.state # state) ->
         Adjusted(x, gauge, e.worker, 1)
    [] OTHER -> gauge

(* Mutant: trackers of finished tasks are kept. *)
TrackForEver(x, e) ==
  /\ prefetched' = [prefetched EXCEPT ![x] = Moved(x, @, "RECEIVED", trackers[x][e.task], e)]
  /\ active' = [active EXCEPT ![x] = Moved(x, @, "STARTED", trackers[x][e.task], e)]
  /\ trackers' = [trackers EXCEPT ![x][e.task] =
       IF e.state \in Terminal THEN @ ELSE [state |-> e.state, worker |-> e.worker]]
  /\ UNCHANGED <<known, online>>

(* _track_task_state *)
Track(x, e) ==
  /\ prefetched' = [prefetched EXCEPT ![x] = Moved(x, @, "RECEIVED", trackers[x][e.task], e)]
  /\ active' = [active EXCEPT ![x] = Moved(x, @, "STARTED", trackers[x][e.task], e)]
  /\ trackers' = [trackers EXCEPT ![x][e.task] =
       IF e.state \in Terminal THEN None ELSE [state |-> e.state, worker |-> e.worker]]
  /\ UNCHANGED <<known, online>>

(* on_worker_event, with _set_active_count: the broker is noted first. *)
WorkerSeen(x, e) ==
  /\ known' = [known EXCEPT ![x] = @ \cup {e.worker}]
  /\ active' = [active EXCEPT ![x] = Counted(@, e.worker, "broker", e.load)]
  /\ online' = [online EXCEPT ![x][e.worker] = e.online]
  /\ UNCHANGED <<trackers, prefetched>>

Export(x) ==
  /\ queue[x] # <<>>
  /\ LET e == Head(queue[x]) IN IF "task" \in DOMAIN e THEN Track(x, e) ELSE WorkerSeen(x, e)
  /\ queue' = [queue EXCEPT ![x] = Tail(@)]
  /\ UNCHANGED <<worldVars, listenerVars, complete>>

(* The process dies and is replaced: its memory is lost, its queue is not. *)
Restart(x) ==
  /\ \/ trackers[x] # [t \in Tasks |-> None] \/ known[x] # {}
     \/ prefetched[x] # Zero \/ active[x] # Zero
  /\ trackers' = [trackers EXCEPT ![x] = [t \in Tasks |-> None]]
  /\ prefetched' = [prefetched EXCEPT ![x] = Zero]
  /\ active' = [active EXCEPT ![x] = Zero]
  /\ known' = [known EXCEPT ![x] = {}]
  /\ online' = [online EXCEPT ![x] = Silent]
  /\ UNCHANGED <<worldVars, listenerVars, queue, complete>>

Next ==
  \/ \E t \in Tasks, state \in States, w \in Workers : TaskStep(t, state, w)
  \/ \E w \in Workers, isUp \in BOOLEAN : \E load \in LoadsOf[w] : WorkerStep(w, load, isUp)
  \/ Listen
  \/ \E x \in Exporters : Export(x) \/ Restart(x)

(* Only the listener is sure to go on: exporters may be stuck for ever. *)
Spec == Init /\ [][Next]_vars
FairSpec == Spec /\ WF_vars(Listen)

-----------------------------------------------------------------------------
(* Properties *)

CountOf(x, state, w) == Cardinality({t \in Tasks : trackers[x][t] = [state |-> state, worker |-> w]})

(* The counts are what the trackers say, with events missed, dropped and lost with
   a restart: prefetched tasks always, active ones of a worker whose own events do
   not replace the count, when no task is delivered to a second worker.  The
   differences of all labels add up to the count, and the series that are set show
   it where the labels never change. *)
GaugesMatchTrackers ==
  \A x \in Exporters, w \in Workers :
    /\ prefetched[x][w].count = CountOf(x, "RECEIVED", w)
    /\ LoadsOf[w] = {} => active[x][w].count = CountOf(x, "STARTED", w)
    /\ \A gauge \in {prefetched[x][w], active[x][w]} :
         /\ gauge.added["unknown"] + gauge.added["broker"] = gauge.count
         /\ LoadsOf[w] = {} => gauge.set["unknown"] = gauge.count

CaughtUp(x) == x \in complete /\ event = None /\ queue[x] = <<>>
AllFinished == \A t \in Tasks : life[t] \in Terminal \cup {"new"}

(* An exporter that got every event and has caught up shows no worker online or
   offline that last said otherwise and, when all tasks are finished, has no tracker
   and no prefetched task left, restarts or not. *)
NothingLeaks ==
  \A x \in Exporters : CaughtUp(x) =>
    /\ \A w \in Workers : online[x][w] \in {None, up[w]}
    /\ AllFinished => /\ trackers[x] = [t \in Tasks |-> None]
                      /\ \A w \in Workers : prefetched[x][w].count = 0

(* "Number of tasks of given type prefetched at a worker": when every task is
   finished, an exporter that got every event shows none. *)
NoneShownPrefetched ==
  \A x \in Exporters : CaughtUp(x) /\ AllFinished =>
    \A w \in Workers : prefetched[x][w].set = NoSeries /\ prefetched[x][w].added = NoSeries

(* The listener is done with every event, and so the database gets the next, even
   when every exporter is stuck. *)
ListenerGoesOn == event # None ~> event = None

=============================================================================

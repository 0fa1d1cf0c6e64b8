------------------------------ MODULE TaskStore ------------------------------
(***************************************************************************)
(* The task tables behind the DB manager: tasks, task_events and           *)
(* task_relations, with the handlers db.task_event.ingest,                 *)
(* db.task_relation.ingest and db.cleanup.  The manager's global lock runs *)
(* one handler at a time, but a handler that ingests a task event commits  *)
(* several transactions: the event and the row first, then one transaction *)
(* per edge, and any of the later ones may fail or the process may die     *)
(* between two of them.                                                    *)
(***************************************************************************)
EXTENDS TaskRecord, FiniteSets

CONSTANTS
  Incoming,      \* the task events that may arrive, any number of times, in any order
  Announced,     \* the edges that task-relation events may announce
  Retention,     \* retention window, in clock ticks
  MaxLog         \* bound: distinct rows kept in task_events

ASSUME StoreAssumption ==
  /\ Incoming \subseteq TaskEvent
  /\ Announced \subseteq Edge
  /\ Retention \in Nat \ {0}
  /\ MaxLog \in Nat

VARIABLES
  tasks,         \* the tasks table
  taskEvents,    \* the distinct rows of task_events
  relations,     \* the distinct rows of task_relations
  todo,          \* edges the running ingest handler has yet to store
  lost,          \* history: edges a failed handler never stored
  now            \* the DB manager's clock

taskVars == <<tasks, taskEvents, relations, todo, lost, now>>

TasksTypeOK ==
  /\ tasks \in [TaskIds -> TaskRow \cup {NoRow}]
  /\ taskEvents \subseteq TaskEvent
  /\ relations \subseteq Edge
  /\ todo \subseteq Edge
  /\ lost \subseteq Edge
  /\ now \in Times

TasksInit ==
  /\ tasks = [t \in TaskIds |-> NoRow]
  /\ taskEvents = {}
  /\ relations = {}
  /\ todo = {}
  /\ lost = {}
  /\ now = 0

-----------------------------------------------------------------------------
(* No handler holds the manager's lock. *)
Idle == todo = {}

(* The first transaction of _ingest_task_event. *)
StoreTaskEvent(event) ==
  /\ Idle
  /\ Cardinality(taskEvents \cup {event}) <= MaxLog
  /\ tasks' = [tasks EXCEPT ![event.task] = TaskRowAfter(@, event)]
  /\ taskEvents' = taskEvents \cup {event}
  /\ todo' = EdgesOf(event)
  /\ UNCHANGED <<relations, lost, now>>

(* The following ones, one per edge: parent, then group, then chord. *)
IsNext(edge) ==
  \/ edge.relation = "parent"
  \/ edge.relation = "group" /\ ~ \E e \in todo : e.relation = "parent"
  \/ edge.relation = "chord" /\ todo = {edge}

(* Mutant: the handler returns after the first edge. *)
StoreOneEdge ==
  \E edge \in todo :
    /\ IsNext(edge)
    /\ relations' = relations \cup {edge}
    /\ todo' = {}
    /\ UNCHANGED <<tasks, taskEvents, lost, now>>

StoreEdge ==
  \E edge \in todo :
    /\ IsNext(edge)
    /\ relations' = relations \cup {edge}
    /\ todo' = todo \ {edge}
    /\ UNCHANGED <<tasks, taskEvents, lost, now>>

(* A transaction of _store_relations raises, or the process dies: what is
   committed stays, the rest is forgotten, and nothing retries it. *)
IngestFails ==
  /\ todo # {}
  /\ lost' = lost \cup todo
  /\ todo' = {}
  /\ UNCHANGED <<tasks, taskEvents, relations, now>>

StoreTaskRelation(edge) ==
  /\ Idle
  /\ relations' = relations \cup {edge}
  /\ UNCHANGED <<tasks, taskEvents, todo, lost, now>>

(* SQL comparison: NULL < cutoff is not true. *)
Before(stamp, cutoff) == stamp # None /\ stamp < cutoff

(* Mutant: the first delete takes the cutoff with it, the second does not. *)
CleanupOffByOne ==
  LET cutoff == now - Retention
  IN  /\ Idle
      /\ taskEvents' = {e \in taskEvents : ~ Before(e.ts, cutoff + 1)}
      /\ tasks' = [t \in TaskIds |->
                     IF tasks[t] # NoRow /\ Before(Age(tasks[t]), cutoff)
                     THEN NoRow ELSE tasks[t]]
      /\ UNCHANGED <<relations, todo, lost, now>>

Cleanup ==
  LET cutoff == now - Retention
  IN  /\ Idle
      /\ taskEvents' = {e \in taskEvents : ~ Before(e.ts, cutoff)}
      /\ tasks' = [t \in TaskIds |->
                     IF tasks[t] # NoRow /\ Before(Age(tasks[t]), cutoff)
                     THEN NoRow ELSE tasks[t]]
      /\ UNCHANGED <<relations, todo, lost, now>>

Tick ==
  /\ now < MaxTime
  /\ now' = now + 1
  /\ UNCHANGED <<tasks, taskEvents, relations, todo, lost>>

TasksNext ==
  \/ \E event \in Incoming : StoreTaskEvent(event)
  \/ StoreEdge
  \/ IngestFails
  \/ \E edge \in Announced : StoreTaskRelation(edge)
  \/ Cleanup
  \/ Tick

TasksSpec == TasksInit /\ [][TasksNext]_taskVars

-----------------------------------------------------------------------------
(* Safety *)

Rows == {t \in TaskIds : tasks[t] # NoRow}

(* A row carries the timestamp its state calls for, and a finish time exactly
   when it is final, whatever order the events came in: the pages sort, filter
   and delete by these columns. *)
StampsMatchState ==
  \A t \in Rows :
    /\ tasks[t].finished # None <=> tasks[t].state \in FinalStates
    /\ tasks[t].state = "STARTED" => tasks[t].started # None
    /\ tasks[t].state \in WaitingStates => tasks[t].received # None
    /\ Age(tasks[t]) = None => tasks[t].state \in {"RETRY", "REJECTED"}

(* The timestamp a row ages by is that of an event still in task_events, and
   that event is the outcome the row shows when the row is final: the cleanup,
   which trims the two tables by two separate deletes, never leaves a dated row
   whose dating event is gone. *)
AgeIsLogged ==
  \A t \in Rows :
    Age(tasks[t]) # None =>
      \E e \in taskEvents :
        /\ e.task = t
        /\ e.ts = Age(tasks[t])
        /\ Final(tasks[t]) => e.state = tasks[t].state

(* Every edge of a logged event is in the relation table, unless the handler
   is still at it or a failure between its transactions lost it. *)
EdgesFollowEvents ==
  \A e \in taskEvents : EdgesOf(e) \subseteq relations \cup todo \cup lost

(* A link the row shows is found where the graph and the detail pages look it
   up: under the row's root_id, or its task_id when it has none. *)
LinksAreFound ==
  \A t \in Rows, k \in LinkKinds :
    tasks[t].cols[k] # None =>
      LinkEdge(t, tasks[t].cols, k) \in relations \cup todo \cup lost

(* What Celery guarantees of the ids an event carries, and LinksAreFound needs:
   the root of a task never changes, and a link never comes without a root. *)
RootsAreStable ==
  /\ \A e \in Incoming : (\E k \in LinkKinds : e.cols[k] # None) => e.cols["root"] # None
  /\ \A e, f \in Incoming :
       (e.task = f.task /\ e.cols["root"] # None /\ f.cols["root"] # None)
         => e.cols["root"] = f.cols["root"]

-----------------------------------------------------------------------------
(* Action properties *)

(* While a row exists it never leaves the final states, never falls back from
   STARTED to waiting or from RECEIVED to PENDING, and its retry counter never
   drops or disappears, however late or often an event is delivered. *)
NeverBack(old, new) ==
  /\ Final(old) => Final(new)
  /\ old.state = "STARTED" => new.state \notin WaitingStates
  /\ old.state = "RECEIVED" => new.state # "PENDING"
  /\ old.retries # None => new.retries # None /\ new.retries >= old.retries
  /\ \A c \in Columns : old.cols[c] # None => new.cols[c] # None

NoRegression ==
  [][\A t \in TaskIds :
       tasks[t] # NoRow /\ tasks'[t] # NoRow => NeverBack(tasks[t], tasks'[t])]_taskVars

-----------------------------------------------------------------------------
(* Refinement: what a reader of the tasks table may rely on. *)

PhaseOf(row) ==
  IF row = NoRow THEN "absent" ELSE IF Final(row) THEN row.state ELSE "open"

Lifecycle == INSTANCE TaskLifecycle WITH
  phase <- [t \in TaskIds |-> PhaseOf(tasks[t])],
  tries <- [t \in TaskIds |-> IF tasks[t] = NoRow THEN None ELSE tasks[t].retries]

(* The task table implements the lifecycle: absent, open, closed with an
   outcome that only another outcome or the retention replaces. *)
ImplementsLifecycle == Lifecycle!Spec
=============================================================================

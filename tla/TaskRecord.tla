----------------------------- MODULE TaskRecord -----------------------------
(***************************************************************************)
(* How one task event changes one row of the "tasks" table: the pure part  *)
(* of SQLiteController.store_task_event.  No variables: TaskStore and the   *)
(* modules that contain a task table apply these operators.                *)
(***************************************************************************)
EXTENDS Integers, Absent

CONSTANTS
  TaskIds,      \* task uuids
  Nodes,        \* uuids a relation may name: tasks, groups, chords
  Values,       \* values of the columns no property looks into
  MaxTime,      \* largest timestamp
  NoRow         \* no row with that primary key

Times == 0 .. MaxTime

ASSUME RecordAssumption ==
  /\ TaskIds \subseteq Nodes
  /\ MaxTime \in Nat
  /\ None \notin Nat
  /\ None \notin Nodes
  /\ None \notin Values

-----------------------------------------------------------------------------
(* States.  Celery's event types map onto these (event_listener._TASK_STATE_MAP).
   An application's own task-* events, which would give a row a state of their own,
   are left out. *)

FinalStates == {"SUCCESS", "FAILURE", "REVOKED"}
WaitingStates == {"PENDING", "RECEIVED"}
States == FinalStates \cup WaitingStates \cup {"STARTED", "RETRY", "REJECTED"}

(* Columns that an event overwrites when it carries a value: the three link
   columns and root_id, and "info" for name, worker, args, kwargs, result,
   traceback, stamps and runtime, which the code treats alike. *)
LinkKinds == {"parent", "group", "chord"}
Columns == LinkKinds \cup {"root", "info"}

Opt(S) == S \cup {None}

ColumnValues ==
  {c \in [Columns -> Nodes \cup Values \cup {None}] :
     /\ \A k \in LinkKinds \cup {"root"} : c[k] \in Opt(Nodes)
     /\ c["info"] \in Opt(Values)}

TaskEvent ==
  [task : TaskIds, state : States, ts : Times, retries : Opt(Nat), cols : ColumnValues]

TaskRow ==
  [state : States, retries : Opt(Nat), cols : ColumnValues,
   received : Opt(Times), started : Opt(Times), finished : Opt(Times)]

ASSUME NoRowAssumption == NoRow \notin TaskRow

-----------------------------------------------------------------------------
Final(row) == row # NoRow /\ row.state \in FinalStates

(* Mutant: the final states without REVOKED. *)
ShouldPreserveStateButRevoked(existing, incoming) ==
  \/ existing \in {"SUCCESS", "FAILURE"} /\ incoming \notin FinalStates
  \/ existing = "STARTED" /\ incoming \in WaitingStates
  \/ existing = "RECEIVED" /\ incoming = "PENDING"

(* Mutant: only final states are kept. *)
ShouldPreserveStateFinalOnly(existing, incoming) ==
  existing \in FinalStates /\ incoming \notin FinalStates

ShouldPreserveState(existing, incoming) ==
  \/ existing \in FinalStates /\ incoming \notin FinalStates
  \/ existing = "STARTED" /\ incoming \in WaitingStates
  \/ existing = "RECEIVED" /\ incoming = "PENDING"

(* Mutant: the latest count wins. *)
MergeRetriesLatest(existing, incoming) ==
  IF incoming = None THEN existing ELSE incoming

MergeRetries(existing, incoming) ==
  IF incoming = None THEN existing
  ELSE IF existing = None \/ incoming >= existing THEN incoming
  ELSE existing

BlankRow ==
  [state |-> None, retries |-> None, cols |-> [c \in Columns |-> None],
   received |-> None, started |-> None, finished |-> None]

(* The row an event leaves behind: the upsert of the values computed from it. *)
TaskRowAfter(row, event) ==
  LET old == IF row = NoRow THEN BlankRow ELSE row
      retries == MergeRetries(old.retries, event.retries)
      stamp(states, kept) == IF event.state \in states THEN event.ts ELSE kept
  IN  IF row # NoRow /\ ShouldPreserveState(row.state, event.state)
      THEN [row EXCEPT !.retries = retries]
      ELSE [state    |-> event.state,
            retries  |-> retries,
            cols     |-> [c \in Columns |-> IF event.cols[c] # None
                                            THEN event.cols[c] ELSE old.cols[c]],
            received |-> stamp(WaitingStates, old.received),
            started  |-> stamp({"STARTED"}, old.started),
            finished |-> stamp(FinalStates, old.finished)]

(* coalesce(finished, started, received): the column the retention, the task
   lists and the time filters go by. *)
Age(row) ==
  IF row.finished # None THEN row.finished
  ELSE IF row.started # None THEN row.started
  ELSE row.received

-----------------------------------------------------------------------------
(* The edges dispatch._store_relations derives from an event. *)
Edge == [root : Nodes, parent : Opt(Nodes), child : Nodes,
         relation : LinkKinds]

RootOf(task, cols) == IF cols["root"] # None THEN cols["root"] ELSE task

LinkEdge(task, cols, kind) ==
  [root |-> RootOf(task, cols), parent |-> cols[kind], child |-> task, relation |-> kind]

(* Mutant: one edge per event, a parent before a group before a chord. *)
EdgesOfFirstLink(event) ==
  LET has(k) == event.cols[k] # None
  IN  {LinkEdge(event.task, event.cols, k) :
         k \in IF has("parent") THEN {"parent"}
               ELSE IF has("group") THEN {"group"}
               ELSE IF has("chord") THEN {"chord"} ELSE {}}

EdgesOf(event) ==
  {LinkEdge(event.task, event.cols, k) : k \in {l \in LinkKinds : event.cols[l] # None}}
=============================================================================

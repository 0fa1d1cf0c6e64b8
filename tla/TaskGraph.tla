----------------------------- MODULE TaskGraph -----------------------------
(***************************************************************************)
(* The graph of a task and its neighbours (views/graphs.py) and the links   *)
(* of the task detail page (views/tasks.task_detail).  A graph is read in    *)
(* several calls of the DB client, between which the handlers of TaskStore   *)
(* go on: an event's row is there before its relations, a failure may have   *)
(* lost some of them for good, and a cleanup may take rows away.             *)
(***************************************************************************)
EXTENDS TaskRecord, FiniteSets

CONSTANTS
  GraphEvents, GraphEdges,         \* the events and edges that may arrive
  GraphRetention, MaxGraphLog      \* as in TaskStore

ASSUME GraphAssumption ==
  /\ GraphEvents \subseteq TaskEvent /\ GraphEdges \subseteq Edge
  /\ IsFiniteSet(Nodes) /\ None \notin States

VARIABLES
  gTasks, gEvents, gRelations, gTodo, gLost, gNow,   \* the tables of TaskStore
  graph         \* the request or, once it is shown, the page

storeVars == <<gTasks, gEvents, gRelations, gTodo, gLost, gNow>>
graphVars == <<storeVars, graph>>

Store == INSTANCE TaskStore WITH
  tasks <- gTasks, taskEvents <- gEvents, relations <- gRelations, todo <- gTodo,
  lost <- gLost, now <- gNow, Incoming <- GraphEvents, Announced <- GraphEdges,
  Retention <- GraphRetention, MaxLog <- MaxGraphLog

NoGraph == [pc |-> "idle", task |-> None, root |-> None, tries |-> 0, edges |-> {},
            nodes |-> {}, states |-> <<>>, due |-> {}]

GraphInit ==
  /\ gTasks = [t \in TaskIds |-> NoRow]
  /\ gEvents = {} /\ gRelations = {} /\ gTodo = {} /\ gLost = {}
  /\ gNow = MaxTime     \* old events are past the retention from the start
  /\ graph = NoGraph

-----------------------------------------------------------------------------
(* Edges: from the relations stored under the root, and from the link columns
   of the tasks that name it. *)
ShownEdge(source, target, link) ==
  [source |-> source, target |-> target, kind |-> IF link = "parent" THEN "chain" ELSE link]

RelationEdges(rels, root) ==
  {ShownEdge(IF r.parent # None THEN r.parent ELSE r.root, r.child, r.relation) :
     r \in {s \in rels : s.root = root}}

TasksOfRoot(table, root) ==
  {t \in TaskIds : table[t] # NoRow /\ table[t].cols["root"] = root}

RowLinks(table, S) ==
  UNION {{ShownEdge(table[t].cols[k], t, k) : k \in {l \in LinkKinds : table[t].cols[l] # None}} :
           t \in S}

(* Mutant: the link columns are not looked at. *)
NoColumnEdges(table, S) == {}

ColumnEdges(table, S) == RowLinks(table, S)

Ends(edges) == UNION {{e.source, e.target} : e \in edges}

GraphEdgesOf(rels, table, root) ==
  RelationEdges(rels, root) \cup ColumnEdges(table, TasksOfRoot(table, root))

(* The edges a graph must show, each with the row it is due by, if any. *)
Due(rels, table, root) ==
  {[edge |-> e, by |-> None] : e \in RelationEdges(rels, root)}
    \cup {[edge |-> e, by |-> e.target] :
            e \in RowLinks(table, TasksOfRoot(table, root))}

StateOf(n) == IF n \in TaskIds /\ gTasks[n] # NoRow THEN gTasks[n].state ELSE None

-----------------------------------------------------------------------------
OpenGraph(t) ==
  /\ graph.pc \in {"idle", "shown"}
  /\ graph' = [NoGraph EXCEPT !.pc = "task", !.task = t]
  /\ UNCHANGED storeVars

(* What must be shown is what is stored when the attempt begins. *)
GetTask ==
  /\ graph.pc = "task"
  /\ LET row == gTasks[graph.task]
         root == RootOf(graph.task, row.cols)
     IN  graph' =
           IF row = NoRow THEN NoGraph
           ELSE [graph EXCEPT !.pc = "relations", !.root = root,
                              !.due = Due(gRelations, gTasks, root)]
  /\ UNCHANGED storeVars

GetTaskRelations ==
  /\ graph.pc = "relations"
  /\ LET edges == RelationEdges(gRelations, graph.root)
     IN  graph' = [graph EXCEPT !.pc = "tasks", !.edges = edges,
                                !.nodes = {graph.root} \cup Ends(edges)]
  /\ UNCHANGED storeVars

GetTasksOfRoot ==
  /\ graph.pc = "tasks"
  /\ LET found == TasksOfRoot(gTasks, graph.root)
         edges == ColumnEdges(gTasks, found)
     IN  graph' = [graph EXCEPT !.pc = "nodes", !.edges = @ \cup edges,
                                !.nodes = @ \cup found \cup Ends(edges)]
  /\ UNCHANGED storeVars

(* A graph of several nodes and no edge is tried again, four times. *)
EdgesMissing == graph.edges = {} /\ Cardinality(graph.nodes) > 1 /\ graph.tries < 4

(* The rows of the nodes; one call each, but no property compares two of them. *)
GetNodes ==
  /\ graph.pc = "nodes"
  /\ graph' =
       IF EdgesMissing THEN [NoGraph EXCEPT !.pc = "task", !.task = graph.task, !.tries = graph.tries + 1]
       ELSE [graph EXCEPT !.pc = "shown", !.states = [n \in graph.nodes |-> StateOf(n)]]
  /\ UNCHANGED storeVars

(* The handlers of TaskStore.  Bound: a page that is shown is forgotten when the
   tables go on; it was checked when it was shown.  A link that goes with its row
   is due no longer. *)
StoreStep ==
  \/ /\ \/ \E event \in GraphEvents : Store!StoreTaskEvent(event)
        \/ Store!StoreEdge \/ Store!IngestFails
        \/ \E edge \in GraphEdges : Store!StoreTaskRelation(edge)
     /\ graph' = IF graph.pc = "shown" THEN NoGraph ELSE graph
  \/ /\ Store!Cleanup
     /\ graph' = IF graph.pc = "shown" THEN NoGraph
                 ELSE [graph EXCEPT !.due = {d \in @ : d.by = None \/ gTasks'[d.by] # NoRow}]

GraphNext ==
  \/ StoreStep
  \/ \E t \in TaskIds : OpenGraph(t)
  \/ GetTask \/ GetTaskRelations \/ GetTasksOfRoot \/ GetNodes

GraphSpec == GraphInit /\ [][GraphNext]_graphVars

-----------------------------------------------------------------------------
(* The counts over the graph. *)
Bucket == [PENDING |-> "pending", RECEIVED |-> "pending", STARTED |-> "running",
           RETRY |-> "retry", SUCCESS |-> "success", FAILURE |-> "failure", REVOKED |-> "revoked"]

StateCounts(states) ==
  LET known == {n \in DOMAIN states : states[n] # None}
      having(b) == {n \in known : states[n] \in DOMAIN Bucket /\ Bucket[states[n]] = b}
  IN  [b \in {Bucket[s] : s \in DOMAIN Bucket} \cup {"total"} |->
         Cardinality(IF b = "total" THEN known ELSE having(b))]

(* The links of the detail page, which knows the stored relations only. *)
RelationsOf(t) == {r \in gRelations : r.root = RootOf(t, gTasks[t].cols)}

ChildIds(t) == {r.child : r \in {s \in RelationsOf(t) : s.parent = t /\ s.child # t}}

(* _parent_id: the row's parent, else one of the relations', else, for a task
   with children, the task itself. *)
ParentIds(t) ==
  LET rels == RelationsOf(t)
      above == {r.parent : r \in {s \in rels : s.child = t /\ s.parent # None}}
  IN  IF gTasks[t].cols["parent"] # None THEN {gTasks[t].cols["parent"]}
      ELSE IF above # {} THEN above
      ELSE {r.parent : r \in {s \in rels : s.parent = t}}

-----------------------------------------------------------------------------
GraphTypeOK ==
  /\ Store!TasksTypeOK
  /\ graph.pc \in {"idle", "task", "relations", "tasks", "nodes", "shown"}
  /\ graph.root \in Opt(Nodes) /\ graph.nodes \subseteq Nodes /\ graph.tries \in 0 .. 4

(* What Celery guarantees of the ids an event carries, and GraphShowsStored needs:
   the root and the links of a task never change, and a link never comes without
   a root. *)
LinksAreStable ==
  /\ \A e \in GraphEvents : (\E k \in LinkKinds : e.cols[k] # None) => e.cols["root"] # None
  /\ \A e, f \in GraphEvents, c \in LinkKinds \cup {"root"} :
       (e.task = f.task /\ e.cols[c] # None /\ f.cols[c] # None) => e.cols[c] = f.cols[c]

(* A graph that is shown leaves out no link that was stored when it was read,
   in the relations or in a row alone, because their transactions are not done
   or have failed; its edges join nodes it shows; its counts add up, but for the
   rejected tasks, which have none; and the detail page lists no child, and no
   parent but the task itself, that the graph does not show. *)
GraphShowsStored ==
  /\ graph.pc = "shown" =>
       /\ {d.edge : d \in graph.due} \subseteq graph.edges
       /\ Ends(graph.edges) \subseteq graph.nodes
       /\ graph.root \in graph.nodes
       /\ LET counts == StateCounts(graph.states)
          IN  counts["total"] =
                counts["pending"] + counts["running"] + counts["retry"] + counts["success"]
                  + counts["failure"] + counts["revoked"]
                  + Cardinality({n \in graph.nodes : graph.states[n] = "REJECTED"})
  /\ \A t \in {u \in TaskIds : gTasks[u] # NoRow} :
       LET edges == GraphEdgesOf(gRelations, gTasks, RootOf(t, gTasks[t].cols))
       IN  /\ \A c \in ChildIds(t) : \E e \in edges : e.source = t /\ e.target = c
           /\ \A p \in ParentIds(t) \ {t} : \E e \in edges : e.source = p /\ e.target = t
=============================================================================

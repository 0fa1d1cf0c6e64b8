----------------------------- MODULE Reconciler -----------------------------
(***************************************************************************)
(* The backfill of lost task events: the reconciler lists the tasks the     *)
(* table shows as unfinished, one query per state, takes one off the list    *)
(* per visit, asks the result backend for it, and stores a final event when *)
(* there is one.  Workers finish tasks and their events, delayed or lost,    *)
(* reach the table on their own; the table is that of TaskRecord.           *)
(***************************************************************************)
EXTENDS TaskRecord, SequencesExt

CONSTANTS
  Reports,       \* the non-final states workers report
  Outcomes,      \* the final states tasks come to
  Visits,        \* the fewest visits of the task list in the 30 s between two refreshes
  MaxRuns,       \* times a task finishes: it may be delivered again
  MaxFailures    \* bound: RPCs and backend queries of the reconciler that fail

ASSUME ReconcilerAssumption ==
  /\ Reports \subseteq States \ FinalStates /\ Outcomes \subseteq FinalStates
  /\ Visits \in Nat \ {0} /\ MaxRuns \in Nat \ {0} /\ MaxFailures \in Nat
  /\ IsFiniteSet(TaskIds)

VARIABLES
  tasks,         \* the tasks table
  result,        \* task: its state in the result backend, or None
  events,        \* final events on their way to the table
  had,           \* history: the outcomes each task has had
  runs,          \* task: how often it finished
  pc,            \* the reconciler: "idle", "fetch", "pop" or "store"
  batch,         \* states it has listed so far in this refresh
  fetched,       \* the tasks it has listed so far
  backlog,       \* _task_queue
  visits,        \* visits since the last refresh, counted up to Visits
  event,         \* the event it is about to store, or None
  failures

worldVars == <<result, events, had, runs>>
listVars == <<batch, fetched, backlog, visits>>
vars == <<tasks, worldVars, pc, listVars, event, failures>>

(* _NON_FINAL_STATES, in the order of the queries *)
NonFinalStates == <<"PENDING", "RECEIVED", "STARTED", "RETRY", "REJECTED">>

TypeOK ==
  /\ tasks \in [TaskIds -> TaskRow \cup {NoRow}]
  /\ result \in [TaskIds -> Opt(FinalStates)]
  /\ events \subseteq TaskEvent
  /\ had \in [TaskIds -> SUBSET FinalStates]
  /\ runs \in [TaskIds -> 0 .. MaxRuns]
  /\ pc \in {"idle", "fetch", "pop", "store"}
  /\ batch \in 0 .. Len(NonFinalStates)
  /\ fetched \in Seq(TaskIds) /\ backlog \in Seq(TaskIds)
  /\ visits \in 0 .. Visits
  /\ event \in Opt(TaskEvent)
  /\ failures \in 0 .. MaxFailures

Init ==
  /\ tasks = [t \in TaskIds |-> NoRow]
  /\ result = [t \in TaskIds |-> None]
  /\ events = {}
  /\ had = [t \in TaskIds |-> {}]
  /\ runs = [t \in TaskIds |-> 0]
  /\ pc = "idle"
  /\ batch = 0 /\ fetched = <<>> /\ backlog = <<>>
  /\ visits = Visits
  /\ event = None
  /\ failures = 0

EventOf(t, state) ==
  [task |-> t, state |-> state, ts |-> 0, retries |-> None, cols |-> [c \in Columns |-> None]]

-----------------------------------------------------------------------------
(* Workers, the result backend, and the event stream (outside the repository) *)

(* A task makes progress and the event arrives. *)
Progress(t, state) ==
  /\ runs[t] < MaxRuns
  /\ tasks' = [tasks EXCEPT ![t] = TaskRowAfter(@, EventOf(t, state))]
  /\ UNCHANGED <<worldVars, pc, listVars, event, failures>>

Finish(t, state) ==
  /\ runs[t] < MaxRuns
  /\ runs' = [runs EXCEPT ![t] = @ + 1]
  /\ result' = [result EXCEPT ![t] = state]
  /\ had' = [had EXCEPT ![t] = @ \cup {state}]
  /\ events' = events \cup {EventOf(t, state)}
  /\ UNCHANGED <<tasks, pc, listVars, event, failures>>

Deliver(e) ==
  /\ events' = events \ {e}
  /\ tasks' = [tasks EXCEPT ![e.task] = TaskRowAfter(@, e)]
  /\ UNCHANGED <<result, had, runs, pc, listVars, event, failures>>

Lose(e) ==
  /\ events' = events \ {e}
  /\ UNCHANGED <<tasks, result, had, runs, pc, listVars, event, failures>>

-----------------------------------------------------------------------------
(* The reconciler *)

Fail ==
  /\ failures < MaxFailures
  /\ failures' = failures + 1

(* _reconcile_task_states: the list is refreshed when it is old or empty; how
   many visits fit into the time before it is old is up to the RPCs between. *)
Visit ==
  /\ pc = "idle"
  /\ \/ /\ visits = Visits \/ backlog = <<>>
        /\ pc' = "fetch" /\ batch' = 0 /\ fetched' = <<>>
     \/ /\ backlog # <<>>
        /\ pc' = "pop" /\ UNCHANGED <<batch, fetched>>
  /\ UNCHANGED <<tasks, worldVars, backlog, visits, event, failures>>

OneVisitMore == IF visits < Visits THEN visits + 1 ELSE visits

(* _refresh_tasks, one query; a task that changes state between two queries is
   found twice or not at all.  A failed query is skipped. *)
Fetch ==
  /\ pc = "fetch" /\ batch < Len(NonFinalStates)
  /\ batch' = batch + 1
  /\ LET found == {t \in TaskIds : tasks[t] # NoRow /\ tasks[t].state = NonFinalStates[batch + 1]}
     IN  \/ /\ \E new \in SetToSeqs(found \ ToSet(fetched)) : fetched' = fetched \o new
            /\ UNCHANGED failures
         \/ Fail /\ UNCHANGED fetched
  /\ UNCHANGED <<tasks, worldVars, pc, backlog, visits, event>>

EndRefresh ==
  /\ pc = "fetch" /\ batch = Len(NonFinalStates)
  /\ pc' = IF fetched = <<>> THEN "idle" ELSE "pop"
  /\ backlog' = fetched
  /\ visits' = 0
  /\ batch' = 0 /\ fetched' = <<>>
  /\ UNCHANGED <<tasks, worldVars, event, failures>>

(* Mutant: a task the backend does not know counts as done. *)
FinalMetaOrSuccess(t) == IF result[t] = None THEN "SUCCESS" ELSE result[t]

(* _find_final_meta *)
FinalMeta(t) == result[t]

(* Mutant: a task without an outcome stays at the head of the list. *)
PopWhenDone ==
  /\ pc = "pop"
  /\ visits' = OneVisitMore
  /\ LET t == Head(backlog)
     IN  \/ /\ event' = IF FinalMeta(t) = None THEN None ELSE EventOf(t, FinalMeta(t))
            /\ UNCHANGED failures
         \/ Fail /\ event' = None
  /\ backlog' = IF event' = None THEN backlog ELSE Tail(backlog)
  /\ pc' = IF event' = None THEN "idle" ELSE "store"
  /\ UNCHANGED <<tasks, worldVars, batch, fetched>>

(* The head of the list is looked up; it is off the list whatever comes of it. *)
Pop ==
  /\ pc = "pop"
  /\ backlog' = Tail(backlog)
  /\ visits' = OneVisitMore
  /\ LET t == Head(backlog)
     IN  \/ /\ event' = IF FinalMeta(t) = None THEN None ELSE EventOf(t, FinalMeta(t))
            /\ UNCHANGED failures
         \/ Fail /\ event' = None
  /\ pc' = IF event' = None THEN "idle" ELSE "store"
  /\ UNCHANGED <<tasks, worldVars, batch, fetched>>

(* store_task_event: applied, or failed and logged; by then the row may have
   been finished by its event, or the task may have finished again. *)
Store ==
  /\ pc = "store"
  /\ \/ /\ tasks' = [tasks EXCEPT ![event.task] = TaskRowAfter(@, event)]
        /\ UNCHANGED failures
     \/ Fail /\ UNCHANGED tasks
  /\ pc' = "idle"
  /\ event' = None
  /\ UNCHANGED <<worldVars, listVars>>

Reconcile == Visit \/ Fetch \/ EndRefresh \/ Pop \/ Store

Next ==
  \/ \E t \in TaskIds, state \in Reports : Progress(t, state)
  \/ \E t \in TaskIds, state \in Outcomes : Finish(t, state)
  \/ \E e \in events : Deliver(e) \/ Lose(e)
  \/ Reconcile

(* Only the reconciler's loop is sure to go on: every event may be lost. *)
Spec == Init /\ [][Next]_vars
FairSpec == Spec /\ WF_vars(Reconcile)

-----------------------------------------------------------------------------
(* Properties *)

(* A task is never shown with an outcome it has not had: events and backfills,
   however late and in whichever order they are applied, tell no lie. *)
OutcomesHappened ==
  \A t \in TaskIds : Final(tasks[t]) => tasks[t].state \in had[t]

(* A task that the table knows and that has finished for the last time is shown
   as finished in the end, even when all its events are lost: the "task
   completion backfill" the class promises. *)
Settled(t) == tasks[t] # NoRow /\ runs[t] = MaxRuns

EveryTaskBackfilled == \A t \in TaskIds : Settled(t) ~> Final(tasks[t])

(* ... which is sure once the listed tasks that the backend has no outcome of,
   those still at work or forgotten, are fewer than the visits between two
   refreshes: the list is cut off by every refresh (reconciler.py:418-451), but
   then each round of visits reaches a task that has an outcome. *)
Waiting == {t \in TaskIds : tasks[t] # NoRow /\ ~ Final(tasks[t]) /\ result[t] = None}

Backfilled == <>[](Cardinality(Waiting) < Visits) => EveryTaskBackfilled
=============================================================================

-------------------------- MODULE ReconcilerProofs --------------------------
(***************************************************************************)
(* Proofs about the reconciler: its backfill of task events (Reconciler),    *)
(* for any finite set of tasks, any states workers report, any length of the *)
(* refresh interval and any number of runs and failures; and its snapshots   *)
(* beside the events of the workers themselves (WorkerFleet), for any set of *)
(* workers, any delay and any threshold.                                     *)
(***************************************************************************)
EXTENDS Reconciler, WorkerFleet, FiniteSetTheorems, TLAPS

(* Where the reconciler is in its loop: it looks a task up only when the list
   has one, and stores only what it has found. *)
LoopSound ==
  /\ pc = "pop" => backlog # <<>>
  /\ pc = "store" => event # None

(* Whatever may still come to the table speaks of an outcome the task has had:
   events on their way, results in the backend, the event about to be stored. *)
NewsHappened ==
  /\ \A e \in events : e.state \in had[e.task]
  /\ \A t \in TaskIds : result[t] # None => result[t] \in had[t]
  /\ event # None => event.state \in had[event.task]

Inv == TypeOK /\ LoopSound /\ NewsHappened /\ OutcomesHappened

-----------------------------------------------------------------------------
(* Lemmas about the rows. *)

LEMMA MergedRetriesTyped ==
  ASSUME NEW old \in Opt(Nat), NEW new \in Opt(Nat)
  PROVE  MergeRetries(old, new) \in Opt(Nat)
  BY DEF MergeRetries, Opt

(* An event leaves a well-formed row behind, whose state is the event's or the
   one the row had. *)
LEMMA RowAfter ==
  ASSUME NEW row \in TaskRow \cup {NoRow}, NEW e \in TaskEvent
  PROVE  /\ TaskRowAfter(row, e) \in TaskRow
         /\ \/ TaskRowAfter(row, e).state = e.state
            \/ row # NoRow /\ TaskRowAfter(row, e).state = row.state
<1> DEFINE old == IF row = NoRow THEN BlankRow ELSE row
           retries == MergeRetries(old.retries, e.retries)
           cols == [c \in Columns |-> IF e.cols[c] # None THEN e.cols[c] ELSE old.cols[c]]
           stamp(states, kept) == IF e.state \in states THEN e.ts ELSE kept
           next == [state |-> e.state, retries |-> retries, cols |-> cols,
                    received |-> stamp(WaitingStates, old.received),
                    started |-> stamp({"STARTED"}, old.started),
                    finished |-> stamp(FinalStates, old.finished)]
<1>1. e.state \in States /\ e.ts \in Times /\ e.retries \in Opt(Nat) /\ e.cols \in ColumnValues
  BY DEF TaskEvent
<1>2. /\ old.retries \in Opt(Nat) /\ old.cols \in ColumnValues
      /\ old.received \in Opt(Times) /\ old.started \in Opt(Times) /\ old.finished \in Opt(Times)
  <2>1. BlankRow.cols \in ColumnValues
    BY DEF BlankRow, ColumnValues, Columns, LinkKinds, Opt
  <2>2. CASE row = NoRow
    BY <2>1, <2>2 DEF BlankRow, Opt
  <2>3. CASE row # NoRow
    BY <2>3 DEF TaskRow
  <2> QED BY <2>2, <2>3
<1>3. retries \in Opt(Nat)
  BY <1>1, <1>2, MergedRetriesTyped
<1>4. TaskRowAfter(row, e) = IF row # NoRow /\ ShouldPreserveState(row.state, e.state)
                             THEN [row EXCEPT !.retries = retries] ELSE next
  BY DEF TaskRowAfter
<1>5. CASE row # NoRow /\ ShouldPreserveState(row.state, e.state)
  <2>1. row \in TaskRow
    BY <1>5
  <2> HIDE DEF retries
  <2> QED BY <1>3, <1>4, <1>5, <2>1 DEF TaskRow
<1>6. CASE ~ (row # NoRow /\ ShouldPreserveState(row.state, e.state))
  <2>1. cols \in ColumnValues
    BY <1>1, <1>2 DEF ColumnValues, Columns, LinkKinds
  <2>2. \A states : \A kept \in Opt(Times) : stamp(states, kept) \in Opt(Times)
    BY <1>1 DEF Opt
  <2> HIDE DEF old, retries, cols, stamp
  <2>3. next \in TaskRow
    BY <1>1, <1>2, <1>3, <2>1, <2>2 DEF TaskRow
  <2> QED BY <1>4, <1>6, <2>3
<1> QED BY <1>5, <1>6

LEMMA EventTyped ==
  ASSUME NEW t \in TaskIds, NEW state \in States
  PROVE  /\ EventOf(t, state) \in TaskEvent
         /\ EventOf(t, state).task = t /\ EventOf(t, state).state = state
<1>1. [c \in Columns |-> None] \in ColumnValues
  BY DEF ColumnValues, Columns, LinkKinds, Opt
<1>2. 0 \in Times
  BY RecordAssumption DEF Times
<1> QED BY <1>1, <1>2 DEF EventOf, TaskEvent, Opt

(* The rows an event leaves in the table: typed, and none with an outcome its
   task has not had, provided the event's state is not one either. *)
LEMMA TableAfter ==
  ASSUME TypeOK, OutcomesHappened,
         NEW e \in TaskEvent, e.state \in FinalStates => e.state \in had[e.task],
         tasks' = [tasks EXCEPT ![e.task] = TaskRowAfter(@, e)]
  PROVE  /\ tasks' \in [TaskIds -> TaskRow \cup {NoRow}]
         /\ \A t \in TaskIds : Final(tasks'[t]) => tasks'[t].state \in had[t]
<1>1. e.task \in TaskIds /\ tasks \in [TaskIds -> TaskRow \cup {NoRow}]
  BY DEF TaskEvent, TypeOK
<1> DEFINE row == TaskRowAfter(tasks[e.task], e)
<1>2. /\ row \in TaskRow
      /\ row.state = e.state \/ (tasks[e.task] # NoRow /\ row.state = tasks[e.task].state)
  BY <1>1, RowAfter
<1>3. /\ tasks' \in [TaskIds -> TaskRow \cup {NoRow}]
      /\ tasks'[e.task] = row /\ \A t \in TaskIds \ {e.task} : tasks'[t] = tasks[t]
  BY <1>1, <1>2
<1> HIDE DEF row
<1> QED BY <1>1, <1>2, <1>3 DEF OutcomesHappened, Final

(* What a query returns, in any order, is a sequence of tasks. *)
LEMMA ListedTyped ==
  ASSUME NEW S \in SUBSET TaskIds, NEW new \in SetToSeqs(S)
  PROVE  new \in Seq(TaskIds)
<1>1. IsFiniteSet(S)
  BY ReconcilerAssumption, FS_Subset
<1>2. Cardinality(S) \in Nat
  BY <1>1, FS_CardinalityType
<1>3. new \in [1 .. Cardinality(S) -> TaskIds]
  BY DEF SetToSeqs
<1> QED BY <1>2, <1>3

-----------------------------------------------------------------------------
LEMMA InitInv == Init => Inv
  BY ReconcilerAssumption
  DEF Init, Inv, TypeOK, LoopSound, NewsHappened, OutcomesHappened, Final, Opt, NonFinalStates

LEMMA StatesReported ==
  /\ \A s \in Reports : s \in States /\ s \notin FinalStates
  /\ \A s \in Outcomes : s \in States /\ s \in FinalStates
  BY ReconcilerAssumption DEF States

LEMMA ProgressInv ==
  ASSUME Inv, NEW t \in TaskIds, NEW state \in Reports, Progress(t, state)
  PROVE  Inv'
<1> DEFINE e == EventOf(t, state)
<1>1. e \in TaskEvent /\ e.task = t /\ e.state \notin FinalStates
  BY StatesReported, EventTyped
<1> HIDE DEF e
<1>2. tasks' = [tasks EXCEPT ![e.task] = TaskRowAfter(@, e)]
  BY <1>1 DEF Progress, e
<1>3. /\ tasks' \in [TaskIds -> TaskRow \cup {NoRow}]
      /\ \A u \in TaskIds : Final(tasks'[u]) => tasks'[u].state \in had[u]
  BY <1>1, <1>2, TableAfter DEF Inv
<1>4. UNCHANGED <<result, events, had, runs, pc, batch, fetched, backlog, visits, event, failures>>
  BY DEF Progress, worldVars, listVars
<1> QED BY <1>3, <1>4 DEF Inv, TypeOK, LoopSound, NewsHappened, OutcomesHappened

LEMMA FinishInv ==
  ASSUME Inv, NEW t \in TaskIds, NEW state \in Outcomes, Finish(t, state)
  PROVE  Inv'
<1> DEFINE e == EventOf(t, state)
<1>1. state \in FinalStates /\ e \in TaskEvent /\ e.task = t /\ e.state = state
  BY StatesReported, EventTyped
<1> HIDE DEF e
<1>2. /\ events' = events \cup {e}
      /\ result' = [result EXCEPT ![t] = state]
      /\ had' = [had EXCEPT ![t] = @ \cup {state}]
      /\ runs[t] < MaxRuns /\ runs' = [runs EXCEPT ![t] = @ + 1]
      /\ UNCHANGED <<tasks, pc, batch, fetched, backlog, visits, event, failures>>
  BY DEF Finish, e, listVars
<1>3. TypeOK'
  <2>1. events' \subseteq TaskEvent /\ result' \in [TaskIds -> Opt(FinalStates)]
        /\ had' \in [TaskIds -> SUBSET FinalStates]
    BY <1>1, <1>2 DEF Inv, TypeOK, Opt
  <2>2. runs' \in [TaskIds -> 0 .. MaxRuns]
    BY <1>2, ReconcilerAssumption DEF Inv, TypeOK
  <2> QED BY <1>2, <2>1, <2>2 DEF Inv, TypeOK
<1>4. /\ \A u \in TaskIds : had[u] \subseteq had'[u]
      /\ state \in had'[t]
  BY <1>2 DEF Inv, TypeOK
<1>5. NewsHappened'
  <2>1. \A f \in events' : f.state \in had'[f.task]
    BY <1>1, <1>2, <1>4 DEF Inv, TypeOK, NewsHappened, TaskEvent
  <2>2. \A u \in TaskIds : result'[u] # None => result'[u] \in had'[u]
    BY <1>2, <1>4 DEF Inv, TypeOK, NewsHappened
  <2>3. event' # None => event'.state \in had'[event'.task]
    BY <1>2, <1>4 DEF Inv, TypeOK, NewsHappened, TaskEvent, Opt
  <2> QED BY <2>1, <2>2, <2>3 DEF NewsHappened
<1>6. LoopSound' /\ OutcomesHappened'
  BY <1>2, <1>4 DEF Inv, LoopSound, OutcomesHappened
<1> QED BY <1>3, <1>5, <1>6 DEF Inv

LEMMA DeliverInv ==
  ASSUME Inv, NEW e \in events, Deliver(e) \/ Lose(e)
  PROVE  Inv'
<1>1. e \in TaskEvent /\ e.state \in had[e.task]
  BY DEF Inv, TypeOK, NewsHappened
<1>2. events' \subseteq events
      /\ UNCHANGED <<result, had, runs, pc, batch, fetched, backlog, visits, event, failures>>
  BY DEF Deliver, Lose, listVars
<1>3. tasks' = [tasks EXCEPT ![e.task] = TaskRowAfter(@, e)] \/ UNCHANGED tasks
  BY DEF Deliver, Lose
<1>4. /\ tasks' \in [TaskIds -> TaskRow \cup {NoRow}]
      /\ \A u \in TaskIds : Final(tasks'[u]) => tasks'[u].state \in had[u]
  <2>1. CASE tasks' = [tasks EXCEPT ![e.task] = TaskRowAfter(@, e)]
    BY <1>1, <2>1, TableAfter DEF Inv
  <2>2. CASE UNCHANGED tasks
    BY <2>2 DEF Inv, TypeOK, OutcomesHappened
  <2> QED BY <1>3, <2>1, <2>2
<1>5. TypeOK'
  BY <1>2, <1>4 DEF Inv, TypeOK
<1>6. NewsHappened' /\ LoopSound' /\ OutcomesHappened'
  BY <1>2, <1>4 DEF Inv, LoopSound, NewsHappened, OutcomesHappened
<1> QED BY <1>5, <1>6 DEF Inv

LEMMA VisitInv == Inv /\ Visit => Inv'
<1> SUFFICES ASSUME Inv, Visit PROVE Inv'
  OBVIOUS
<1>1. UNCHANGED <<tasks, result, events, had, runs, backlog, visits, event, failures>>
  BY DEF Visit, worldVars
<1>2. /\ pc' \in {"fetch", "pop"} /\ fetched' \in Seq(TaskIds)
      /\ batch' = batch \/ batch' = 0
      /\ pc' = "pop" => backlog # <<>>
  <2>1. CASE pc' = "fetch" /\ batch' = 0 /\ fetched' = <<>>
    BY <2>1
  <2>2. CASE backlog # <<>> /\ pc' = "pop" /\ UNCHANGED <<batch, fetched>>
    BY <2>2 DEF Inv, TypeOK
  <2> QED BY <2>1, <2>2 DEF Visit
<1>3. batch' \in 0 .. Len(NonFinalStates)
  BY <1>2 DEF Inv, TypeOK, NonFinalStates
<1>4. TypeOK'
  BY <1>1, <1>2, <1>3 DEF Inv, TypeOK
<1>5. LoopSound'
  BY <1>1, <1>2, ReconcilerAssumption DEF Inv, TypeOK, LoopSound
<1> QED BY <1>1, <1>4, <1>5 DEF Inv, NewsHappened, OutcomesHappened

LEMMA FailTyped ==
  ASSUME TypeOK, Fail \/ UNCHANGED failures
  PROVE  failures' \in 0 .. MaxFailures
  BY ReconcilerAssumption DEF TypeOK, Fail

LEMMA FetchInv == Inv /\ Fetch => Inv'
<1> SUFFICES ASSUME Inv, Fetch PROVE Inv'
  OBVIOUS
<1>1. UNCHANGED <<tasks, result, events, had, runs, pc, backlog, visits, event>>
  BY DEF Fetch, worldVars
<1>2. batch' \in 0 .. Len(NonFinalStates) /\ pc = "fetch"
  BY DEF Fetch, Inv, TypeOK, NonFinalStates
<1>3. failures' \in 0 .. MaxFailures
  BY FailTyped DEF Fetch, Inv
<1>4. fetched' \in Seq(TaskIds)
  <2> DEFINE found == {t \in TaskIds : tasks[t] # NoRow
                                       /\ tasks[t].state = NonFinalStates[batch + 1]}
             missing == found \ ToSet(fetched)
  <2>1. missing \in SUBSET TaskIds
    OBVIOUS
  <2>2. UNCHANGED fetched \/ \E new \in SetToSeqs(missing) : fetched' = fetched \o new
    BY DEF Fetch
  <2> HIDE DEF missing
  <2>3. CASE \E new \in SetToSeqs(missing) : fetched' = fetched \o new
    <3>1. PICK new \in SetToSeqs(missing) : fetched' = fetched \o new
      BY <2>3
    <3>2. new \in Seq(TaskIds)
      BY <2>1, <3>1, ListedTyped
    <3> QED BY <3>1, <3>2 DEF Inv, TypeOK
  <2> QED BY <2>2, <2>3 DEF Inv, TypeOK
<1>5. TypeOK'
  BY <1>1, <1>2, <1>3, <1>4 DEF Inv, TypeOK
<1> QED BY <1>1, <1>2, <1>5 DEF Inv, LoopSound, NewsHappened, OutcomesHappened

LEMMA EndRefreshInv == Inv /\ EndRefresh => Inv'
<1> SUFFICES ASSUME Inv, EndRefresh PROVE Inv'
  OBVIOUS
<1>1. UNCHANGED <<tasks, result, events, had, runs, event, failures>>
  BY DEF EndRefresh, worldVars
<1>2. /\ pc' \in {"idle", "pop"} /\ batch' \in 0 .. Len(NonFinalStates)
      /\ fetched' \in Seq(TaskIds) /\ backlog' \in Seq(TaskIds)
      /\ visits' = 0 /\ (pc' = "pop" => backlog' # <<>>)
  BY DEF EndRefresh, Inv, TypeOK, NonFinalStates
<1>3. 0 \in 0 .. Visits /\ 0 < Visits
  BY ReconcilerAssumption
<1>4. TypeOK'
  BY <1>1, <1>2, <1>3 DEF Inv, TypeOK
<1> QED BY <1>1, <1>2, <1>3, <1>4 DEF Inv, LoopSound, NewsHappened, OutcomesHappened

(* What the backend knows of a task is an outcome it has had. *)
LEMMA PopInv == Inv /\ Pop => Inv'
<1> SUFFICES ASSUME Inv, Pop PROVE Inv'
  OBVIOUS
<1> DEFINE t == Head(backlog)
<1>1. UNCHANGED <<tasks, result, events, had, runs, batch, fetched>>
  BY DEF Pop, worldVars
<1>2. /\ backlog # <<>> /\ backlog \in Seq(TaskIds) /\ t \in TaskIds
      /\ backlog' \in Seq(TaskIds)
  BY DEF Pop, Inv, LoopSound, TypeOK
<1>3. visits' \in 0 .. Visits
  BY ReconcilerAssumption DEF Pop, OneVisitMore, Inv, TypeOK
<1>4. failures' \in 0 .. MaxFailures
  BY FailTyped DEF Pop, Inv
<1>5. /\ pc' \in {"idle", "store"} /\ (pc' = "store" => event' # None)
      /\ event' = None \/ (result[t] # None /\ event' = EventOf(t, result[t]))
  BY DEF Pop, FinalMeta
<1> HIDE DEF t
<1>6. /\ event' \in Opt(TaskEvent)
      /\ event' # None => event'.state \in had[event'.task]
  <2>1. CASE event' = None
    BY <2>1 DEF Opt
  <2>2. CASE result[t] # None /\ event' = EventOf(t, result[t])
    <3>1. result[t] \in States /\ result[t] \in had[t]
      BY <1>2, <2>2 DEF Inv, TypeOK, NewsHappened, States, Opt
    <3> QED BY <1>2, <2>2, <3>1, EventTyped DEF Opt
  <2> QED BY <1>5, <2>1, <2>2
<1>7. TypeOK'
  BY <1>1, <1>2, <1>3, <1>4, <1>5, <1>6 DEF Inv, TypeOK
<1> QED BY <1>1, <1>5, <1>6, <1>7 DEF Inv, LoopSound, NewsHappened, OutcomesHappened

LEMMA StoreInv == Inv /\ Store => Inv'
<1> SUFFICES ASSUME Inv, Store PROVE Inv'
  OBVIOUS
<1>1. /\ UNCHANGED <<result, events, had, runs, batch, fetched, backlog, visits>>
      /\ pc' = "idle" /\ event' = None
  BY DEF Store, worldVars, listVars
<1>2. event \in TaskEvent /\ event.state \in had[event.task]
  BY DEF Store, Inv, TypeOK, LoopSound, NewsHappened, Opt
<1>3. failures' \in 0 .. MaxFailures
  BY FailTyped DEF Store, Inv
<1>4. /\ tasks' \in [TaskIds -> TaskRow \cup {NoRow}]
      /\ \A u \in TaskIds : Final(tasks'[u]) => tasks'[u].state \in had[u]
  <2>1. CASE tasks' = [tasks EXCEPT ![event.task] = TaskRowAfter(@, event)]
    BY <1>2, <2>1, TableAfter DEF Inv
  <2>2. CASE UNCHANGED tasks
    BY <2>2 DEF Inv, TypeOK, OutcomesHappened
  <2> QED BY <2>1, <2>2 DEF Store
<1>5. TypeOK'
  BY <1>1, <1>3, <1>4 DEF Inv, TypeOK, Opt
<1> QED BY <1>1, <1>4, <1>5 DEF Inv, LoopSound, NewsHappened, OutcomesHappened

LEMMA InvHolds == Spec => []Inv
<1>1. Inv /\ [Next]_vars => Inv'
  <2> SUFFICES ASSUME Inv, [Next]_vars PROVE Inv'
    OBVIOUS
  <2>1. CASE UNCHANGED vars
    BY <2>1 DEF vars, worldVars, listVars, Inv, TypeOK, LoopSound, NewsHappened, OutcomesHappened
  <2>2. ASSUME NEW t \in TaskIds, NEW state \in Reports, Progress(t, state) PROVE Inv'
    BY <2>2, ProgressInv
  <2>3. ASSUME NEW t \in TaskIds, NEW state \in Outcomes, Finish(t, state) PROVE Inv'
    BY <2>3, FinishInv
  <2>4. ASSUME NEW e \in events, Deliver(e) \/ Lose(e) PROVE Inv'
    BY <2>4, DeliverInv
  <2>5. CASE Reconcile
    BY <2>5, VisitInv, FetchInv, EndRefreshInv, PopInv, StoreInv DEF Reconcile
  <2> QED BY <2>1, <2>2, <2>3, <2>4, <2>5 DEF Next
<1> QED BY <1>1, InitInv, PTL DEF Spec

(* The reconciler's variables keep their types: in particular it never looks up
   the head of an empty list and never stores an event it has not found. *)
THEOREM TypeCorrect == Spec => []TypeOK
  BY InvHolds, PTL DEF Inv

(* Events and backfills, in any order and however late, show no task with an
   outcome it has not had. *)
THEOREM OutcomesAreReal == Spec => []OutcomesHappened
  BY InvHolds, PTL DEF Inv

-----------------------------------------------------------------------------
(* The worker fleet. *)

(* No trace of a worker is more recent than its last sign of life plus the
   longest delay, whether it waits in the broker, is on its way to the database,
   or is the heartbeat of its row. *)
Traces ==
  /\ \A h \in Hosts : lastAlive[h] <= now /\ (alive[h] => lastAlive[h] = now)
  /\ \A i \in 1 .. Len(queue) :
       queue[i].sent <= lastAlive[queue[i].host] /\ now <= queue[i].sent + MaxDelay
  /\ inspected # None =>
       inspected.sent <= lastAlive[inspected.host] /\ now <= inspected.sent + MaxDelay
  /\ \A e \in pending : e.ts <= lastAlive[e.host] + MaxDelay
  /\ \A h \in Tables!Listed :
       workers[h].lastHeartbeat # None => workers[h].lastHeartbeat <= lastAlive[h] + MaxDelay

FleetInv == FleetTypeOK /\ Traces /\ HeartbeatIsLogged

LEMMA FleetInitInv == FleetInit => FleetInv
  BY FleetAssumption, SMT
  DEF FleetInit, FleetInv, FleetTypeOK, Traces, HeartbeatIsLogged, Tables!Init, Tables!TypeOK, Tables!Listed,
      Clock, Tables!Times

(* A worker event leaves a well-formed row behind (_worker_from_event). *)
LEMMA RowTyped ==
  ASSUME NEW row \in Tables!WorkerRow \cup {NoWorker}, NEW e \in Tables!WorkerEvent
  PROVE  Tables!WorkerRowAfter(row, e) \in Tables!WorkerRow
  BY FleetAssumption, SMT
  DEF Tables!WorkerRowAfter, Tables!WorkerRow, Tables!WorkerEvent, Tables!Opt, Tables!Times

LEMMA FleetTypeStep ==
  ASSUME FleetTypeOK, [FleetNext]_fleetVars
  PROVE  FleetTypeOK'
<1> USE FleetAssumption DEF FleetTypeOK, Tables!TypeOK
<1>1. ASSUME NEW h \in Hosts, Start(h) \/ Beat(h) \/ Shutdown(h) PROVE FleetTypeOK'
  <2>1. ASSUME NEW kind \in {"worker-online", "worker-heartbeat", "worker-offline"},
               NEW n \in Loads \cup {None}, Emit(h, kind, n)
        PROVE  queue' \in Seq(Sent)
    BY <2>1 DEF Emit, Sent
  <2>2. queue' \in Seq(Sent)
    BY <1>1, <2>1 DEF Start, Beat, Shutdown
  <2>3. UNCHANGED <<storeVars, inspected, pending, now>>
    BY <1>1 DEF Start, Beat, Shutdown
  <2>4. alive' \in [Hosts -> BOOLEAN] /\ lastAlive' \in [Hosts -> Clock]
    BY <1>1 DEF Start, Beat, Shutdown
  <2> QED BY <2>2, <2>3, <2>4 DEF storeVars
<1>2. ASSUME NEW h \in Hosts, Die(h) PROVE FleetTypeOK'
  BY <1>2 DEF Die, storeVars
<1>3. CASE Receive
  <2>1. Head(queue) \in Sent /\ Tail(queue) \in Seq(Sent)
    BY <1>3 DEF Receive
  <2>2. [host |-> Head(queue).host, kind |-> Head(queue).kind, ts |-> now,
         active |-> Head(queue).active, size |-> None] \in Tables!WorkerEvent
    BY <2>1 DEF Sent, Tables!WorkerEvent, Tables!Kinds, Tables!Times, Clock, Tables!Opt
  <2> QED BY <1>3, <2>1, <2>2 DEF Receive, storeVars
<1>4. ASSUME NEW h \in Hosts, Inspect(h) PROVE FleetTypeOK'
  BY <1>4 DEF Inspect, Inspection, storeVars
<1>5. CASE StoreSnapshot
  <2>1. inspected \in Inspection
    BY <1>5 DEF StoreSnapshot
  <2>2. [host |-> inspected.host, kind |-> "worker-snapshot", ts |-> now,
         active |-> inspected.active, size |-> inspected.size] \in Tables!WorkerEvent
    BY <2>1 DEF Inspection, Tables!WorkerEvent, Tables!Kinds, Tables!Times, Clock, Tables!Opt
  <2> QED BY <1>5, <2>2 DEF StoreSnapshot, storeVars
<1>6. ASSUME NEW e \in pending, Apply(e) PROVE FleetTypeOK'
  <2>1. e \in Tables!WorkerEvent /\ e.host \in Hosts /\ e.ts \in Tables!Times
    BY DEF Tables!WorkerEvent
  <2>2. Tables!WorkerRowAfter(workers[e.host], e) \in Tables!WorkerRow
    BY <2>1, RowTyped
  <2> QED BY <1>6, <2>1, <2>2 DEF Apply, Tables!StoreWorkerEvent
<1>7. ASSUME NEW e \in pending, LoseWrite(e) PROVE FleetTypeOK'
  BY <1>7 DEF LoseWrite, storeVars
<1>8. CASE Cleanup
  BY <1>8 DEF Cleanup, Tables!Cleanup, sceneVars
<1>9. CASE Tick
  BY <1>9 DEF Tick, Clock, storeVars
<1>10. CASE UNCHANGED fleetVars
  BY <1>10 DEF fleetVars, storeVars, sceneVars
<1> QED BY <1>1, <1>2, <1>3, <1>4, <1>5, <1>6, <1>7, <1>8, <1>9, <1>10 DEF FleetNext

LEMMA TracesStep ==
  ASSUME FleetInv, FleetTypeOK', [FleetNext]_fleetVars
  PROVE  Traces'
<1> USE FleetAssumption DEF FleetInv
<1>0. /\ now \in Nat /\ MaxDelay \in Nat
      /\ \A h \in Hosts : lastAlive[h] \in Nat /\ lastAlive[h] <= now
  BY DEF FleetTypeOK, Traces, Clock
<1>1. ASSUME NEW h \in Hosts, NEW kind, NEW n, Emit(h, kind, n), alive'[h] \/ alive[h],
             alive[h] \/ lastAlive' = [lastAlive EXCEPT ![h] = now],
             alive[h] => lastAlive' = lastAlive,
             \A g \in Hosts : g # h => alive'[g] = alive[g],
             UNCHANGED <<storeVars, inspected, pending, now>>
      PROVE  Traces'
  <2>1. \A g \in Hosts : lastAlive[g] <= lastAlive'[g] /\ lastAlive'[g] <= now /\ lastAlive'[g] \in Nat
    BY <1>0, <1>1 DEF FleetTypeOK
  <2>2. lastAlive'[h] = now /\ (\A g \in Hosts : g # h => lastAlive'[g] = lastAlive[g])
    BY <1>1 DEF FleetTypeOK, Traces
  <2>3. \A i \in 1 .. Len(queue') :
          queue'[i].sent <= lastAlive'[queue'[i].host] /\ now <= queue'[i].sent + MaxDelay
    <3> DEFINE e == [host |-> h, kind |-> kind, active |-> n, sent |-> now]
    <3> TAKE i \in 1 .. Len(queue')
    <3>1. queue' = Append(queue, e) /\ queue \in Seq(Sent)
      BY <1>1 DEF Emit, FleetTypeOK
    <3>2. CASE i \in 1 .. Len(queue)
      <4>1. queue'[i] = queue[i] /\ queue[i] \in Sent
        BY <3>1, <3>2
      <4>2. queue[i].sent \in Nat /\ queue[i].host \in Hosts
        BY <4>1 DEF Sent, Clock
      <4> QED BY <1>0, <2>1, <3>2, <4>1, <4>2 DEF Traces
    <3>3. CASE i = Len(queue) + 1
      BY <1>0, <2>2, <3>1, <3>3
    <3> QED BY <3>1, <3>2, <3>3
  <2>4. inspected # None => inspected.host \in Hosts /\ inspected.sent \in Nat
    BY DEF FleetTypeOK, Inspection, Clock
  <2>5. \A e \in pending : e.host \in Hosts /\ e.ts \in Nat
    BY DEF FleetTypeOK, Tables!WorkerEvent, Tables!Times
  <2>6. \A g \in Tables!Listed : workers[g].lastHeartbeat # None => workers[g].lastHeartbeat \in Nat
    BY DEF FleetTypeOK, Tables!TypeOK, Tables!Listed, Tables!WorkerRow, Tables!Opt, Tables!Times
  <2>7. /\ inspected' = inspected /\ pending' = pending /\ workers' = workers /\ now' = now
        /\ Tables!Listed' = Tables!Listed
    BY <1>1 DEF storeVars, Tables!Listed
  <2>8. \A g \in Hosts : lastAlive'[g] <= now' /\ (alive'[g] => lastAlive'[g] = now')
    BY <1>0, <1>1, <2>1, <2>2, <2>7 DEF Traces
  <2>9. inspected' # None =>
          inspected'.sent <= lastAlive'[inspected'.host] /\ now' <= inspected'.sent + MaxDelay
    BY <1>0, <2>1, <2>4, <2>7 DEF Traces
  <2>10. \A e \in pending' : e.ts <= lastAlive'[e.host] + MaxDelay
    BY <1>0, <2>1, <2>5, <2>7 DEF Traces
  <2>11. \A g \in Tables!Listed' :
           workers'[g].lastHeartbeat # None =>
             workers'[g].lastHeartbeat <= lastAlive'[g] + MaxDelay
    <3>1. \A g \in Tables!Listed : g \in Hosts
      BY DEF Tables!Listed
    <3> QED BY <1>0, <2>1, <2>6, <2>7, <3>1 DEF Traces
  <2> QED BY <2>3, <2>7, <2>8, <2>9, <2>10, <2>11 DEF Traces
<1>2. ASSUME NEW h \in Hosts, Start(h) PROVE Traces'
  BY <1>1, <1>2 DEF Start, FleetTypeOK, storeVars
<1>3. ASSUME NEW h \in Hosts, Beat(h) PROVE Traces'
  BY <1>1, <1>3 DEF Beat, FleetTypeOK, storeVars
<1>4. ASSUME NEW h \in Hosts, Shutdown(h) PROVE Traces'
  BY <1>1, <1>4 DEF Shutdown, FleetTypeOK, storeVars
<1>5. ASSUME NEW h \in Hosts, Die(h) PROVE Traces'
  BY <1>5 DEF Die, Traces, FleetTypeOK, storeVars, Tables!Listed
<1>6. CASE Receive
  <2> DEFINE e == Head(queue)
  <2>1. queue \in Seq(Sent) /\ queue # <<>> /\ e = queue[1] /\ Len(queue) \in Nat \ {0}
    BY <1>6 DEF Receive, FleetTypeOK
  <2>2. now <= lastAlive[e.host] + MaxDelay
    <3>1. 1 \in 1 .. Len(queue) /\ e \in Sent
      BY <2>1
    <3>2. e.sent <= lastAlive[e.host] /\ now <= e.sent + MaxDelay
      BY <2>1, <3>1 DEF Traces
    <3>3. e.sent \in Nat /\ e.host \in Hosts
      BY <3>1 DEF Sent, Clock
    <3> HIDE DEF e
    <3> QED BY <1>0, <3>2, <3>3
  <2>3. \A i \in 1 .. Len(queue') :
          queue'[i].sent <= lastAlive[queue'[i].host] /\ now <= queue'[i].sent + MaxDelay
    <3> TAKE i \in 1 .. Len(queue')
    <3>1. queue' = Tail(queue) /\ queue'[i] = queue[i + 1] /\ i + 1 \in 1 .. Len(queue)
      BY <1>6, <2>1 DEF Receive
    <3> QED BY <3>1 DEF Traces
  <2>4. \A p \in pending' : p.ts <= lastAlive[p.host] + MaxDelay
    BY <1>6, <2>2 DEF Receive, Traces
  <2> QED BY <1>6, <2>3, <2>4 DEF Receive, Traces, storeVars, Tables!Listed
<1>7. ASSUME NEW h \in Hosts, Inspect(h) PROVE Traces'
  <2>1. lastAlive[h] = now
    BY <1>7 DEF Inspect, Traces
  <2> QED BY <1>0, <1>7, <2>1 DEF Inspect, Traces, storeVars, Tables!Listed
<1>8. CASE StoreSnapshot
  <2>1. inspected \in Inspection /\ inspected.host \in Hosts /\ inspected.sent \in Nat
    BY <1>8 DEF StoreSnapshot, FleetTypeOK, Inspection, Clock
  <2>2. now <= lastAlive[inspected.host] + MaxDelay
    BY <1>0, <1>8, <2>1 DEF StoreSnapshot, Traces
  <2>3. \A p \in pending' : p.ts <= lastAlive[p.host] + MaxDelay
    BY <1>8, <2>2 DEF StoreSnapshot, Traces
  <2> QED BY <1>8, <2>3 DEF StoreSnapshot, Traces, storeVars, Tables!Listed
<1>9. ASSUME NEW e \in pending, Apply(e) PROVE Traces'
  <2>1. e \in Tables!WorkerEvent /\ e.host \in Hosts /\ e.ts \in Nat /\ e.ts <= lastAlive[e.host] + MaxDelay
    BY DEF FleetTypeOK, Traces, Tables!WorkerEvent, Tables!Times
  <2> DEFINE row == workers[e.host]
  <2>2. \/ workers'[e.host].lastHeartbeat = None
        \/ workers'[e.host].lastHeartbeat = e.ts
        \/ row # NoWorker /\ row.lastHeartbeat # None /\ workers'[e.host].lastHeartbeat = row.lastHeartbeat
    BY <1>9, <2>1, SMT DEF Apply, Tables!StoreWorkerEvent, Tables!WorkerRowAfter, FleetTypeOK, Tables!TypeOK
  <2>3. workers'[e.host].lastHeartbeat # None =>
          workers'[e.host].lastHeartbeat <= lastAlive[e.host] + MaxDelay
    BY <2>1, <2>2 DEF Traces, Tables!Listed
  <2>4. \A h \in Hosts : h # e.host => workers'[h] = workers[h]
    BY <1>9 DEF Apply, Tables!StoreWorkerEvent, FleetTypeOK, Tables!TypeOK
  <2>5. \A h \in Tables!Listed' :
          workers'[h].lastHeartbeat # None => workers'[h].lastHeartbeat <= lastAlive[h] + MaxDelay
    BY <2>3, <2>4 DEF Traces, Tables!Listed
  <2> QED BY <1>9, <2>5 DEF Apply, Traces
<1>10. ASSUME NEW e \in pending, LoseWrite(e) PROVE Traces'
  BY <1>10 DEF LoseWrite, Traces, storeVars, Tables!Listed
<1>11. CASE Cleanup
  <2>1. \A h \in Hosts : workers'[h] = NoWorker \/ workers'[h] = workers[h]
    BY <1>11 DEF Cleanup, Tables!Cleanup
  <2> QED BY <1>11, <2>1 DEF Cleanup, Traces, sceneVars, Tables!Listed
<1>12. CASE Tick
  <2>1. \A h \in Hosts : /\ lastAlive'[h] \in Nat /\ lastAlive[h] <= lastAlive'[h]
                         /\ lastAlive'[h] <= now' /\ (alive'[h] => lastAlive'[h] = now')
    BY <1>0, <1>12 DEF Tick, Traces
  <2>2. \A i \in 1 .. Len(queue) : /\ queue[i] \in Sent /\ queue[i] \in ToSet(queue)
                                  /\ queue[i].sent \in Nat /\ queue[i].host \in Hosts
    <3> TAKE i \in 1 .. Len(queue)
    <3>1. queue \in Seq(Sent)
      BY DEF FleetTypeOK
    <3>2. queue[i] \in Sent /\ i \in DOMAIN queue
      BY <3>1
    <3> QED BY <3>2 DEF ToSet, Sent, Clock
  <2>3. \A i \in 1 .. Len(queue') :
          queue'[i].sent <= lastAlive'[queue'[i].host] /\ now' <= queue'[i].sent + MaxDelay
    BY <1>0, <1>12, <2>1, <2>2 DEF Tick, Traces
  <2>4. inspected' # None =>
          inspected'.sent <= lastAlive'[inspected'.host] /\ now' <= inspected'.sent + MaxDelay
    BY <1>0, <1>12, <2>1 DEF Tick, Traces, FleetTypeOK, Inspection, Clock
  <2>5. \A p \in pending' : p.ts <= lastAlive'[p.host] + MaxDelay
    BY <1>0, <1>12, <2>1 DEF Tick, Traces, FleetTypeOK, Tables!WorkerEvent, Tables!Times
  <2>6. \A h \in Tables!Listed' :
          workers'[h].lastHeartbeat # None => workers'[h].lastHeartbeat <= lastAlive'[h] + MaxDelay
    BY <1>0, <1>12, <2>1
    DEF Tick, Traces, FleetTypeOK, storeVars, Tables!Listed, Tables!TypeOK, Tables!WorkerRow, Tables!Opt,
        Tables!Times
  <2> QED BY <2>1, <2>3, <2>4, <2>5, <2>6 DEF Traces
<1>13. CASE UNCHANGED fleetVars
  BY <1>13 DEF fleetVars, storeVars, sceneVars, Traces, Tables!Listed
<1> QED BY <1>2, <1>3, <1>4, <1>5, <1>6, <1>7, <1>8, <1>9, <1>10, <1>11, <1>12, <1>13 DEF FleetNext

LEMMA HeartbeatStep ==
  ASSUME FleetInv, [FleetNext]_fleetVars
  PROVE  HeartbeatIsLogged'
<1> USE FleetAssumption DEF FleetInv
<1>1. ASSUME UNCHANGED storeVars PROVE HeartbeatIsLogged'
  BY <1>1 DEF storeVars, HeartbeatIsLogged, Tables!Listed
<1>2. ASSUME NEW e \in pending, Apply(e) PROVE HeartbeatIsLogged'
  <2> DEFINE row == workers[e.host]
             new == workers'[e.host]
  <2>1. e.host \in Hosts /\ e.ts \in Nat /\ e.ts # None
    BY DEF FleetTypeOK, Tables!WorkerEvent, Tables!Times
  <2>2. /\ workerEvents' = workerEvents \cup {[host |-> e.host, ts |-> e.ts]}
        /\ \A h \in Hosts : h # e.host => workers'[h] = workers[h]
        /\ new = Tables!WorkerRowAfter(row, e)
    BY <1>2, <2>1 DEF Apply, Tables!StoreWorkerEvent, FleetTypeOK, Tables!TypeOK
  <2>3. /\ new.status = "ONLINE" => new.lastHeartbeat = e.ts
        /\ \/ new.lastHeartbeat = None
           \/ new.lastHeartbeat = e.ts
           \/ row # NoWorker /\ row.lastHeartbeat # None /\ new.lastHeartbeat = row.lastHeartbeat
    BY <2>2, SMT DEF Tables!WorkerRowAfter
  <2> HIDE DEF new, row
  <2>4. /\ new.status = "ONLINE" => new.lastHeartbeat # None
        /\ new.lastHeartbeat # None =>
             [host |-> e.host, ts |-> new.lastHeartbeat] \in workerEvents'
    BY <2>1, <2>2, <2>3 DEF HeartbeatIsLogged, Tables!Listed, row
  <2> QED BY <2>2, <2>4 DEF HeartbeatIsLogged, Tables!Listed, new
<1>3. CASE Cleanup
  <2> SUFFICES ASSUME NEW h \in Hosts, workers'[h] # NoWorker
               PROVE  /\ workers'[h].status = "ONLINE" => workers'[h].lastHeartbeat # None
                      /\ workers'[h].lastHeartbeat # None =>
                           [host |-> h, ts |-> workers'[h].lastHeartbeat] \in workerEvents'
    BY DEF HeartbeatIsLogged, Tables!Listed
  <2>1. /\ workers'[h] = workers[h] /\ workers[h] # NoWorker
        /\ workers[h].lastHeartbeat # None => ~ (workers[h].lastHeartbeat < now - Retention)
        /\ workerEvents' = {e \in workerEvents : e.ts >= now - Retention}
    BY <1>3 DEF Cleanup, Tables!Cleanup
  <2>2. workers[h].lastHeartbeat # None => workers[h].lastHeartbeat \in Nat
    BY <2>1 DEF FleetTypeOK, Tables!TypeOK, Tables!WorkerRow, Tables!Opt, Tables!Times
  <2>3. now \in Nat
    BY DEF FleetTypeOK, Clock
  <2>4. /\ workers[h].status = "ONLINE" => workers[h].lastHeartbeat # None
        /\ workers[h].lastHeartbeat # None =>
             [host |-> h, ts |-> workers[h].lastHeartbeat] \in workerEvents
    BY <2>1 DEF HeartbeatIsLogged, Tables!Listed
  <2> QED BY <2>1, <2>2, <2>3, <2>4
<1>4. \/ \E e \in pending : Apply(e)
      \/ Cleanup
      \/ UNCHANGED storeVars
  BY DEF FleetNext, Start, Beat, Shutdown, Die, Receive, Inspect, StoreSnapshot, LoseWrite, Tick,
         fleetVars, storeVars
<1> QED BY <1>1, <1>2, <1>3, <1>4

LEMMA FleetInvHolds == FleetSpec => []FleetInv
<1>1. FleetInv /\ [FleetNext]_fleetVars => FleetInv'
  <2> SUFFICES ASSUME FleetInv, [FleetNext]_fleetVars PROVE FleetInv'
    OBVIOUS
  <2>1. FleetTypeOK'
    BY FleetTypeStep DEF FleetInv
  <2> QED BY <2>1, TracesStep, HeartbeatStep DEF FleetInv
<1> QED BY <1>1, FleetInitInv, PTL DEF FleetSpec

(* Every reachable fleet, broker queue and table is well formed. *)
THEOREM FleetTypeCorrect == FleetSpec => []FleetTypeOK
  BY FleetInvHolds, PTL DEF FleetInv

(* The heartbeat of a listed worker is that of an event the cleanup has kept. *)
THEOREM HeartbeatAlwaysLogged == FleetSpec => []HeartbeatIsLogged
  BY FleetInvHolds, PTL DEF FleetInv

(* No late, reordered or lost event keeps a dead worker on the pages longer than
   the threshold plus the longest delay of an event. *)
THEOREM DeadAlwaysShownOffline == FleetSpec => []DeadShownOffline
<1>1. FleetInv => DeadShownOffline
  <2> SUFFICES ASSUME FleetInv, NEW h \in Hosts, ~ alive[h], now > lastAlive[h] + MaxDelay + Threshold
               PROVE  Tables!Shown(h, now) \in {"absent", "offline"}
    BY DEF DeadShownOffline
  <2>1. lastAlive[h] \in Nat /\ now \in Nat
    BY DEF FleetInv, FleetTypeOK, Clock
  <2>2. CASE workers[h] # NoWorker /\ workers[h].status = "ONLINE"
    <3>1. /\ workers[h].lastHeartbeat # None
          /\ workers[h].lastHeartbeat <= lastAlive[h] + MaxDelay
      BY <2>2 DEF FleetInv, HeartbeatIsLogged, Traces, Tables!Listed
    <3>2. workers[h].lastHeartbeat \in Nat
      BY <2>2, <3>1 DEF FleetInv, FleetTypeOK, Tables!TypeOK, Tables!WorkerRow, Tables!Opt, Tables!Times
    <3>3. now - workers[h].lastHeartbeat > Threshold
      BY <2>1, <3>1, <3>2, FleetAssumption
    <3> QED BY <2>2, <3>1, <3>3 DEF Tables!Shown
  <2>3. CASE workers[h] = NoWorker
    BY <2>3 DEF Tables!Shown
  <2>4. CASE workers[h] # NoWorker /\ workers[h].status # "ONLINE"
    <3>1. workers[h].status = "OFFLINE"
      BY <2>4 DEF FleetInv, FleetTypeOK, Tables!TypeOK, Tables!WorkerRow
    <3> QED BY <2>4, <3>1 DEF Tables!Shown
  <2> QED BY <2>2, <2>3, <2>4
<1> QED BY <1>1, FleetInvHolds, PTL
=============================================================================

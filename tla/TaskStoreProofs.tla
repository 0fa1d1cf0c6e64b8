--------------------------- MODULE TaskStoreProofs ---------------------------
(***************************************************************************)
(* Proofs about TaskStore, for any set of tasks, any clock bound, any       *)
(* retention window and any set of incoming events, about the graphs that   *)
(* are read from it (TaskGraph) and about the retry that follows its        *)
(* relations (SmartRetry), for any relations.                               *)
(***************************************************************************)
EXTENDS TaskStore, TaskGraph, SmartRetry, FiniteSetTheorems, FunctionTheorems,
        SequenceTheorems, WellFoundedInduction, TLAPS

-----------------------------------------------------------------------------
(* Lemmas about the operators of TaskRecord. *)

(* Merging retry counts keeps the larger one and never forgets a known one
   (_merge_retries). *)
LEMMA MergeRetriesGrows ==
  ASSUME NEW old \in Opt(Nat), NEW new \in Opt(Nat)
  PROVE  /\ MergeRetries(old, new) \in Opt(Nat)
         /\ old # None => /\ MergeRetries(old, new) # None
                          /\ MergeRetries(old, new) >= old
  BY RecordAssumption, SMT DEF MergeRetries, Opt

(* A column keeps its old value exactly when the event carries none. *)
LEMMA ColumnsTyped ==
  ASSUME NEW old \in ColumnValues, NEW new \in ColumnValues
  PROVE  [c \in Columns |-> IF new[c] # None THEN new[c] ELSE old[c]] \in ColumnValues
  BY SMT DEF ColumnValues, Columns, LinkKinds

LEMMA BlankColumnsTyped == [c \in Columns |-> None] \in ColumnValues
  BY SMT DEF ColumnValues, Columns, LinkKinds, Opt

(* An event leaves a well-formed row behind, never the absent one. *)
LEMMA RowAfterTyped ==
  ASSUME NEW row \in TaskRow \cup {NoRow}, NEW e \in TaskEvent
  PROVE  /\ TaskRowAfter(row, e) \in TaskRow
         /\ TaskRowAfter(row, e) # NoRow
<1>1. TaskRowAfter(row, e) \in TaskRow
  <2>1. CASE row # NoRow /\ ShouldPreserveState(row.state, e.state)
    <3>1. row \in TaskRow /\ row.retries \in Opt(Nat) /\ e.retries \in Opt(Nat)
      BY <2>1 DEF TaskRow, TaskEvent
    <3>2. MergeRetries(row.retries, e.retries) \in Opt(Nat)
      BY <3>1, MergeRetriesGrows
    <3>3. TaskRowAfter(row, e) = [row EXCEPT !.retries = MergeRetries(row.retries, e.retries)]
      BY <2>1 DEF TaskRowAfter
    <3> QED BY <3>1, <3>2, <3>3 DEF TaskRow
  <2>2. CASE ~ (row # NoRow /\ ShouldPreserveState(row.state, e.state))
    <3> DEFINE old == IF row = NoRow THEN BlankRow ELSE row
    <3>1. /\ old.retries \in Opt(Nat) /\ old.cols \in ColumnValues
          /\ old.received \in Opt(Times) /\ old.started \in Opt(Times)
          /\ old.finished \in Opt(Times)
      BY BlankColumnsTyped DEF BlankRow, TaskRow, Opt
    <3>2. /\ e.state \in States /\ e.ts \in Opt(Times) /\ e.retries \in Opt(Nat)
          /\ e.cols \in ColumnValues
      BY DEF TaskEvent, Opt
    <3> HIDE DEF old
    <3>3. MergeRetries(old.retries, e.retries) \in Opt(Nat)
      BY <3>1, <3>2, MergeRetriesGrows
    <3>4. [c \in Columns |-> IF e.cols[c] # None THEN e.cols[c] ELSE old.cols[c]]
            \in ColumnValues
      BY <3>1, <3>2, ColumnsTyped
    <3>5. TaskRowAfter(row, e) =
            [state    |-> e.state,
             retries  |-> MergeRetries(old.retries, e.retries),
             cols     |-> [c \in Columns |-> IF e.cols[c] # None
                                             THEN e.cols[c] ELSE old.cols[c]],
             received |-> IF e.state \in WaitingStates THEN e.ts ELSE old.received,
             started  |-> IF e.state \in {"STARTED"} THEN e.ts ELSE old.started,
             finished |-> IF e.state \in FinalStates THEN e.ts ELSE old.finished]
      BY <2>2 DEF TaskRowAfter, old
    <3> QED BY <3>1, <3>2, <3>3, <3>4, <3>5 DEF TaskRow
  <2> QED BY <2>1, <2>2
<1> QED BY <1>1, NoRowAssumption

(* A late or repeated event never takes a row back (_should_preserve_state). *)
LEMMA RowAfterNeverBack ==
  ASSUME NEW row \in TaskRow, NEW e \in TaskEvent
  PROVE  NeverBack(row, TaskRowAfter(row, e))
<1> DEFINE new == TaskRowAfter(row, e)
<1>1. row # NoRow /\ new # NoRow
  BY NoRowAssumption, RowAfterTyped
<1>2. row.retries \in Opt(Nat) /\ e.retries \in Opt(Nat)
  BY DEF TaskRow, TaskEvent
<1>3. new.retries = MergeRetries(row.retries, e.retries)
  BY <1>1, SMT DEF TaskRowAfter, TaskRow
<1>4. row.retries # None => new.retries # None /\ new.retries >= row.retries
  BY <1>2, <1>3, MergeRetriesGrows
<1>5. \A c \in Columns : row.cols[c] # None => new.cols[c] # None
  BY <1>1, SMT DEF TaskRowAfter, TaskRow
<1>6. \/ new.state = row.state
      \/ new.state = e.state /\ ~ ShouldPreserveState(row.state, e.state)
  BY <1>1, SMT DEF TaskRowAfter, TaskRow
<1>7. /\ row.state \in FinalStates => new.state \in FinalStates
      /\ row.state = "STARTED" => new.state \notin WaitingStates
      /\ row.state = "RECEIVED" => new.state # "PENDING"
  BY <1>6 DEF ShouldPreserveState, WaitingStates, FinalStates
<1> HIDE DEF new
<1> QED BY <1>1, <1>4, <1>5, <1>7 DEF NeverBack, Final, new

(* The timestamps of one row agree with its state. *)
RowStamps(row) ==
  /\ row.finished # None <=> row.state \in FinalStates
  /\ row.state = "STARTED" => row.started # None
  /\ row.state \in WaitingStates => row.received # None

(* An event keeps the timestamps of the row it changes in step with its state. *)
LEMMA RowAfterStamps ==
  ASSUME NEW row \in TaskRow \cup {NoRow}, NEW e \in TaskEvent,
         row # NoRow => RowStamps(row)
  PROVE  RowStamps(TaskRowAfter(row, e))
<1>1. e.ts # None /\ e.state \in States
  BY RecordAssumption DEF TaskEvent, Times
<1>2. CASE row # NoRow /\ ShouldPreserveState(row.state, e.state)
  BY <1>2, SMT DEF TaskRowAfter, TaskRow, RowStamps
<1>3. CASE row # NoRow /\ ~ ShouldPreserveState(row.state, e.state)
  <2> DEFINE new == TaskRowAfter(row, e)
  <2>1. /\ new.state = e.state
        /\ new.received = IF e.state \in WaitingStates THEN e.ts ELSE row.received
        /\ new.started = IF e.state \in {"STARTED"} THEN e.ts ELSE row.started
        /\ new.finished = IF e.state \in FinalStates THEN e.ts ELSE row.finished
    BY <1>3, SMT DEF TaskRowAfter
  <2> HIDE DEF new
  <2>2. RowStamps(new)
    BY <1>1, <1>3, <2>1, SMT
    DEF RowStamps, ShouldPreserveState, States, FinalStates, WaitingStates
  <2> QED BY <2>2 DEF new
<1>4. CASE row = NoRow
  <2> DEFINE new == TaskRowAfter(row, e)
  <2>1. /\ new.state = e.state
        /\ new.received = IF e.state \in WaitingStates THEN e.ts ELSE None
        /\ new.started = IF e.state \in {"STARTED"} THEN e.ts ELSE None
        /\ new.finished = IF e.state \in FinalStates THEN e.ts ELSE None
    BY <1>4, SMT DEF TaskRowAfter, BlankRow
  <2> HIDE DEF new
  <2>2. RowStamps(new)
    BY <1>1, <2>1, SMT DEF RowStamps, States, FinalStates, WaitingStates
  <2> QED BY <2>2 DEF new
<1> QED BY <1>2, <1>3, <1>4

-----------------------------------------------------------------------------
(* Type correctness: every reachable table holds well-formed rows only. *)
THEOREM TypeCorrect == TasksSpec => []TasksTypeOK
<1>1. TasksInit => TasksTypeOK
  BY RecordAssumption DEF TasksInit, TasksTypeOK, Times
<1>2. TasksTypeOK /\ [TasksNext]_taskVars => TasksTypeOK'
  <2> SUFFICES ASSUME TasksTypeOK, [TasksNext]_taskVars PROVE TasksTypeOK'
    OBVIOUS
  <2> USE DEF TasksTypeOK
  <2>1. ASSUME NEW event \in Incoming, StoreTaskEvent(event) PROVE TasksTypeOK'
    <3>1. event \in TaskEvent /\ event.task \in TaskIds
      BY StoreAssumption DEF TaskEvent
    <3>2. EdgesOf(event) \subseteq Edge
      BY <3>1, RecordAssumption, SMT
      DEF TaskEvent, EdgesOf, Edge, LinkEdge, RootOf, ColumnValues, Columns, LinkKinds, Opt
    <3>3. TaskRowAfter(tasks[event.task], event) \in TaskRow
      BY <3>1, RowAfterTyped
    <3> QED BY <2>1, <3>1, <3>2, <3>3 DEF StoreTaskEvent
  <2>2. CASE StoreEdge
    BY <2>2 DEF StoreEdge
  <2>3. CASE IngestFails
    BY <2>3 DEF IngestFails
  <2>4. ASSUME NEW edge \in Announced, StoreTaskRelation(edge) PROVE TasksTypeOK'
    BY <2>4, StoreAssumption DEF StoreTaskRelation
  <2>5. CASE Cleanup
    BY <2>5 DEF Cleanup
  <2>6. CASE Tick
    BY <2>6, RecordAssumption DEF Tick, Times
  <2>7. CASE UNCHANGED taskVars
    BY <2>7 DEF taskVars
  <2> QED BY <2>1, <2>2, <2>3, <2>4, <2>5, <2>6, <2>7 DEF TasksNext
<1> QED BY <1>1, <1>2, PTL DEF TasksSpec

-----------------------------------------------------------------------------
(* The inductive invariant.  StampsMatchState and AgeIsLogged are inductive    *)
(* together with the types: an age only comes from an event stored in the same *)
(* transaction, and the cleanup cuts both tables at the same instant.          *)
(* LinksAreFound needs to know in addition where a row's root_id came from.    *)

RootsAreIncoming ==
  \A t \in Rows :
    /\ tasks[t].cols["root"] # None =>
         \E e \in Incoming : e.task = t /\ e.cols["root"] = tasks[t].cols["root"]
    /\ (\E k \in LinkKinds : tasks[t].cols[k] # None) => tasks[t].cols["root"] # None

Inv == TasksTypeOK /\ StampsMatchState /\ AgeIsLogged /\ EdgesFollowEvents

(* What storing one event does to the other tasks: nothing. *)
LEMMA StoreFrame ==
  ASSUME TasksTypeOK, NEW event \in Incoming, StoreTaskEvent(event)
  PROVE  /\ event \in TaskEvent /\ event.task \in TaskIds
         /\ tasks'[event.task] = TaskRowAfter(tasks[event.task], event)
         /\ tasks'[event.task] # NoRow
         /\ tasks[event.task] \in TaskRow \cup {NoRow}
         /\ \A t \in TaskIds : t # event.task => tasks'[t] = tasks[t]
         /\ taskEvents' = taskEvents \cup {event}
         /\ todo = {} /\ todo' = EdgesOf(event)
         /\ relations' = relations /\ lost' = lost /\ now' = now
<1>1. event \in TaskEvent /\ event.task \in TaskIds
  BY StoreAssumption DEF TaskEvent
<1>2. tasks[event.task] \in TaskRow \cup {NoRow}
  BY <1>1 DEF TasksTypeOK
<1>3. TaskRowAfter(tasks[event.task], event) # NoRow
  BY <1>1, <1>2, RowAfterTyped
<1> QED BY <1>1, <1>2, <1>3 DEF StoreTaskEvent, TasksTypeOK, Idle

(* The age of a row comes from the event just stored, or is the age it had. *)
LEMMA RowAfterAge ==
  ASSUME NEW row \in TaskRow \cup {NoRow}, NEW e \in TaskEvent,
         row # NoRow => RowStamps(row)
  PROVE  LET new == TaskRowAfter(row, e)
         IN  \/ Age(new) = None
             \/ Age(new) = e.ts /\ (Final(new) => new.state = e.state)
             \/ row # NoRow /\ Age(new) = Age(row) /\ (Final(new) => new.state = row.state)
<1> DEFINE new == TaskRowAfter(row, e)
<1>1. e.state \in States /\ e.ts # None
  BY RecordAssumption DEF TaskEvent, Times
<1>2. CASE row # NoRow /\ ShouldPreserveState(row.state, e.state)
  BY <1>2, SMT DEF TaskRowAfter, TaskRow, Age, Final
<1>3. CASE row # NoRow /\ ~ ShouldPreserveState(row.state, e.state)
  <2>1. /\ new.state = e.state
        /\ new.received = IF e.state \in WaitingStates THEN e.ts ELSE row.received
        /\ new.started = IF e.state \in {"STARTED"} THEN e.ts ELSE row.started
        /\ new.finished = IF e.state \in FinalStates THEN e.ts ELSE row.finished
    BY <1>3, SMT DEF TaskRowAfter
  <2> HIDE DEF new
  <2>2. \/ Age(new) = None
        \/ Age(new) = e.ts /\ (Final(new) => new.state = e.state)
        \/ row # NoRow /\ Age(new) = Age(row) /\ (Final(new) => new.state = row.state)
    BY <1>1, <1>3, <2>1, SMT
    DEF Age, Final, RowStamps, ShouldPreserveState, States, FinalStates, WaitingStates
  <2> QED BY <2>2 DEF new
<1>4. CASE row = NoRow
  <2>1. /\ new.state = e.state
        /\ new.received = IF e.state \in WaitingStates THEN e.ts ELSE None
        /\ new.started = IF e.state \in {"STARTED"} THEN e.ts ELSE None
        /\ new.finished = IF e.state \in FinalStates THEN e.ts ELSE None
    BY <1>4, SMT DEF TaskRowAfter, BlankRow
  <2> HIDE DEF new
  <2>2. Age(new) = None \/ (Age(new) = e.ts /\ (Final(new) => new.state = e.state))
    BY <1>1, <2>1, SMT DEF Age, Final, States, FinalStates, WaitingStates
  <2> QED BY <2>2 DEF new
<1> QED BY <1>2, <1>3, <1>4

LEMMA StampsFromRows ==
  ASSUME TasksTypeOK
  PROVE  StampsMatchState <=> \A t \in Rows : RowStamps(tasks[t])
<1>1. \A t \in Rows : tasks[t] \in TaskRow /\ tasks[t].state \in States
  BY DEF TasksTypeOK, Rows, TaskRow
<1>2. ASSUME NEW t \in Rows, RowStamps(tasks[t]), Age(tasks[t]) = None
      PROVE  tasks[t].state \in {"RETRY", "REJECTED"}
  BY <1>1, <1>2, SMT DEF RowStamps, Age, States, FinalStates, WaitingStates
<1> QED BY <1>2 DEF StampsMatchState, RowStamps

LEMMA InitInv == TasksInit => Inv
  BY RecordAssumption
  DEF TasksInit, Inv, TasksTypeOK, Times, StampsMatchState, AgeIsLogged, EdgesFollowEvents, Rows

LEMMA StampsStep ==
  ASSUME Inv, TasksTypeOK', [TasksNext]_taskVars
  PROVE  StampsMatchState'
<1> SUFFICES ASSUME NEW t \in TaskIds, tasks'[t] # NoRow
             PROVE  RowStamps(tasks'[t])
  <2>1. \A t \in TaskIds : tasks'[t] # NoRow => tasks'[t] \in TaskRow
    BY DEF TasksTypeOK
  <2>2. ASSUME NEW t \in TaskIds, tasks'[t] # NoRow, RowStamps(tasks'[t]),
               Age(tasks'[t]) = None
        PROVE  tasks'[t].state \in {"RETRY", "REJECTED"}
    <3>1. tasks'[t].state \in States
      BY <2>1, <2>2 DEF TaskRow
    <3> QED BY <2>2, <3>1, SMT DEF RowStamps, Age, States, FinalStates, WaitingStates
  <2> QED BY <2>2 DEF StampsMatchState, Rows, RowStamps
<1>1. \A u \in Rows : RowStamps(tasks[u])
  BY StampsFromRows DEF Inv
<1>2. ASSUME tasks'[t] = tasks[t] PROVE RowStamps(tasks'[t])
  BY <1>1, <1>2 DEF Rows
<1>3. ASSUME NEW event \in Incoming, StoreTaskEvent(event) PROVE RowStamps(tasks'[t])
  <2>1. CASE t = event.task
    BY <1>1, <1>3, <2>1, StoreFrame, RowAfterStamps DEF Inv, Rows
  <2>2. CASE t # event.task
    BY <1>2, <1>3, <2>2, StoreFrame DEF Inv
  <2> QED BY <2>1, <2>2
<1>4. CASE Cleanup
  BY <1>2, <1>4 DEF Cleanup
<1>5. CASE StoreEdge \/ IngestFails \/ Tick \/ UNCHANGED taskVars
  BY <1>2, <1>5 DEF StoreEdge, IngestFails, Tick, taskVars
<1>6. ASSUME NEW edge \in Announced, StoreTaskRelation(edge) PROVE RowStamps(tasks'[t])
  BY <1>2, <1>6 DEF StoreTaskRelation
<1> QED BY <1>3, <1>4, <1>5, <1>6 DEF TasksNext

(* The event that dates a row, if it has one, is still logged. *)
Dated(row, t, log) ==
  Age(row) # None =>
    \E e \in log : e.task = t /\ e.ts = Age(row) /\ (Final(row) => e.state = row.state)

LEMMA AgeStep ==
  ASSUME Inv, TasksTypeOK', [TasksNext]_taskVars
  PROVE  AgeIsLogged'
<1> SUFFICES ASSUME NEW t \in TaskIds, tasks'[t] # NoRow
             PROVE  Dated(tasks'[t], t, taskEvents')
  BY DEF AgeIsLogged, Rows, Dated
<1>1. tasks[t] # NoRow => Dated(tasks[t], t, taskEvents)
  BY DEF Inv, AgeIsLogged, Rows, Dated
<1>2. ASSUME tasks'[t] = tasks[t], taskEvents \subseteq taskEvents'
      PROVE  Dated(tasks'[t], t, taskEvents')
  BY <1>1, <1>2 DEF Dated
<1>3. ASSUME NEW event \in Incoming, StoreTaskEvent(event)
      PROVE  Dated(tasks'[t], t, taskEvents')
  <2>1. CASE t = event.task
    <3> DEFINE row == tasks[t]
               new == TaskRowAfter(row, event)
    <3>1. /\ event \in TaskEvent /\ row \in TaskRow \cup {NoRow}
          /\ tasks'[t] = new /\ taskEvents' = taskEvents \cup {event}
      BY <1>3, <2>1, StoreFrame DEF Inv
    <3>2. row # NoRow => RowStamps(row)
      BY StampsFromRows DEF Inv, Rows
    <3>3. \/ Age(new) = None
          \/ Age(new) = event.ts /\ (Final(new) => new.state = event.state)
          \/ row # NoRow /\ Age(new) = Age(row) /\ (Final(new) => new.state = row.state)
      BY <3>1, <3>2, RowAfterAge
    <3>4. row # NoRow /\ Age(row) # None =>
            \E e \in taskEvents :
              e.task = t /\ e.ts = Age(row) /\ (Final(row) => e.state = row.state)
      BY <1>1 DEF Dated
    <3>5. row # NoRow /\ Age(new) = Age(row) /\ Final(new) /\ new.state = row.state
            => Final(row)
      BY DEF Final
    <3> HIDE DEF new, row
    <3> QED BY <2>1, <3>1, <3>3, <3>4, <3>5 DEF Dated
  <2>2. CASE t # event.task
    BY <1>2, <1>3, <2>2, StoreFrame DEF Inv
  <2> QED BY <2>1, <2>2
<1>4. CASE Cleanup
  <2>1. /\ tasks'[t] = tasks[t] /\ tasks[t] # NoRow
        /\ ~ Before(Age(tasks[t]), now - Retention)
        /\ taskEvents' = {e \in taskEvents : ~ Before(e.ts, now - Retention)}
    BY <1>4 DEF Cleanup
  <2> QED BY <1>1, <2>1 DEF Dated
<1>5. CASE StoreEdge \/ IngestFails \/ Tick \/ UNCHANGED taskVars
  BY <1>2, <1>5 DEF StoreEdge, IngestFails, Tick, taskVars
<1>6. ASSUME NEW edge \in Announced, StoreTaskRelation(edge)
      PROVE  Dated(tasks'[t], t, taskEvents')
  BY <1>2, <1>6 DEF StoreTaskRelation
<1> QED BY <1>3, <1>4, <1>5, <1>6 DEF TasksNext

LEMMA EdgesStep ==
  ASSUME Inv, [TasksNext]_taskVars
  PROVE  EdgesFollowEvents'
<1> USE DEF Inv, EdgesFollowEvents
<1>1. ASSUME NEW event \in Incoming, StoreTaskEvent(event) PROVE EdgesFollowEvents'
  BY <1>1, StoreFrame
<1>2. CASE Cleanup
  BY <1>2 DEF Cleanup
<1>3. CASE StoreEdge \/ IngestFails \/ Tick \/ UNCHANGED taskVars
  BY <1>3 DEF StoreEdge, IngestFails, Tick, taskVars
<1>4. ASSUME NEW edge \in Announced, StoreTaskRelation(edge) PROVE EdgesFollowEvents'
  BY <1>4 DEF StoreTaskRelation
<1> QED BY <1>1, <1>2, <1>3, <1>4 DEF TasksNext

LEMMA InvHolds == TasksSpec => []Inv
<1>1. Inv /\ TasksTypeOK' /\ [TasksNext]_taskVars => Inv'
  BY StampsStep, AgeStep, EdgesStep DEF Inv
<1> QED BY <1>1, InitInv, TypeCorrect, PTL DEF TasksSpec

(* A row has a finish time exactly when it is final, and every dated state has
   its date, in whatever order events are delivered to store_task_event. *)
THEOREM StampsAlwaysMatch == TasksSpec => []StampsMatchState
  BY InvHolds, PTL DEF Inv

(* The cleanup's two deletes never separate a dated row from the event that
   dates it, nor a final row from its outcome. *)
THEOREM AgeAlwaysLogged == TasksSpec => []AgeIsLogged
  BY InvHolds, PTL DEF Inv

(* The edges of a stored event are stored, being stored, or lost to a failure
   between the handler's transactions. *)
THEOREM EdgesAlwaysFollow == TasksSpec => []EdgesFollowEvents
  BY InvHolds, PTL DEF Inv

-----------------------------------------------------------------------------
(* Links: for events whose roots are stable, as Celery's are. *)

LinkInv == RootsAreIncoming /\ LinksAreFound

LEMMA RowAfterCols ==
  ASSUME NEW row \in TaskRow \cup {NoRow}, NEW e \in TaskEvent
  PROVE  LET new == TaskRowAfter(row, e)
         IN  \/ row # NoRow /\ new.cols = row.cols
             \/ \A c \in Columns :
                  new.cols[c] = IF e.cols[c] # None THEN e.cols[c]
                                ELSE IF row = NoRow THEN None ELSE row.cols[c]
<1>1. CASE row # NoRow /\ ShouldPreserveState(row.state, e.state)
  BY <1>1, SMT DEF TaskRowAfter, TaskRow
<1>2. CASE row # NoRow /\ ~ ShouldPreserveState(row.state, e.state)
  BY <1>2, SMT DEF TaskRowAfter
<1>3. CASE row = NoRow
  BY <1>3, SMT DEF TaskRowAfter, BlankRow
<1> QED BY <1>1, <1>2, <1>3

LEMMA LinkStep ==
  ASSUME RootsAreStable, TasksTypeOK, LinkInv, [TasksNext]_taskVars
  PROVE  LinkInv'
<1>1. ASSUME NEW event \in Incoming, StoreTaskEvent(event) PROVE LinkInv'
  <2> DEFINE s == event.task
             row == tasks[s]
             new == tasks'[s]
  <2>1. /\ event \in TaskEvent /\ s \in TaskIds /\ row \in TaskRow \cup {NoRow}
        /\ new = TaskRowAfter(row, event)
        /\ \A t \in TaskIds : t # s => tasks'[t] = tasks[t]
        /\ todo = {} /\ todo' = EdgesOf(event)
        /\ relations' = relations /\ lost' = lost
    BY <1>1, StoreFrame
  <2>2. \/ row # NoRow /\ new.cols = row.cols
        \/ \A c \in Columns : new.cols[c] = IF event.cols[c] # None THEN event.cols[c]
                                            ELSE IF row = NoRow THEN None ELSE row.cols[c]
    BY <2>1, RowAfterCols
  <2>3. row # NoRow =>
          /\ row.cols["root"] # None =>
               \E e \in Incoming : e.task = s /\ e.cols["root"] = row.cols["root"]
          /\ (\E k \in LinkKinds : row.cols[k] # None) => row.cols["root"] # None
          /\ \A k \in LinkKinds :
               row.cols[k] # None => LinkEdge(s, row.cols, k) \in relations \cup lost
    BY <2>1 DEF LinkInv, RootsAreIncoming, LinksAreFound, Rows
  <2>4. /\ (\E k \in LinkKinds : event.cols[k] # None) => event.cols["root"] # None
        /\ \A e \in Incoming :
             e.task = s /\ e.cols["root"] # None /\ event.cols["root"] # None
               => e.cols["root"] = event.cols["root"]
    BY DEF RootsAreStable
  <2>5. "root" \in Columns /\ LinkKinds \subseteq Columns
    BY DEF Columns
  <2>6. /\ new.cols["root"] # None =>
             \E e \in Incoming : e.task = s /\ e.cols["root"] = new.cols["root"]
        /\ (\E k \in LinkKinds : new.cols[k] # None) => new.cols["root"] # None
    <3>1. CASE row # NoRow /\ new.cols = row.cols
      BY <3>1, <2>3
    <3>2. CASE \A c \in Columns :
                 new.cols[c] = IF event.cols[c] # None THEN event.cols[c]
                               ELSE IF row = NoRow THEN None ELSE row.cols[c]
      <4> HIDE DEF new, row
      <4> QED BY <3>2, <2>3, <2>4, <2>5
    <3> QED BY <2>2, <3>1, <3>2
  <2>7. ASSUME NEW k \in LinkKinds, new.cols[k] # None
        PROVE  LinkEdge(s, new.cols, k) \in relations \cup todo' \cup lost
    <3>1. CASE row # NoRow /\ new.cols = row.cols
      BY <3>1, <2>3, <2>7
    <3>2. CASE \A c \in Columns :
                 new.cols[c] = IF event.cols[c] # None THEN event.cols[c]
                               ELSE IF row = NoRow THEN None ELSE row.cols[c]
      <4> HIDE DEF new, row
      <4>1. CASE event.cols[k] # None
        <5>1. new.cols[k] = event.cols[k] /\ new.cols["root"] = event.cols["root"]
          BY <3>2, <4>1, <2>4, <2>5
        <5>2. LinkEdge(s, new.cols, k) = LinkEdge(s, event.cols, k)
          BY <5>1 DEF LinkEdge, RootOf
        <5> QED BY <2>1, <4>1, <5>2 DEF EdgesOf
      <4>2. CASE event.cols[k] = None
        <5>1. row # NoRow /\ new.cols[k] = row.cols[k] /\ row.cols["root"] # None
          BY <3>2, <4>2, <2>3, <2>5, <2>7
        <5>2. new.cols["root"] = row.cols["root"]
          BY <3>2, <5>1, <2>3, <2>4, <2>5
        <5>3. LinkEdge(s, new.cols, k) = LinkEdge(s, row.cols, k)
          BY <5>1, <5>2 DEF LinkEdge, RootOf
        <5> QED BY <2>3, <2>7, <5>1, <5>3
      <4> QED BY <4>1, <4>2
    <3> QED BY <2>2, <3>1, <3>2
  <2>8. RootsAreIncoming'
    <3> SUFFICES ASSUME NEW t \in TaskIds, tasks'[t] # NoRow
                 PROVE  /\ tasks'[t].cols["root"] # None =>
                             \E e \in Incoming : e.task = t /\ e.cols["root"] = tasks'[t].cols["root"]
                        /\ (\E k \in LinkKinds : tasks'[t].cols[k] # None)
                             => tasks'[t].cols["root"] # None
      BY DEF RootsAreIncoming, Rows
    <3>1. CASE t = s
      BY <3>1, <2>6
    <3>2. CASE t # s
      BY <3>2, <2>1 DEF LinkInv, RootsAreIncoming, Rows
    <3> QED BY <3>1, <3>2
  <2>9. LinksAreFound'
    <3> SUFFICES ASSUME NEW t \in TaskIds, tasks'[t] # NoRow,
                        NEW k \in LinkKinds, tasks'[t].cols[k] # None
                 PROVE  LinkEdge(t, tasks'[t].cols, k) \in relations' \cup todo' \cup lost'
      BY DEF LinksAreFound, Rows
    <3>1. CASE t = s
      BY <3>1, <2>1, <2>7
    <3>2. CASE t # s
      BY <3>2, <2>1 DEF LinkInv, LinksAreFound, Rows
    <3> QED BY <3>1, <3>2
  <2> QED BY <2>8, <2>9 DEF LinkInv
<1>2. ASSUME relations \cup todo \cup lost \subseteq relations' \cup todo' \cup lost',
             \A t \in TaskIds : tasks'[t] # NoRow => tasks'[t] = tasks[t]
      PROVE  LinkInv'
  <2>1. \A t \in Rows' : t \in Rows /\ tasks'[t] = tasks[t]
    BY <1>2 DEF Rows
  <2>2. RootsAreIncoming'
    BY <2>1 DEF LinkInv, RootsAreIncoming
  <2>3. LinksAreFound'
    BY <1>2, <2>1 DEF LinkInv, LinksAreFound
  <2> QED BY <2>2, <2>3 DEF LinkInv
<1>3. CASE StoreEdge
  BY <1>2, <1>3 DEF StoreEdge
<1>4. CASE IngestFails
  BY <1>2, <1>4 DEF IngestFails
<1>5. ASSUME NEW edge \in Announced, StoreTaskRelation(edge) PROVE LinkInv'
  BY <1>2, <1>5 DEF StoreTaskRelation
<1>6. CASE Cleanup
  <2>1. \A t \in TaskIds : tasks'[t] # NoRow => tasks'[t] = tasks[t]
    BY <1>6 DEF Cleanup
  <2>2. relations' = relations /\ todo' = todo /\ lost' = lost
    BY <1>6 DEF Cleanup
  <2> QED BY <1>2, <2>1, <2>2
<1>7. CASE Tick \/ UNCHANGED taskVars
  BY <1>2, <1>7 DEF Tick, taskVars
<1> QED BY <1>1, <1>3, <1>4, <1>5, <1>6, <1>7 DEF TasksNext

(* With Celery's stable roots, every link a task row shows is found by a reader
   who looks it up under the row's root (get_task_relations), short of a failure
   between the handler's transactions. *)
THEOREM LinksAlwaysFound == RootsAreStable => (TasksSpec => []LinksAreFound)
<1> SUFFICES ASSUME RootsAreStable PROVE TasksSpec => []LinksAreFound
  OBVIOUS
<1>1. TasksInit => LinkInv
  BY DEF TasksInit, LinkInv, RootsAreIncoming, LinksAreFound, Rows
<1>2. TasksTypeOK /\ LinkInv /\ [TasksNext]_taskVars => LinkInv'
  BY LinkStep
<1>3. LinkInv => LinksAreFound
  BY DEF LinkInv
<1> QED BY <1>1, <1>2, <1>3, TypeCorrect, PTL DEF TasksSpec

-----------------------------------------------------------------------------
(* Action property and refinement. *)

(* However late, often or disordered the events of a task arrive, its row never
   regresses while it exists. *)
THEOREM RowsNeverRegress == TasksSpec => NoRegression
<1>1. ASSUME TasksTypeOK, [TasksNext]_taskVars, NEW t \in TaskIds, tasks[t] # NoRow, tasks'[t] # NoRow
      PROVE  NeverBack(tasks[t], tasks'[t])
  <2>1. tasks[t] \in TaskRow
    BY <1>1 DEF TasksTypeOK
  <2>2. ASSUME tasks'[t] = tasks[t] PROVE NeverBack(tasks[t], tasks'[t])
    <3>1. tasks[t].retries # None => tasks[t].retries \in Nat
      BY <2>1 DEF TaskRow, Opt
    <3>2. tasks[t].state = "RECEIVED" => tasks[t].state # "PENDING"
      OBVIOUS
    <3> QED BY <2>2, <3>1, <3>2 DEF NeverBack, WaitingStates
  <2>3. ASSUME NEW event \in Incoming, StoreTaskEvent(event)
        PROVE  NeverBack(tasks[t], tasks'[t])
    <3>1. CASE t = event.task
      BY <1>1, <2>1, <2>3, <3>1, StoreFrame, RowAfterNeverBack
    <3>2. CASE t # event.task
      BY <1>1, <2>2, <2>3, <3>2, StoreFrame
    <3> QED BY <3>1, <3>2
  <2>4. CASE Cleanup
    BY <1>1, <2>2, <2>4 DEF Cleanup
  <2>5. CASE StoreEdge \/ IngestFails \/ Tick \/ UNCHANGED taskVars
    BY <2>2, <2>5 DEF StoreEdge, IngestFails, Tick, taskVars
  <2>6. ASSUME NEW edge \in Announced, StoreTaskRelation(edge)
        PROVE  NeverBack(tasks[t], tasks'[t])
    BY <2>2, <2>6 DEF StoreTaskRelation
  <2> QED BY <1>1, <2>3, <2>4, <2>5, <2>6 DEF TasksNext
<1>2. TasksTypeOK /\ [TasksNext]_taskVars =>
        [\A t \in TaskIds :
           tasks[t] # NoRow /\ tasks'[t] # NoRow => NeverBack(tasks[t], tasks'[t])]_taskVars
  BY <1>1
<1> QED BY <1>2, TypeCorrect, PTL DEF TasksSpec, NoRegression

TriesOf(row) == IF row = NoRow THEN None ELSE row.retries

LEMMA LifecycleStep ==
  ASSUME TasksTypeOK, [TasksNext]_taskVars
  PROVE  [Lifecycle!Next]_(Lifecycle!vars)
<1> DEFINE phases == [t \in TaskIds |-> PhaseOf(tasks[t])]
           tries == [t \in TaskIds |-> TriesOf(tasks[t])]
<1>1. /\ phases = [t \in TaskIds |-> PhaseOf(tasks[t])]
      /\ tries = [t \in TaskIds |-> IF tasks[t] = NoRow THEN None ELSE tasks[t].retries]
  BY DEF TriesOf
<1>2. ASSUME tasks' = tasks PROVE UNCHANGED Lifecycle!vars
  BY <1>2 DEF Lifecycle!vars
<1>3. ASSUME NEW event \in Incoming, StoreTaskEvent(event) PROVE Lifecycle!Next
  <2> DEFINE s == event.task
             row == tasks[s]
             new == TaskRowAfter(row, event)
  <2>1. /\ event \in TaskEvent /\ s \in TaskIds /\ row \in TaskRow \cup {NoRow}
        /\ tasks'[s] = new /\ new # NoRow
        /\ \A t \in TaskIds : t # s => tasks'[t] = tasks[t]
    BY <1>3, StoreFrame
  <2>2. new \in TaskRow
    BY <2>1, RowAfterTyped
  <2>3. Lifecycle!AtLeast(TriesOf(new), TriesOf(row))
    <3>1. CASE row = NoRow
      BY <2>1, <2>2, <3>1 DEF Lifecycle!AtLeast, TriesOf, TaskRow, Opt
    <3>2. CASE row # NoRow
      <4>1. NeverBack(row, new)
        BY <2>1, <3>2, RowAfterNeverBack
      <4>2. new.retries \in Opt(Nat)
        BY <2>2 DEF TaskRow
      <4> HIDE DEF new, row
      <4> QED BY <2>1, <3>2, <4>1, <4>2, RecordAssumption
              DEF Lifecycle!AtLeast, TriesOf, NeverBack, Opt
    <3> QED BY <3>1, <3>2
  <2>4. \/ PhaseOf(new) \in FinalStates
        \/ PhaseOf(new) = IF PhaseOf(row) = "absent" THEN "open" ELSE PhaseOf(row)
    <3>1. row # NoRow => NeverBack(row, new)
      BY <2>1, RowAfterNeverBack
    <3> HIDE DEF new, row
    <3> QED BY <2>1, <3>1 DEF PhaseOf, Final, NeverBack, FinalStates
  <2>5. phases' = [phases EXCEPT ![s] = PhaseOf(new)]
    <3> HIDE DEF new
    <3> QED BY <2>1, Zenon
  <2>6. tries' = [tries EXCEPT ![s] = TriesOf(new)]
    <3> HIDE DEF new
    <3> QED BY <2>1, Zenon
  <2>7. phases[s] = PhaseOf(row) /\ tries[s] = TriesOf(row)
    BY <2>1
  <2>8. tries'[s] = TriesOf(new)
    <3> HIDE DEF new
    <3> QED BY <2>1
  <2> HIDE DEF phases, tries, new, row, s
  <2>9. tries' = [tries EXCEPT ![s] = tries'[s]] /\ Lifecycle!AtLeast(tries'[s], tries[s])
    BY <2>3, <2>6, <2>7, <2>8
  <2>10. CASE PhaseOf(new) \in FinalStates
    <3>1. Lifecycle!Close(s, PhaseOf(new))
      BY <2>5, <2>9, <1>1 DEF Lifecycle!Close, Lifecycle!SetTries, phases, tries, TriesOf
    <3> QED BY <2>1, <2>10, <3>1 DEF Lifecycle!Next, Lifecycle!Outcomes, FinalStates
  <2>11. CASE PhaseOf(new) = IF PhaseOf(row) = "absent" THEN "open" ELSE PhaseOf(row)
    <3>1. phases' = [phases EXCEPT ![s] = IF phases[s] = "absent" THEN "open" ELSE phases[s]]
      BY <2>5, <2>7, <2>11
    <3>2. Lifecycle!Report(s)
      BY <3>1, <2>9, <1>1 DEF Lifecycle!Report, Lifecycle!SetTries, phases, tries, TriesOf
    <3> QED BY <2>1, <3>2 DEF Lifecycle!Next
  <2> QED BY <2>4, <2>10, <2>11
<1>4. ASSUME Cleanup PROVE Lifecycle!Next
  <2> DEFINE old == {t \in TaskIds : tasks[t] # NoRow /\ Before(Age(tasks[t]), now - Retention)}
  <2>1. /\ \A t \in old : tasks'[t] = NoRow
        /\ \A t \in TaskIds \ old : tasks'[t] = tasks[t]
    BY <1>4 DEF Cleanup
  <2>2. /\ phases' = [t \in TaskIds |-> IF t \in old THEN "absent" ELSE phases[t]]
        /\ tries' = [t \in TaskIds |-> IF t \in old THEN None ELSE tries[t]]
    <3> HIDE DEF old
    <3> QED BY <2>1 DEF PhaseOf, TriesOf
  <2>3. old \in SUBSET TaskIds
    OBVIOUS
  <2> HIDE DEF old
  <2>4. \E gone \in SUBSET TaskIds : Lifecycle!Forget(gone)
    BY <2>2, <2>3 DEF Lifecycle!Forget, TriesOf
  <2> QED BY <2>4 DEF Lifecycle!Next
<1>5. CASE StoreEdge \/ IngestFails \/ Tick \/ UNCHANGED taskVars
  BY <1>2, <1>5 DEF StoreEdge, IngestFails, Tick, taskVars
<1>6. ASSUME NEW edge \in Announced, StoreTaskRelation(edge) PROVE UNCHANGED Lifecycle!vars
  BY <1>2, <1>6 DEF StoreTaskRelation
<1> QED BY <1>3, <1>4, <1>5, <1>6 DEF TasksNext

(* The task table, with its event log, its relations, its partial failures and
   its cleanup, implements the lifecycle its readers rely on. *)
THEOREM StoreImplementsLifecycle == TasksSpec => ImplementsLifecycle
<1>1. TasksInit => Lifecycle!Init
  BY DEF TasksInit, Lifecycle!Init, PhaseOf
<1>2. TasksTypeOK /\ [TasksNext]_taskVars => [Lifecycle!Next]_(Lifecycle!vars)
  BY LifecycleStep
<1> QED BY <1>1, <1>2, TypeCorrect, PTL DEF TasksSpec, ImplementsLifecycle, Lifecycle!Spec

-----------------------------------------------------------------------------
(* The graph of a task (TaskGraph), for any tasks, events and announced edges. *)

LinkColumns == LinkKinds \cup {"root"}

(* The columns of a row come from events of its task, links with a root. *)
RowFollows(t, row) ==
  row # NoRow =>
    /\ \A c \in LinkColumns :
         row.cols[c] # None => \E e \in GraphEvents : e.task = t /\ e.cols[c] = row.cols[c]
    /\ (\E k \in LinkKinds : row.cols[k] # None) => row.cols["root"] # None

(* graph is a record of the fields of NoGraph. *)
IsGraph(g) ==
  g = [pc |-> g.pc, task |-> g.task, root |-> g.root, tries |-> g.tries,
       edges |-> g.edges, nodes |-> g.nodes, states |-> g.states, due |-> g.due]

GraphShape ==
  /\ gTasks \in [TaskIds -> TaskRow \cup {NoRow}]
  /\ gRelations \subseteq Edge /\ gTodo \subseteq Edge
  /\ IsGraph(graph)
  /\ graph.pc \in {"idle", "task", "relations", "tasks", "nodes", "shown"}
  /\ graph.pc # "idle" => graph.task \in TaskIds
  /\ graph.pc \in {"relations", "tasks", "nodes", "shown"} => graph.root \in Nodes
  /\ graph.pc \in {"tasks", "nodes", "shown"} =>
       /\ graph.nodes \subseteq Nodes
       /\ graph.root \in graph.nodes /\ Ends(graph.edges) \subseteq graph.nodes

RowsFollow == \A t \in TaskIds : RowFollows(t, gTasks[t])

(* An edge due by a row is still shown by a link column of it. *)
ShownBy(d) ==
  /\ d.by \in TasksOfRoot(gTasks, graph.root)
  /\ \E k \in LinkKinds : /\ gTasks[d.by].cols[k] # None
                          /\ d.edge = ShownEdge(gTasks[d.by].cols[k], d.by, k)

(* What is due was collected already, or will be by a call to come. *)
DueSound ==
  /\ graph.pc = "relations" =>
       \A d \in graph.due : d.by = None => d.edge \in RelationEdges(gRelations, graph.root)
  /\ graph.pc = "tasks" => \A d \in graph.due : d.by = None => d.edge \in graph.edges
  /\ graph.pc \in {"relations", "tasks"} =>
       \A d \in graph.due : d.by # None => ShownBy(d)
  /\ graph.pc \in {"nodes", "shown"} => \A d \in graph.due : d.edge \in graph.edges

StatesSound ==
  graph.pc = "shown" => graph.states \in [graph.nodes -> States \cup {None}]

GraphInv == GraphShape /\ RowsFollow /\ DueSound /\ StatesSound

-----------------------------------------------------------------------------
(* An event adds to the links of a row and changes none of them. *)
LEMMA LinksStay ==
  ASSUME LinksAreStable, NEW e \in GraphEvents, NEW row \in TaskRow \cup {NoRow},
         RowFollows(e.task, row)
  PROVE  LET new == TaskRowAfter(row, e)
         IN  /\ RowFollows(e.task, new)
             /\ row # NoRow =>
                  \A c \in LinkColumns : row.cols[c] # None => new.cols[c] = row.cols[c]
<1> DEFINE new == TaskRowAfter(row, e)
<1>1. e \in TaskEvent
  BY GraphAssumption
<1>2. \/ row # NoRow /\ new.cols = row.cols
      \/ \A c \in Columns : new.cols[c] = IF e.cols[c] # None THEN e.cols[c]
                                          ELSE IF row = NoRow THEN None ELSE row.cols[c]
  BY <1>1, RowAfterCols
<1>3. LinkColumns \subseteq Columns /\ LinkKinds \subseteq LinkColumns /\ "root" \in LinkColumns
  BY DEF LinkColumns, Columns
<1>4. /\ (\E k \in LinkKinds : e.cols[k] # None) => e.cols["root"] # None
      /\ \A f \in GraphEvents, c \in LinkColumns :
           f.task = e.task /\ f.cols[c] # None /\ e.cols[c] # None => f.cols[c] = e.cols[c]
  BY DEF LinksAreStable, LinkColumns
<1> HIDE DEF new
<1>5. CASE row # NoRow /\ new.cols = row.cols
  BY <1>5 DEF RowFollows, new
<1>6. CASE \A c \in Columns : new.cols[c] = IF e.cols[c] # None THEN e.cols[c]
                                            ELSE IF row = NoRow THEN None ELSE row.cols[c]
  <2>1. \A c \in LinkColumns :
          new.cols[c] # None => \E f \in GraphEvents : f.task = e.task /\ f.cols[c] = new.cols[c]
    BY <1>3, <1>6 DEF RowFollows
  <2>2. (\E k \in LinkKinds : new.cols[k] # None) => new.cols["root"] # None
    BY <1>3, <1>4, <1>6 DEF RowFollows
  <2>3. ASSUME row # NoRow, NEW c \in LinkColumns, row.cols[c] # None
        PROVE  new.cols[c] = row.cols[c]
    BY <1>3, <1>4, <1>6, <2>3 DEF RowFollows
  <2> QED BY <2>1, <2>2, <2>3 DEF RowFollows, new
<1> QED BY <1>2, <1>5, <1>6

(* The edges a page collects join known nodes. *)
LEMMA RelationsJoinNodes ==
  ASSUME NEW R \in SUBSET Edge, NEW root \in Nodes
  PROVE  Ends(RelationEdges(R, root)) \subseteq Nodes
<1> SUFFICES ASSUME NEW r \in R
             PROVE  LET up == IF r.parent # None THEN r.parent ELSE r.root
                        e == ShownEdge(up, r.child, r.relation)
                    IN  e.source \in Nodes /\ e.target \in Nodes
  BY DEF Ends, RelationEdges
<1>1. r.root \in Nodes /\ r.child \in Nodes /\ r.parent \in Nodes \cup {None}
  BY DEF Edge, Opt
<1> QED BY <1>1 DEF ShownEdge

LEMMA ColumnsJoinNodes ==
  ASSUME NEW T \in [TaskIds -> TaskRow \cup {NoRow}], NEW root
  PROVE  Ends(ColumnEdges(T, TasksOfRoot(T, root))) \subseteq Nodes
<1> SUFFICES ASSUME NEW t \in TasksOfRoot(T, root), NEW k \in LinkKinds, T[t].cols[k] # None
             PROVE  LET e == ShownEdge(T[t].cols[k], t, k)
                    IN  e.source \in Nodes /\ e.target \in Nodes
  BY DEF Ends, ColumnEdges, RowLinks
<1>1. t \in Nodes /\ T[t] \in TaskRow
  BY RecordAssumption DEF TasksOfRoot
<1>2. T[t].cols[k] \in Nodes
  BY <1>1 DEF TaskRow, ColumnValues, Opt
<1> QED BY <1>1, <1>2 DEF ShownEdge

-----------------------------------------------------------------------------
(* The handlers of the store. *)
TableSteps ==
  /\ gRelations \subseteq gRelations'
  /\ gTasks' \in [TaskIds -> TaskRow \cup {NoRow}]
  /\ gRelations' \subseteq Edge /\ gTodo' \subseteq Edge
  /\ \A t \in TaskIds :
       \/ gTasks'[t] = gTasks[t]
       \/ gTasks'[t] = NoRow
       \/ \E e \in GraphEvents : e.task = t /\ gTasks'[t] = TaskRowAfter(gTasks[t], e)

(* TaskStore computes rows and edges as TaskRecord says. *)
LEMMA StoreRecords ==
  ASSUME NEW row, NEW e
  PROVE  Store!TaskRowAfter(row, e) = TaskRowAfter(row, e) /\ Store!EdgesOf(e) = EdgesOf(e)
<1>1. Store!TaskRowAfter(row, e) = TaskRowAfter(row, e)
  BY DEF Store!TaskRowAfter, TaskRowAfter, Store!BlankRow, BlankRow, Store!MergeRetries,
    MergeRetries, Store!ShouldPreserveState, ShouldPreserveState, Store!FinalStates, FinalStates,
    Store!WaitingStates, WaitingStates, Store!Columns, Columns, Store!LinkKinds, LinkKinds
<1>2. Store!EdgesOf(e) = EdgesOf(e)
  BY DEF Store!EdgesOf, EdgesOf, Store!LinkEdge, LinkEdge, Store!RootOf, RootOf,
    Store!LinkKinds, LinkKinds
<1> QED BY <1>1, <1>2

LEMMA EventEdges ==
  ASSUME NEW e \in TaskEvent
  PROVE  EdgesOf(e) \subseteq Edge
<1> SUFFICES ASSUME NEW k \in LinkKinds, e.cols[k] # None
             PROVE  LinkEdge(e.task, e.cols, k) \in Edge
  BY DEF EdgesOf
<1>1. e.task \in Nodes /\ e.cols \in ColumnValues
  BY RecordAssumption DEF TaskEvent
<1>2. e.cols[k] \in Opt(Nodes) /\ RootOf(e.task, e.cols) \in Nodes
  BY <1>1 DEF ColumnValues, RootOf, Opt
<1> QED BY <1>1, <1>2 DEF LinkEdge, Edge

LEMMA StoreSteps ==
  ASSUME GraphShape, StoreStep
  PROVE  /\ TableSteps
         /\ graph' # NoGraph =>
              /\ graph.pc # "shown"
              /\ \/ graph' = graph /\ \A t \in TaskIds : gTasks[t] # NoRow => gTasks'[t] # NoRow
                 \/ graph' = [graph EXCEPT !.due = {d \in @ : d.by = None \/ gTasks'[d.by] # NoRow}]
<1>1. ASSUME NEW e \in GraphEvents, Store!StoreTaskEvent(e)
      PROVE  TableSteps /\ \A t \in TaskIds : gTasks[t] # NoRow => gTasks'[t] # NoRow
  <2>1. e \in TaskEvent /\ e.task \in TaskIds
    BY GraphAssumption DEF TaskEvent
  <2>2. /\ gTasks' = [gTasks EXCEPT ![e.task] = TaskRowAfter(gTasks[e.task], e)]
        /\ gRelations' = gRelations /\ gTodo' = EdgesOf(e)
    BY <1>1, StoreRecords DEF Store!StoreTaskEvent
  <2>3. gTasks[e.task] \in TaskRow \cup {NoRow}
    BY <2>1 DEF GraphShape
  <2>4. TaskRowAfter(gTasks[e.task], e) \in TaskRow /\ TaskRowAfter(gTasks[e.task], e) # NoRow
    BY <2>1, <2>3, RowAfterTyped
  <2>5. gTodo' \subseteq Edge
    BY <2>1, <2>2, EventEdges
  <2> QED BY <2>1, <2>2, <2>4, <2>5 DEF GraphShape, TableSteps
<1>2. ASSUME Store!StoreEdge \/ Store!IngestFails
      PROVE  TableSteps /\ gTasks' = gTasks
  BY <1>2 DEF Store!StoreEdge, Store!IngestFails, GraphShape, TableSteps
<1>3. ASSUME NEW edge \in GraphEdges, Store!StoreTaskRelation(edge)
      PROVE  TableSteps /\ gTasks' = gTasks
  BY <1>3, GraphAssumption DEF Store!StoreTaskRelation, GraphShape, TableSteps
<1>4. ASSUME Store!Cleanup PROVE TableSteps
  <2>1. /\ gTasks' = [t \in TaskIds |->
                        IF /\ gTasks[t] # NoRow
                           /\ Store!Before(Store!Age(gTasks[t]), gNow - GraphRetention)
                        THEN NoRow ELSE gTasks[t]]
        /\ gRelations' = gRelations /\ gTodo' = gTodo
    BY <1>4 DEF Store!Cleanup
  <2> QED BY <2>1 DEF GraphShape, TableSteps
<1> QED BY <1>1, <1>2, <1>3, <1>4 DEF StoreStep

LEMMA EdgesMonotone ==
  ASSUME NEW R, NEW S, R \subseteq S, NEW root
  PROVE  RelationEdges(R, root) \subseteq RelationEdges(S, root)
  BY DEF RelationEdges

LEMMA StoreKeepsGraph ==
  ASSUME LinksAreStable, GraphInv, StoreStep
  PROVE  GraphInv'
<1>1. TableSteps
  BY StoreSteps DEF GraphInv
<1>2. RowsFollow'
  <2> SUFFICES ASSUME NEW t \in TaskIds PROVE RowFollows(t, gTasks'[t])
    BY DEF RowsFollow
  <2>1. RowFollows(t, gTasks[t]) /\ gTasks[t] \in TaskRow \cup {NoRow}
    BY DEF GraphInv, RowsFollow, GraphShape
  <2>2. CASE gTasks'[t] = gTasks[t]
    BY <2>1, <2>2
  <2>3. CASE gTasks'[t] = NoRow
    BY <2>3 DEF RowFollows
  <2>4. ASSUME NEW e \in GraphEvents, e.task = t, gTasks'[t] = TaskRowAfter(gTasks[t], e)
        PROVE  RowFollows(t, gTasks'[t])
    BY <2>1, <2>4, LinksStay
  <2> QED BY <1>1, <2>2, <2>3, <2>4 DEF TableSteps
<1>3. CASE graph' = NoGraph
  <2>1. GraphShape'
    BY <1>1, <1>3 DEF GraphShape, TableSteps, NoGraph, IsGraph
  <2>2. DueSound' /\ StatesSound'
    BY <1>3 DEF DueSound, StatesSound, NoGraph
  <2> QED BY <1>2, <2>1, <2>2 DEF GraphInv
<1>4. CASE graph' # NoGraph
  <2>1. /\ graph.pc # "shown"
        /\ \/ graph' = graph /\ \A t \in TaskIds : gTasks[t] # NoRow => gTasks'[t] # NoRow
           \/ graph' = [graph EXCEPT !.due = {d \in @ : d.by = None \/ gTasks'[d.by] # NoRow}]
    BY <1>4, StoreSteps DEF GraphInv
  <2>2. IsGraph(graph)
    BY DEF GraphInv, GraphShape
  <2>3. /\ graph'.pc = graph.pc /\ graph'.task = graph.task /\ graph'.root = graph.root
        /\ graph'.edges = graph.edges /\ graph'.nodes = graph.nodes
        /\ graph'.due \subseteq graph.due
        /\ IsGraph(graph')
    BY <2>1, <2>2 DEF IsGraph
  <2>4. GraphShape'
    BY <1>1, <2>3 DEF GraphInv, GraphShape, TableSteps
  <2>5. ASSUME NEW d \in graph'.due, d.by # None, ShownBy(d), graph.root \in Nodes
        PROVE  ShownBy(d)'
    <3> DEFINE t == d.by
               row == gTasks[t]
               new == gTasks'[t]
    <3>1. t \in TaskIds /\ row # NoRow /\ row.cols["root"] = graph.root
      BY <2>5 DEF ShownBy, TasksOfRoot
    <3>2. PICK k \in LinkKinds : row.cols[k] # None /\ d.edge = ShownEdge(row.cols[k], t, k)
      BY <2>5 DEF ShownBy
    <3>3. row \in TaskRow \cup {NoRow} /\ RowFollows(t, row) /\ graph.root # None
      BY <2>5, <3>1, RecordAssumption DEF GraphInv, RowsFollow, GraphShape
    <3>4. new # NoRow
      BY <2>1, <2>2, <2>5, <3>1 DEF IsGraph
    <3>5. new.cols["root"] = graph.root /\ new.cols[k] = row.cols[k]
      <4>1. CASE new = row
        BY <3>1, <4>1
      <4>2. ASSUME NEW e \in GraphEvents, e.task = t, new = TaskRowAfter(row, e)
            PROVE  new.cols["root"] = graph.root /\ new.cols[k] = row.cols[k]
        <5>1. \A c \in LinkColumns :
                row.cols[c] # None => TaskRowAfter(row, e).cols[c] = row.cols[c]
          BY <3>1, <3>3, <4>2, LinksStay
        <5> QED BY <3>1, <3>2, <3>3, <4>2, <5>1 DEF LinkColumns
      <4> QED BY <1>1, <3>1, <3>4, <4>1, <4>2 DEF TableSteps
    <3> HIDE DEF t, row, new
    <3>6. t \in TasksOfRoot(gTasks', graph'.root)
      BY <2>3, <3>1, <3>4, <3>5 DEF TasksOfRoot, new
    <3> QED BY <3>2, <3>5, <3>6 DEF ShownBy, t, row, new
  <2>6. DueSound'
    <3>1. ASSUME graph.pc = "relations", NEW d \in graph'.due, d.by = None
          PROVE  d.edge \in RelationEdges(gRelations', graph'.root)
      BY <1>1, <2>3, <3>1, EdgesMonotone DEF GraphInv, DueSound, TableSteps
    <3>2. ASSUME graph.pc \in {"relations", "tasks"}, NEW d \in graph'.due, d.by # None
          PROVE  ShownBy(d)'
      <4>1. ShownBy(d) /\ graph.root \in Nodes
        BY <2>3, <3>2 DEF GraphInv, DueSound, GraphShape
      <4> QED BY <2>5, <3>2, <4>1
    <3>3. graph.pc = "tasks" => \A d \in graph'.due : d.by = None => d.edge \in graph'.edges
      BY <2>3 DEF GraphInv, DueSound
    <3>4. graph.pc \in {"nodes", "shown"} => \A d \in graph'.due : d.edge \in graph'.edges
      BY <2>3 DEF GraphInv, DueSound
    <3> QED BY <2>3, <3>1, <3>2, <3>3, <3>4 DEF DueSound
  <2>7. StatesSound'
    BY <2>1, <2>3 DEF StatesSound
  <2> QED BY <1>2, <2>4, <2>6, <2>7 DEF GraphInv
<1> QED BY <1>3, <1>4

(* The calls of a page. *)
LEMMA PageKeepsGraph ==
  ASSUME LinksAreStable, GraphInv,
         \/ \E t \in TaskIds : OpenGraph(t)
         \/ GetTask \/ GetTaskRelations \/ GetTasksOfRoot \/ GetNodes
  PROVE  GraphInv'
<1>1. UNCHANGED storeVars
  BY DEF OpenGraph, GetTask, GetTaskRelations, GetTasksOfRoot, GetNodes
<1>2. gTasks' = gTasks /\ gRelations' = gRelations /\ gTodo' = gTodo
  BY <1>1 DEF storeVars
<1>3. RowsFollow'
  BY <1>2 DEF GraphInv, RowsFollow
<1>4. /\ gTasks \in [TaskIds -> TaskRow \cup {NoRow}]
      /\ gRelations \in SUBSET Edge /\ gTodo \subseteq Edge
      /\ IsGraph(graph)
  BY DEF GraphInv, GraphShape
<1>5. ASSUME NEW t \in TaskIds, OpenGraph(t) PROVE GraphInv'
  <2>1. graph' = [NoGraph EXCEPT !.pc = "task", !.task = t]
    BY <1>5 DEF OpenGraph
  <2>2. GraphShape'
    BY <1>2, <1>4, <2>1 DEF GraphShape, IsGraph, NoGraph
  <2>3. DueSound' /\ StatesSound'
    BY <2>1 DEF DueSound, StatesSound, NoGraph
  <2> QED BY <1>3, <2>2, <2>3 DEF GraphInv
<1>6. CASE GetTask
  <2> DEFINE row == gTasks[graph.task]
             root == RootOf(graph.task, row.cols)
  <2>1. CASE row = NoRow
    <3>1. graph' = NoGraph
      BY <1>6, <2>1 DEF GetTask
    <3>2. GraphShape'
      BY <1>2, <1>4, <3>1 DEF GraphShape, IsGraph, NoGraph
    <3>3. DueSound' /\ StatesSound'
      BY <3>1 DEF DueSound, StatesSound, NoGraph
    <3> QED BY <1>3, <3>2, <3>3 DEF GraphInv
  <2>2. CASE row # NoRow
    <3>1. /\ graph.pc = "task" /\ graph.task \in TaskIds
          /\ graph' = [graph EXCEPT !.pc = "relations", !.root = root,
                                    !.due = Due(gRelations, gTasks, root)]
      BY <1>6, <2>2 DEF GetTask, GraphInv, GraphShape
    <3>2. root \in Nodes
      <4>1. row \in TaskRow /\ graph.task \in Nodes
        BY <1>4, <2>2, <3>1, RecordAssumption
      <4>2. row.cols["root"] \in Opt(Nodes)
        BY <4>1 DEF TaskRow, ColumnValues
      <4> QED BY <4>1, <4>2 DEF RootOf, Opt
    <3> HIDE DEF root
    <3>3. /\ graph'.pc = "relations" /\ graph'.root = root /\ graph'.task = graph.task
          /\ graph'.due = Due(gRelations, gTasks, root)
          /\ IsGraph(graph')
      BY <1>4, <3>1 DEF IsGraph
    <3>4. GraphShape'
      BY <1>2, <1>4, <3>1, <3>2, <3>3 DEF GraphShape
    <3>5. ASSUME NEW d \in Due(gRelations, gTasks, root)
          PROVE  /\ d.by = None => d.edge \in RelationEdges(gRelations, root)
                 /\ d.by # None =>
                      /\ d.by \in TasksOfRoot(gTasks, root)
                      /\ \E k \in LinkKinds : /\ gTasks[d.by].cols[k] # None
                                              /\ d.edge = ShownEdge(gTasks[d.by].cols[k], d.by, k)
      <4>1. CASE d \in {[edge |-> e, by |-> None] : e \in RelationEdges(gRelations, root)}
        BY <4>1
      <4>2. ASSUME NEW e \in RowLinks(gTasks, TasksOfRoot(gTasks, root)),
                   d = [edge |-> e, by |-> e.target]
            PROVE  /\ d.by \in TaskIds /\ d.by \in TasksOfRoot(gTasks, root)
                   /\ \E k \in LinkKinds : /\ gTasks[d.by].cols[k] # None
                                           /\ d.edge = ShownEdge(gTasks[d.by].cols[k], d.by, k)
        <5>1. PICK t \in TasksOfRoot(gTasks, root), k \in LinkKinds :
                gTasks[t].cols[k] # None /\ e = ShownEdge(gTasks[t].cols[k], t, k)
          BY DEF RowLinks
        <5>2. e.target = t /\ d.by = t /\ d.edge = e
          BY <4>2, <5>1 DEF ShownEdge
        <5> QED BY <5>1, <5>2 DEF TasksOfRoot
      <4>3. None \notin TaskIds
        BY RecordAssumption
      <4> QED BY <4>1, <4>2, <4>3 DEF Due
    <3>6. DueSound'
      BY <1>2, <3>3, <3>5 DEF DueSound, ShownBy
    <3>7. StatesSound'
      BY <3>3 DEF StatesSound
    <3> QED BY <1>3, <3>4, <3>6, <3>7 DEF GraphInv
  <2> QED BY <2>1, <2>2
<1>7. CASE GetTaskRelations
  <2> DEFINE new == RelationEdges(gRelations, graph.root)
  <2>1. /\ graph.pc = "relations" /\ graph.root \in Nodes /\ graph.task \in TaskIds
        /\ graph' = [graph EXCEPT !.pc = "tasks", !.edges = new,
                                  !.nodes = {graph.root} \cup Ends(new)]
    BY <1>7 DEF GetTaskRelations, GraphInv, GraphShape
  <2>2. Ends(new) \subseteq Nodes
    BY <1>4, <2>1, RelationsJoinNodes
  <2> HIDE DEF new
  <2>3. /\ graph'.pc = "tasks" /\ graph'.root = graph.root /\ graph'.due = graph.due
        /\ graph'.task = graph.task
        /\ graph'.edges = new /\ graph'.nodes = {graph.root} \cup Ends(new)
        /\ IsGraph(graph')
    BY <1>4, <2>1 DEF IsGraph
  <2>4. GraphShape'
    BY <1>2, <1>4, <2>1, <2>2, <2>3 DEF GraphShape
  <2>5. \A d \in graph.due : d.by = None => d.edge \in new
    BY <2>1 DEF GraphInv, DueSound, new
  <2>6. \A d \in graph.due : d.by # None => ShownBy(d)
    BY <2>1 DEF GraphInv, DueSound
  <2>7. \A d \in graph.due : d.by # None => ShownBy(d)'
    BY <1>2, <2>3, <2>6 DEF ShownBy
  <2>8. DueSound'
    BY <2>3, <2>5, <2>7 DEF DueSound
  <2>9. StatesSound'
    BY <2>3 DEF StatesSound
  <2> QED BY <1>3, <2>4, <2>8, <2>9 DEF GraphInv
<1>8. CASE GetTasksOfRoot
  <2> DEFINE found == TasksOfRoot(gTasks, graph.root)
             new == ColumnEdges(gTasks, found)
  <2>1. /\ graph.pc = "tasks" /\ graph.root \in Nodes /\ graph.task \in TaskIds
        /\ graph.nodes \subseteq Nodes /\ graph.root \in graph.nodes
        /\ Ends(graph.edges) \subseteq graph.nodes
        /\ graph' = [graph EXCEPT !.pc = "nodes", !.edges = graph.edges \cup new,
                                  !.nodes = graph.nodes \cup found \cup Ends(new)]
    BY <1>8 DEF GetTasksOfRoot, GraphInv, GraphShape
  <2>2. Ends(new) \subseteq Nodes /\ found \subseteq Nodes
    BY <1>4, ColumnsJoinNodes, RecordAssumption DEF TasksOfRoot
  <2>3. ASSUME NEW d \in graph.due PROVE d.edge \in graph.edges \cup new
    <3>1. CASE d.by = None
      BY <2>1, <3>1 DEF GraphInv, DueSound
    <3>2. CASE d.by # None
      BY <2>1, <3>2 DEF GraphInv, DueSound, ShownBy, ColumnEdges, RowLinks
    <3> QED BY <3>1, <3>2
  <2> HIDE DEF new, found
  <2>4. /\ graph'.pc = "nodes" /\ graph'.root = graph.root /\ graph'.due = graph.due
        /\ graph'.task = graph.task
        /\ graph'.edges = graph.edges \cup new
        /\ graph'.nodes = graph.nodes \cup found \cup Ends(new)
        /\ IsGraph(graph')
    BY <1>4, <2>1 DEF IsGraph
  <2>5. Ends(graph'.edges) = Ends(graph.edges) \cup Ends(new)
    BY <2>4 DEF Ends
  <2>6. GraphShape'
    BY <1>2, <1>4, <2>1, <2>2, <2>4, <2>5 DEF GraphShape
  <2>7. DueSound' /\ StatesSound'
    BY <2>3, <2>4 DEF DueSound, StatesSound
  <2> QED BY <1>3, <2>6, <2>7 DEF GraphInv
<1>9. CASE GetNodes
  <2>1. CASE EdgesMissing
    <3>1. /\ graph.pc = "nodes" /\ graph.task \in TaskIds
          /\ graph' = [NoGraph EXCEPT !.pc = "task", !.task = graph.task,
                                      !.tries = graph.tries + 1]
      BY <1>9, <2>1 DEF GetNodes, GraphInv, GraphShape
    <3>2. GraphShape'
      BY <1>2, <1>4, <3>1 DEF GraphShape, IsGraph, NoGraph
    <3>3. DueSound' /\ StatesSound'
      BY <3>1 DEF DueSound, StatesSound, NoGraph
    <3> QED BY <1>3, <3>2, <3>3 DEF GraphInv
  <2>2. CASE ~EdgesMissing
    <3>1. /\ graph.pc = "nodes"
          /\ graph' = [graph EXCEPT !.pc = "shown",
                                    !.states = [n \in graph.nodes |-> StateOf(n)]]
      BY <1>9, <2>2 DEF GetNodes
    <3>2. /\ graph'.pc = "shown" /\ graph'.root = graph.root /\ graph'.due = graph.due
          /\ graph'.edges = graph.edges /\ graph'.nodes = graph.nodes
          /\ graph'.states = [n \in graph.nodes |-> StateOf(n)]
          /\ IsGraph(graph')
      BY <1>4, <3>1 DEF IsGraph
    <3>3. GraphShape'
      BY <1>2, <3>1, <3>2 DEF GraphInv, GraphShape
    <3>4. DueSound'
      BY <3>1, <3>2 DEF GraphInv, DueSound
    <3>5. \A n : StateOf(n) \in States \cup {None}
      BY <1>4 DEF StateOf, TaskRow
    <3>6. StatesSound'
      BY <3>2, <3>5 DEF StatesSound
    <3> QED BY <1>3, <3>3, <3>4, <3>6 DEF GraphInv
  <2> QED BY <2>1, <2>2
<1> QED BY <1>5, <1>6, <1>7, <1>8, <1>9

LEMMA TwoCounts ==
  ASSUME NEW A, NEW B, IsFiniteSet(A), IsFiniteSet(B), A \cap B = {}
  PROVE  /\ IsFiniteSet(A \cup B)
         /\ Cardinality(A \cup B) = Cardinality(A) + Cardinality(B)
         /\ Cardinality(A) \in Nat /\ Cardinality(B) \in Nat
<1>1. /\ IsFiniteSet(A \cup B)
      /\ Cardinality(A \cup B) = Cardinality(A) + Cardinality(B) - Cardinality(A \cap B)
  BY FS_Union
<1>2. Cardinality(A) \in Nat /\ Cardinality(B) \in Nat /\ Cardinality(A \cap B) = 0
  BY FS_CardinalityType, FS_EmptySet
<1> QED BY <1>1, <1>2

(* What a page counts: six kinds of states, no two for one node. *)
LEMMA CountsAddUp ==
  ASSUME NEW N, IsFiniteSet(N), NEW states \in [N -> States \cup {None}]
  PROVE  LET counts == StateCounts(states)
         IN  counts["total"] =
               counts["pending"] + counts["running"] + counts["retry"] + counts["success"]
                 + counts["failure"] + counts["revoked"]
                 + Cardinality({n \in N : states[n] = "REJECTED"})
<1> DEFINE known == {n \in N : states[n] # None}
           having(b) == {n \in known : states[n] \in DOMAIN Bucket /\ Bucket[states[n]] = b}
           rejected == {n \in N : states[n] = "REJECTED"}
           counts == StateCounts(states)
           kinds == {"pending", "running", "retry", "success", "failure", "revoked"}
<1>1. {Bucket[s] : s \in DOMAIN Bucket} = kinds
  BY DEF Bucket
<1>2. /\ counts["total"] = Cardinality(known)
      /\ \A b \in kinds : counts[b] = Cardinality(having(b))
  BY <1>1 DEF StateCounts
<1>3. DOMAIN states = N /\ DOMAIN Bucket = States \ {"REJECTED"}
  BY DEF Bucket, States, FinalStates, WaitingStates
<1>4. /\ IsFiniteSet(known) /\ IsFiniteSet(rejected)
      /\ \A b \in kinds : IsFiniteSet(having(b))
  <2>1. known \subseteq N /\ rejected \subseteq N /\ \A b : having(b) \subseteq N
    BY <1>3
  <2> QED BY <2>1, FS_Subset
<1> DEFINE with2 == having("pending") \cup having("running")
           with3 == with2 \cup having("retry")
           with4 == with3 \cup having("success")
           with5 == with4 \cup having("failure")
           with6 == with5 \cup having("revoked")
<1>5. known = with6 \cup rejected
  <2>1. ASSUME NEW n \in known PROVE n \in with6 \cup rejected
    <3>1. states[n] \in States
      OBVIOUS
    <3>2. CASE states[n] = "REJECTED"
      BY <3>2
    <3>3. CASE states[n] # "REJECTED"
      <4>1. states[n] \in DOMAIN Bucket
        BY <1>3, <3>1, <3>3
      <4>2. Bucket[states[n]] \in kinds
        BY <1>1, <4>1
      <4> QED BY <4>1, <4>2
    <3> QED BY <3>2, <3>3
  <2>2. rejected \subseteq known
    BY GraphAssumption DEF States
  <2> QED BY <2>1, <2>2
<1>6. /\ \A b, c \in kinds : b # c => having(b) \cap having(c) = {}
      /\ \A b \in kinds : having(b) \cap rejected = {}
  BY <1>3
<1> HIDE DEF known, having, rejected
<1>7. /\ IsFiniteSet(with2)
      /\ Cardinality(with2) = Cardinality(having("pending")) + Cardinality(having("running"))
      /\ Cardinality(having("pending")) \in Nat /\ Cardinality(having("running")) \in Nat
  BY <1>4, <1>6, TwoCounts
<1>8. /\ IsFiniteSet(with3) /\ Cardinality(having("retry")) \in Nat
      /\ Cardinality(with3) = Cardinality(with2) + Cardinality(having("retry"))
  <2>1. with2 \cap having("retry") = {} /\ IsFiniteSet(having("retry"))
    BY <1>4, <1>6
  <2> QED BY <1>7, <2>1, TwoCounts
<1>9. /\ IsFiniteSet(with4) /\ Cardinality(having("success")) \in Nat
      /\ Cardinality(with4) = Cardinality(with3) + Cardinality(having("success"))
  <2>1. with3 \cap having("success") = {} /\ IsFiniteSet(having("success"))
    BY <1>4, <1>6
  <2> QED BY <1>8, <2>1, TwoCounts
<1>10. /\ IsFiniteSet(with5) /\ Cardinality(having("failure")) \in Nat
       /\ Cardinality(with5) = Cardinality(with4) + Cardinality(having("failure"))
  <2>1. with4 \cap having("failure") = {} /\ IsFiniteSet(having("failure"))
    BY <1>4, <1>6
  <2> QED BY <1>9, <2>1, TwoCounts
<1>11. /\ IsFiniteSet(with6) /\ Cardinality(having("revoked")) \in Nat
       /\ Cardinality(with6) = Cardinality(with5) + Cardinality(having("revoked"))
  <2>1. with5 \cap having("revoked") = {} /\ IsFiniteSet(having("revoked"))
    BY <1>4, <1>6
  <2> QED BY <1>10, <2>1, TwoCounts
<1>12. /\ Cardinality(rejected) \in Nat
       /\ Cardinality(known) = Cardinality(with6) + Cardinality(rejected)
  <2>1. with6 \cap rejected = {}
    BY <1>6
  <2> QED BY <1>4, <1>5, <1>11, <2>1, TwoCounts
<1>13. Cardinality(known) =
         Cardinality(having("pending")) + Cardinality(having("running"))
           + Cardinality(having("retry")) + Cardinality(having("success"))
           + Cardinality(having("failure")) + Cardinality(having("revoked"))
           + Cardinality(rejected)
  <2> HIDE DEF with2, with3, with4, with5, with6
  <2> QED BY <1>7, <1>8, <1>9, <1>10, <1>11, <1>12
<1> QED BY <1>2, <1>13 DEF rejected

LEMMA GraphInvHolds == LinksAreStable => (GraphSpec => []GraphInv)
<1> SUFFICES ASSUME LinksAreStable PROVE GraphSpec => []GraphInv
  OBVIOUS
<1>1. GraphInit => GraphInv
  BY DEF GraphInit, GraphInv, GraphShape, RowsFollow, RowFollows, DueSound, StatesSound,
    NoGraph, IsGraph
<1>2. GraphInv /\ UNCHANGED graphVars => GraphInv'
  <2> SUFFICES ASSUME GraphInv, UNCHANGED graphVars PROVE GraphInv'
    OBVIOUS
  <2>1. gTasks' = gTasks /\ gRelations' = gRelations /\ gTodo' = gTodo /\ graph' = graph
    BY DEF graphVars, storeVars
  <2>2. GraphShape' /\ RowsFollow' /\ StatesSound'
    BY <2>1 DEF GraphInv, GraphShape, RowsFollow, StatesSound
  <2>3. DueSound'
    BY <2>1 DEF GraphInv, DueSound, ShownBy
  <2> QED BY <2>2, <2>3 DEF GraphInv
<1>3. GraphInv /\ [GraphNext]_graphVars => GraphInv'
  BY <1>2, StoreKeepsGraph, PageKeepsGraph DEF GraphNext
<1> QED BY <1>1, <1>3, PTL DEF GraphSpec

(* A graph that is shown has every link that was stored when it was read,
   and every neighbour the detail page names is in it. *)
THEOREM GraphLeavesNothingOut == LinksAreStable => (GraphSpec => []GraphShowsStored)
<1> SUFFICES ASSUME LinksAreStable PROVE GraphSpec => []GraphShowsStored
  OBVIOUS
<1>1. ASSUME GraphInv, graph.pc = "shown"
      PROVE  /\ {d.edge : d \in graph.due} \subseteq graph.edges
             /\ Ends(graph.edges) \subseteq graph.nodes
             /\ graph.root \in graph.nodes
             /\ LET counts == StateCounts(graph.states)
                IN  counts["total"] =
                      counts["pending"] + counts["running"] + counts["retry"] + counts["success"]
                        + counts["failure"] + counts["revoked"]
                        + Cardinality({n \in graph.nodes : graph.states[n] = "REJECTED"})
  <2>1. /\ graph.nodes \in SUBSET Nodes /\ graph.states \in [graph.nodes -> States \cup {None}]
        /\ graph.root \in graph.nodes /\ Ends(graph.edges) \subseteq graph.nodes
        /\ \A d \in graph.due : d.edge \in graph.edges
    BY <1>1 DEF GraphInv, GraphShape, DueSound, StatesSound
  <2>2. IsFiniteSet(graph.nodes)
    BY <2>1, GraphAssumption, FS_Subset
  <2> QED BY <2>1, <2>2, CountsAddUp
<1>2. ASSUME GraphInv, NEW t \in TaskIds, gTasks[t] # NoRow
      PROVE  LET edges == GraphEdgesOf(gRelations, gTasks, RootOf(t, gTasks[t].cols))
             IN  /\ \A c \in ChildIds(t) : \E e \in edges : e.source = t /\ e.target = c
                 /\ \A p \in ParentIds(t) \ {t} : \E e \in edges : e.source = p /\ e.target = t
  <2> DEFINE cols == gTasks[t].cols
             root == RootOf(t, cols)
             shown == GraphEdgesOf(gRelations, gTasks, root)
  <2>1. ASSUME NEW r \in gRelations, r.root = root, r.parent # None
        PROVE  \E e \in shown : e.source = r.parent /\ e.target = r.child
    <3>1. ShownEdge(r.parent, r.child, r.relation) \in shown
      BY <2>1 DEF GraphEdgesOf, RelationEdges
    <3> QED BY <3>1 DEF ShownEdge
  <2>2. \A c \in ChildIds(t) : \E e \in shown : e.source = t /\ e.target = c
    <3> SUFFICES ASSUME NEW r \in gRelations, r.root = root, r.parent = t
                 PROVE  \E e \in shown : e.source = t /\ e.target = r.child
      BY DEF ChildIds, RelationsOf
    <3>1. t # None
      BY RecordAssumption
    <3> QED BY <2>1, <3>1
  <2>3. ASSUME cols["parent"] # None
        PROVE  \E e \in shown : e.source = cols["parent"] /\ e.target = t
    <3>1. cols["root"] # None
      BY <1>2, <2>3 DEF GraphInv, RowsFollow, RowFollows, LinkKinds
    <3>2. t \in TasksOfRoot(gTasks, root)
      BY <1>2, <3>1 DEF TasksOfRoot, RootOf
    <3>3. ShownEdge(cols["parent"], t, "parent") \in shown
      BY <2>3, <3>2 DEF GraphEdgesOf, ColumnEdges, RowLinks, LinkKinds
    <3> QED BY <3>3 DEF ShownEdge
  <2>4. \A p \in ParentIds(t) \ {t} : \E e \in shown : e.source = p /\ e.target = t
    <3> SUFFICES ASSUME NEW p \in ParentIds(t), p # t
                 PROVE  \E e \in shown : e.source = p /\ e.target = t
      OBVIOUS
    <3>1. CASE cols["parent"] # None
      BY <2>3, <3>1 DEF ParentIds
    <3>2. CASE cols["parent"] = None
      <4>1. \E r \in gRelations : r.root = root /\ r.child = t /\ r.parent # None /\ r.parent = p
        BY <3>2 DEF ParentIds, RelationsOf
      <4> QED BY <2>1, <4>1
    <3> QED BY <3>1, <3>2
  <2> QED BY <2>2, <2>4
<1>3. GraphInv => GraphShowsStored
  BY <1>1, <1>2 DEF GraphShowsStored
<1> QED BY <1>3, GraphInvHolds, PTL

-----------------------------------------------------------------------------
(* Smart retry: it comes to its end. *)

RetryTyped == queue \in Seq(GraphIds) /\ order \in Seq(GraphIds)

LEMMA AnyOrderTyped ==
  ASSUME NEW S \in SUBSET GraphIds, NEW new \in SetToSeqs(S)
  PROVE  new \in Seq(GraphIds)
<1>1. IsFiniteSet(S)
  BY RetryAssumption, FS_Subset
<1>2. Cardinality(S) \in Nat
  BY <1>1, FS_CardinalityType
<1>3. new \in [1 .. Cardinality(S) -> GraphIds]
  BY DEF SetToSeqs
<1> QED BY <1>2, <1>3

LEMMA AdjacencyTyped ==
  ASSUME NEW id, NEW seen, NEW children \in Adjacency(id, seen)
  PROVE  children \in Seq(GraphIds)
<1> DEFINE new == Children(id) \ seen
           again == {c \in new : <<id, c>> \in doubled}
<1>1. new \in SUBSET GraphIds /\ again \in SUBSET GraphIds
  BY DEF Children
<1>2. Adjacency(id, seen) = {s \o t : s \in SetToSeqs(new), t \in SetToSeqs(again)}
  BY DEF Adjacency
<1> HIDE DEF new, again
<1>3. PICK s \in SetToSeqs(new), t \in SetToSeqs(again) : children = s \o t
  BY <1>2
<1>4. s \in Seq(GraphIds) /\ t \in Seq(GraphIds)
  BY <1>1, <1>3, AnyOrderTyped
<1> QED BY <1>3, <1>4

(* What a turn of the walk does to queue and visited set. *)
LEMMA VisitTurn ==
  ASSUME RetryTyped, Visit
  PROVE  /\ RetryTyped' /\ phase = "walk" /\ phase' = "walk"
         /\ visited \subseteq visited'
         /\ visited' # visited \/ Len(queue') < Len(queue)
<1> DEFINE node == Head(queue)
<1>1. /\ phase = "walk" /\ phase' = "walk" /\ queue # <<>>
      /\ queue \in Seq(GraphIds) /\ order \in Seq(GraphIds) /\ node \in GraphIds
  BY DEF Visit, RetryTyped
<1>2. Tail(queue) \in Seq(GraphIds) /\ Len(Tail(queue)) < Len(queue)
  BY <1>1
<1>3. CASE node \in visited
  <2>1. queue' = Tail(queue) /\ visited' = visited /\ order' = order
    BY <1>3 DEF Visit
  <2> QED BY <1>1, <1>2, <2>1 DEF RetryTyped
<1>4. CASE node \notin visited
  <2>1. visited' = visited \cup {node} /\ order' = Append(order, node)
    BY <1>4 DEF Visit
  <2>2. PICK children \in Adjacency(node, visited') : queue' = Tail(queue) \o children
    BY <1>4 DEF Visit
  <2>3. children \in Seq(GraphIds)
    BY <2>2, AdjacencyTyped
  <2>4. queue' \in Seq(GraphIds) /\ order' \in Seq(GraphIds)
    BY <1>1, <1>2, <2>1, <2>2, <2>3
  <2> QED BY <1>1, <1>4, <2>1, <2>4 DEF RetryTyped
<1> QED BY <1>3, <1>4

(* A retry ends: every turn of the walk visits a new id or shortens the queue,
   every turn of the sending leaves less to send, and neither phase comes again. *)
THEOREM RetriesEnd == RetrySpec => RetryEnds
<1>1. RetryInit => RetryTyped
  BY RetryAssumption DEF RetryInit, RetryTyped
<1>2. RetryTyped /\ [RetryNext]_retryVars => RetryTyped'
  <2> SUFFICES ASSUME RetryTyped, [RetryNext]_retryVars PROVE RetryTyped'
    OBVIOUS
  <2>1. CASE Visit
    BY <2>1, VisitTurn
  <2>2. CASE EndWalk \/ EndRetry \/ UNCHANGED retryVars
    BY <2>2 DEF EndWalk, EndRetry, retryVars, RetryTyped
  <2>3. CASE NextTask
    BY <2>3 DEF NextTask, RetryTyped
  <2> QED BY <2>1, <2>2, <2>3 DEF RetryNext
<1> DEFINE Halt == \/ /\ phase = "walk" /\ phase' = "walk"
                      /\ visited \subseteq visited'
                      /\ visited' # visited \/ Len(queue') < Len(queue)
                   \/ phase = "walk" /\ phase' = "send"
                   \/ phase = "send" /\ phase' = "send" /\ Len(order') < Len(order)
                   \/ phase = "send" /\ phase' \in {"done", "raised"}
<1>3. RetryTyped /\ [RetryNext]_retryVars => [Halt]_retryVars
  <2> SUFFICES ASSUME RetryTyped, RetryNext PROVE Halt
    OBVIOUS
  <2>1. CASE Visit
    BY <2>1, VisitTurn
  <2>2. CASE NextTask
    <3>1. order \in Seq(GraphIds) /\ order # <<>> /\ order' = Tail(order)
          /\ phase = "send" /\ phase' \in {"send", "raised"}
      BY <2>2 DEF NextTask, RetryTyped
    <3>2. Len(order') < Len(order)
      BY <3>1
    <3> QED BY <3>1, <3>2
  <2>3. CASE EndWalk \/ EndRetry
    BY <2>3 DEF EndWalk, EndRetry
  <2> QED BY <2>1, <2>2, <2>3 DEF RetryNext
<1> QED BY <1>1, <1>2, <1>3, PTL DEF RetrySpec, RetryEnds

-----------------------------------------------------------------------------
(* Induction over an interval, on the set of numbers for which a claim holds: the
   least number it fails for would follow one it holds for. *)
LEMMA LeastNat ==
  ASSUME NEW T \in SUBSET Nat, T # {}
  PROVE  \E n \in T : \A m \in T : n <= m
<1> DEFINE R == OpToRel(<, Nat)
<1>1. IsWellFoundedOn(R, Nat)
  BY NatLessThanWellFounded
<1>2. \A m, n \in Nat : m < n => <<m, n>> \in R
  BY DEF OpToRel
<1> HIDE DEF R
<1>3. PICK n \in T : \A m \in T : ~(<<m, n>> \in R)
  BY <1>1, WFMin
<1>4. ASSUME NEW m \in T PROVE n <= m
  <2>1. m \in Nat /\ n \in Nat
    OBVIOUS
  <2>2. ~(m < n)
    BY <1>2, <1>3, <2>1
  <2> QED BY <2>1, <2>2
<1> QED BY <1>4

LEMMA UpTo ==
  ASSUME NEW n \in Nat, NEW S, 0 \in S, \A k \in 0 .. n - 1 : k \in S => k + 1 \in S
  PROVE  \A k \in 0 .. n : k \in S
<1> SUFFICES ASSUME NEW x \in 0 .. n, x \notin S PROVE FALSE
  OBVIOUS
<1> DEFINE T == (0 .. n) \ S
<1>1. T \in SUBSET Nat /\ T # {}
  OBVIOUS
<1>2. PICK k \in T : \A m \in T : k <= m
  BY <1>1, LeastNat
<1>3. k \in 1 .. n /\ k - 1 \in 0 .. n - 1 /\ k - 1 \notin T
  BY <1>2
<1>4. k - 1 \in S /\ (k - 1) + 1 = k
  BY <1>3
<1> QED BY <1>2, <1>3, <1>4

-----------------------------------------------------------------------------
(* The ids at most n relations away. *)
Size == Cardinality(GraphIds)
Further(ids) == ids \cup UNION {Children(id) : id \in ids}

LEMMA GraphCounted ==
  Size \in Nat /\ \A S \in SUBSET GraphIds :
    /\ IsFiniteSet(S) /\ Cardinality(S) \in Nat /\ Cardinality(S) <= Size
    /\ \A T \in SUBSET S : T # S => Cardinality(T) < Cardinality(S)
<1>1. Size \in Nat /\ IsFiniteSet(GraphIds)
  BY RetryAssumption, FS_CardinalityType DEF Size
<1>2. ASSUME NEW S \in SUBSET GraphIds
      PROVE  IsFiniteSet(S) /\ Cardinality(S) \in Nat /\ Cardinality(S) <= Size
  BY <1>1, FS_Subset, FS_CardinalityType DEF Size
<1>3. ASSUME NEW S \in SUBSET GraphIds, NEW T \in SUBSET S, T # S
      PROVE  Cardinality(T) < Cardinality(S)
  <2>1. Cardinality(T) <= Cardinality(S) /\ Cardinality(T) # Cardinality(S)
    BY <1>2, <1>3, FS_Subset
  <2>2. Cardinality(T) \in Nat /\ Cardinality(S) \in Nat
    BY <1>2
  <2> QED BY <2>1, <2>2
<1> QED BY <1>1, <1>2, <1>3

LEMMA FurtherTyped ==
  ASSUME NEW S \in SUBSET GraphIds
  PROVE  Further(S) \in SUBSET GraphIds /\ S \subseteq Further(S)
  BY DEF Further, Children

(* The recursive function exists: it is built step by step. *)
LEMMA DownToDef ==
  /\ DownTo \in [0 .. Size -> SUBSET GraphIds]
  /\ DownTo[0] = {FailedTask}
  /\ \A n \in 1 .. Size : DownTo[n] = Further(DownTo[n - 1])
<1> DEFINE Upto(n, f) == /\ f \in [0 .. n -> SUBSET GraphIds] /\ f[0] = {FailedTask}
                         /\ \A k \in 1 .. n : f[k] = Further(f[k - 1])
           S == {n \in 0 .. Size : \E f : Upto(n, f)}
<1>1. Size \in Nat
  BY GraphCounted
<1>2. 0 \in S
  <2> DEFINE f == [k \in 0 .. 0 |-> {FailedTask}]
  <2>1. f \in [0 .. 0 -> SUBSET GraphIds] /\ f[0] = {FailedTask} /\ 1 .. 0 = {}
    BY RetryAssumption
  <2> HIDE DEF f
  <2>2. Upto(0, f)
    BY <2>1
  <2> QED BY <1>1, <2>2
<1>3. ASSUME NEW n \in 0 .. Size - 1, n \in S PROVE n + 1 \in S
  <2>1. PICK f : Upto(n, f)
    BY <1>3
  <2>2. n \in Nat /\ n + 1 \in 0 .. Size
    BY <1>1
  <2> DEFINE g == [k \in 0 .. n + 1 |-> IF k = n + 1 THEN Further(f[n]) ELSE f[k]]
  <2>3. g \in [0 .. n + 1 -> SUBSET GraphIds]
    <3>1. f[n] \in SUBSET GraphIds
      BY <2>1, <2>2
    <3>2. \A k \in 0 .. n + 1 : k # n + 1 => k \in 0 .. n
      BY <2>2
    <3> QED BY <2>1, <3>1, <3>2, FurtherTyped
  <2>4. g[0] = {FailedTask}
    BY <2>1, <2>2
  <2>5. ASSUME NEW k \in 1 .. n + 1 PROVE g[k] = Further(g[k - 1])
    <3>1. k - 1 \in 0 .. n + 1 /\ k - 1 # n + 1
      BY <2>2
    <3>2. CASE k = n + 1
      <4>1. g[k] = Further(f[n]) /\ g[k - 1] = f[n]
        BY <2>2, <3>1, <3>2
      <4> QED BY <4>1
    <3>3. CASE k # n + 1
      <4>1. k \in 1 .. n
        BY <2>2, <3>3
      <4>2. g[k] = f[k] /\ g[k - 1] = f[k - 1]
        BY <2>2, <3>1, <4>1
      <4> QED BY <2>1, <4>1, <4>2
    <3> QED BY <3>2, <3>3
  <2> HIDE DEF g
  <2>6. Upto(n + 1, g)
    BY <2>3, <2>4, <2>5
  <2> QED BY <2>2, <2>6
<1>4. Size \in S
  <2> HIDE DEF S
  <2>1. \A k \in 0 .. Size : k \in S
    BY <1>1, <1>2, <1>3, UpTo
  <2> QED BY <1>1, <2>1
<1>5. PICK f : Upto(Size, f)
  BY <1>4
<1> DEFINE Body(h, n) == IF n = 0 THEN {FailedTask} ELSE h[n - 1] \cup UNION {Children(id) : id \in h[n - 1]}
<1>6. f = [n \in 0 .. Size |-> Body(f, n)]
  <2>1. \A n \in 0 .. Size : n # 0 => n \in 1 .. Size
    BY <1>1
  <2>2. \A n \in 0 .. Size : f[n] = Body(f, n)
    BY <1>5, <2>1 DEF Further
  <2> HIDE DEF Body
  <2> QED BY <1>5, <2>2
<1>7. DownTo = [n \in 0 .. Size |-> Body(DownTo, n)]
  BY <1>6 DEF DownTo, Size
<1> HIDE DEF Size
<1>8. \A n \in 0 .. Size : DownTo[n] = Body(DownTo, n)
  <2> HIDE DEF Body
  <2> QED BY <1>7
<1>9. DownTo[0] = {FailedTask}
  <2>1. 0 \in 0 .. Size
    BY <1>1
  <2>2. Body(DownTo, 0) = {FailedTask}
    OBVIOUS
  <2> HIDE DEF Body
  <2> QED BY <1>8, <2>1, <2>2
<1>10. ASSUME NEW n \in 1 .. Size PROVE DownTo[n] = Further(DownTo[n - 1])
  <2>1. n \in 0 .. Size /\ n # 0
    BY <1>1
  <2> QED BY <1>8, <2>1 DEF Further
<1>11. \A n \in 0 .. Size : DownTo[n] \in SUBSET GraphIds
  <2> DEFINE D == {n \in 0 .. Size : DownTo[n] \in SUBSET GraphIds}
  <2>1. 0 \in D
    BY <1>1, <1>9, RetryAssumption
  <2>2. ASSUME NEW k \in 0 .. Size - 1, k \in D PROVE k + 1 \in D
    <3>1. k + 1 \in 1 .. Size /\ (k + 1) - 1 = k /\ k + 1 \in 0 .. Size
      BY <1>1
    <3>2. DownTo[k + 1] = Further(DownTo[k])
      BY <1>10, <3>1
    <3> QED BY <2>2, <3>1, <3>2, FurtherTyped
  <2>3. \A k \in 0 .. Size : k \in D
    <3> HIDE DEF D
    <3> QED BY <1>1, <2>1, <2>2, UpTo
  <2> QED BY <2>3
<1>12. DownTo \in [0 .. Size -> SUBSET GraphIds]
  <2> HIDE DEF Body
  <2> QED BY <1>7, <1>11
<1> QED BY <1>9, <1>10, <1>12

LEMMA DownToGrows ==
  ASSUME NEW m \in 0 .. Size, NEW n \in 0 .. Size, m <= n
  PROVE  DownTo[m] \subseteq DownTo[n]
<1>1. Size \in Nat
  BY GraphCounted
<1> DEFINE S == {k \in 0 .. Size : m <= k => DownTo[m] \subseteq DownTo[k]}
<1>2. 0 \in S
  BY <1>1
<1>3. ASSUME NEW k \in 0 .. Size - 1, k \in S PROVE k + 1 \in S
  <2>1. k + 1 \in 1 .. Size /\ (k + 1) - 1 = k /\ k \in 0 .. Size /\ k + 1 \in 0 .. Size
    BY <1>1
  <2>2. DownTo[k] \subseteq DownTo[k + 1]
    BY <2>1, DownToDef, FurtherTyped
  <2>3. m <= k + 1 => m <= k \/ m = k + 1
    BY <1>1
  <2> QED BY <1>3, <2>1, <2>2, <2>3
<1>4. \A k \in 0 .. Size : k \in S
  <2> HIDE DEF S
  <2> QED BY <1>1, <1>2, <1>3, UpTo
<1> QED BY <1>4

(* What no longer grows stays as it is. *)
LEMMA DownToStops ==
  ASSUME NEW m \in 0 .. Size, Further(DownTo[m]) = DownTo[m]
  PROVE  Downstream = DownTo[m]
<1>1. Size \in Nat
  BY GraphCounted
<1> DEFINE S == {k \in 0 .. Size : m <= k => DownTo[k] = DownTo[m]}
<1>2. 0 \in S
  BY <1>1
<1>3. ASSUME NEW k \in 0 .. Size - 1, k \in S PROVE k + 1 \in S
  <2>1. k + 1 \in 1 .. Size /\ (k + 1) - 1 = k /\ k \in 0 .. Size /\ k + 1 \in 0 .. Size
    BY <1>1
  <2>2. DownTo[k + 1] = Further(DownTo[k])
    BY <2>1, DownToDef
  <2>3. m <= k + 1 => m <= k \/ m = k + 1
    BY <1>1
  <2> QED BY <1>3, <2>1, <2>2, <2>3
<1>4. \A k \in 0 .. Size : k \in S
  <2> HIDE DEF S
  <2> QED BY <1>1, <1>2, <1>3, UpTo
<1>5. Size \in S /\ m <= Size
  BY <1>1, <1>4
<1> QED BY <1>5 DEF Downstream, Size

(* As many steps as there are ids reach all that is reached: until nothing is added,
   every step adds an id. *)
LEMMA DownstreamClosed ==
  /\ Downstream \in SUBSET GraphIds /\ FailedTask \in Downstream
  /\ \A id \in Downstream : Children(id) \subseteq Downstream
<1>1. Size \in Nat /\ 0 \in 0 .. Size /\ Size \in 0 .. Size
  BY GraphCounted
<1>2. Downstream \in SUBSET GraphIds /\ FailedTask \in Downstream
  <2>1. Downstream = DownTo[Size]
    BY DEF Downstream, Size
  <2>2. DownTo[0] \subseteq DownTo[Size] /\ DownTo[0] = {FailedTask} /\ DownTo[Size] \in SUBSET GraphIds
    BY <1>1, DownToGrows, DownToDef
  <2> QED BY <2>1, <2>2
<1>3. ASSUME NEW m \in 0 .. Size, Further(DownTo[m]) = DownTo[m]
      PROVE  \A id \in Downstream : Children(id) \subseteq Downstream
  <2>1. Downstream = DownTo[m]
    BY <1>3, DownToStops
  <2> QED BY <1>3, <2>1 DEF Further
<1>4. ASSUME \A m \in 0 .. Size : Further(DownTo[m]) # DownTo[m]
      PROVE  FALSE
  <2> DEFINE S == {k \in 0 .. Size : k + 1 <= Cardinality(DownTo[k])}
  <2>1. 0 \in S
    <3>1. DownTo[0] = {FailedTask}
      BY DownToDef
    <3>2. Cardinality(DownTo[0]) = 1
      BY <3>1, FS_Singleton
    <3> QED BY <1>1, <3>2
  <2>2. ASSUME NEW k \in 0 .. Size - 1, k \in S PROVE k + 1 \in S
    <3>1. k + 1 \in 1 .. Size /\ (k + 1) - 1 = k /\ k \in 0 .. Size /\ k + 1 \in 0 .. Size
      BY <1>1
    <3>2. DownTo[k + 1] = Further(DownTo[k]) /\ DownTo[k] # Further(DownTo[k])
      BY <1>4, <3>1, DownToDef
    <3>3. DownTo[k + 1] \in SUBSET GraphIds /\ DownTo[k] \in SUBSET DownTo[k + 1]
      BY <3>1, <3>2, DownToDef, FurtherTyped
    <3>4. Cardinality(DownTo[k]) < Cardinality(DownTo[k + 1])
      BY <3>2, <3>3, GraphCounted
    <3>5. Cardinality(DownTo[k]) \in Nat /\ Cardinality(DownTo[k + 1]) \in Nat
      BY <3>3, GraphCounted
    <3>6. k + 1 <= Cardinality(DownTo[k])
      BY <2>2
    <3>7. (k + 1) + 1 <= Cardinality(DownTo[k + 1])
      BY <3>1, <3>4, <3>5, <3>6
    <3> QED BY <3>1, <3>7
  <2>3. \A k \in 0 .. Size : k \in S
    <3> HIDE DEF S
    <3> QED BY <1>1, <2>1, <2>2, UpTo
  <2>4. Size + 1 <= Cardinality(DownTo[Size])
    BY <1>1, <2>3
  <2>5. DownTo[Size] \in SUBSET GraphIds
    BY <1>1, DownToDef
  <2>6. Cardinality(DownTo[Size]) <= Size /\ Cardinality(DownTo[Size]) \in Nat
    BY <2>5, GraphCounted
  <2> QED BY <1>1, <2>4, <2>6
<1> QED BY <1>2, <1>3, <1>4

LEMMA DownstreamLeast ==
  ASSUME NEW S, FailedTask \in S, \A id \in S : Children(id) \subseteq S
  PROVE  Downstream \subseteq S
<1>1. Size \in Nat
  BY GraphCounted
<1> DEFINE D == {k \in 0 .. Size : DownTo[k] \subseteq S}
<1>2. 0 \in D
  BY <1>1, DownToDef
<1>3. ASSUME NEW k \in 0 .. Size - 1, k \in D PROVE k + 1 \in D
  <2>1. k + 1 \in 1 .. Size /\ (k + 1) - 1 = k /\ k + 1 \in 0 .. Size
    BY <1>1
  <2>2. DownTo[k + 1] = Further(DownTo[k]) /\ DownTo[k] \subseteq S
    BY <1>3, <2>1, DownToDef
  <2> QED BY <2>1, <2>2 DEF Further
<1>4. \A k \in 0 .. Size : k \in D
  <2> HIDE DEF D
  <2> QED BY <1>1, <1>2, <1>3, UpTo
<1>5. Size \in D
  BY <1>1, <1>4
<1> QED BY <1>5 DEF Downstream, Size

-----------------------------------------------------------------------------
(* Distances: a child is at most one further than its parent, and whatever is not
   the failed task is one further than some parent. *)
LEMMA DistanceDef ==
  ASSUME NEW x \in Downstream
  PROVE  /\ Distance(x) \in 0 .. Size /\ x \in DownTo[Distance(x)]
         /\ \A m \in 0 .. Distance(x) - 1 : x \notin DownTo[m]
<1> DEFINE T == {n \in 0 .. Size : x \in DownTo[n]}
<1>1. Size \in Nat /\ DOMAIN DownTo = 0 .. Size
  BY GraphCounted, DownToDef
<1>2. Size \in T
  BY <1>1 DEF Downstream, Size
<1>3. T \in SUBSET Nat /\ T # {}
  BY <1>1, <1>2
<1>4. PICK n \in T : \A m \in T : n <= m
  <2> HIDE DEF T
  <2> QED BY <1>3, LeastNat
<1>5. n \in 0 .. Size /\ x \in DownTo[n] /\ \A m \in 0 .. n - 1 : x \notin DownTo[m]
  <2>1. \A m \in 0 .. n - 1 : m \in 0 .. Size /\ ~(n <= m)
    BY <1>1
  <2> QED BY <1>4, <2>1
<1>6. \E k \in DOMAIN DownTo : x \in DownTo[k] /\ \A m \in 0 .. k - 1 : x \notin DownTo[m]
  BY <1>1, <1>5
<1> QED BY <1>1, <1>6 DEF Distance

LEMMA DistanceLeast ==
  ASSUME NEW x \in Downstream, NEW n \in 0 .. Size, x \in DownTo[n]
  PROVE  Distance(x) <= n
<1>1. Distance(x) \in Nat /\ Size \in Nat /\ \A m \in 0 .. Distance(x) - 1 : x \notin DownTo[m]
  BY DistanceDef, GraphCounted
<1>2. ~(n \in 0 .. Distance(x) - 1)
  BY <1>1
<1> QED BY <1>1, <1>2

LEMMA ChildDistance ==
  ASSUME NEW p \in Downstream, NEW c \in Children(p)
  PROVE  c \in Downstream /\ Distance(c) <= Distance(p) + 1
<1>1. c \in Downstream /\ Size \in Nat
  BY DownstreamClosed, GraphCounted
<1>2. Distance(p) \in 0 .. Size /\ p \in DownTo[Distance(p)] /\ Distance(c) \in 0 .. Size
  BY <1>1, DistanceDef
<1> DEFINE d == Distance(p)
           e == Distance(c)
<1>3. CASE d = Size
  BY <1>1, <1>2, <1>3
<1>4. CASE d # Size
  <2>1. d + 1 \in 1 .. Size /\ (d + 1) - 1 = d /\ d + 1 \in 0 .. Size
    BY <1>1, <1>2, <1>4
  <2> HIDE DEF d, e
  <2>2. c \in DownTo[d + 1]
    BY <1>2, <2>1, DownToDef DEF Further, d
  <2> QED BY <1>1, <2>1, <2>2, DistanceLeast DEF d
<1> QED BY <1>1, <1>3, <1>4

LEMMA ParentDistance ==
  ASSUME NEW x \in Downstream, Distance(x) # 0
  PROVE  \E p \in Downstream : x \in Children(p) /\ Distance(x) = Distance(p) + 1
<1> DEFINE d == Distance(x)
<1>1. Size \in Nat /\ d \in 0 .. Size /\ x \in DownTo[d] /\ \A m \in 0 .. d - 1 : x \notin DownTo[m]
  BY DistanceDef, GraphCounted
<1>2. d \in 1 .. Size /\ d - 1 \in 0 .. Size /\ d - 1 \in 0 .. d - 1 /\ d - 1 <= Size /\ Size \in 0 .. Size
  BY <1>1
<1>3. x \in Further(DownTo[d - 1]) /\ x \notin DownTo[d - 1]
  BY <1>1, <1>2, DownToDef
<1>4. PICK p \in DownTo[d - 1] : x \in Children(p)
  BY <1>3 DEF Further
<1>5. p \in Downstream
  BY <1>2, <1>4, DownToGrows DEF Downstream, Size
<1>6. Distance(p) <= d - 1 /\ Distance(p) \in Nat
  BY <1>2, <1>4, <1>5, DistanceLeast, DistanceDef
<1>7. d <= Distance(p) + 1
  BY <1>4, <1>5, ChildDistance
<1> QED BY <1>1, <1>4, <1>5, <1>6, <1>7

LEMMA FailedIsNearest ==
  /\ Distance(FailedTask) = 0
  /\ \A x \in Downstream : Distance(x) = 0 => x = FailedTask
<1>1. FailedTask \in Downstream /\ Size \in Nat /\ 0 \in 0 .. Size
  BY DownstreamClosed, GraphCounted
<1>2. FailedTask \in DownTo[0] /\ \A x \in DownTo[0] : x = FailedTask
  BY DownToDef
<1>3. Distance(FailedTask) <= 0 /\ Distance(FailedTask) \in Nat
  BY <1>1, <1>2, DistanceLeast, DistanceDef
<1>4. \A x \in Downstream : Distance(x) = 0 => x = FailedTask
  BY <1>2, DistanceDef
<1> QED BY <1>3, <1>4

-----------------------------------------------------------------------------
(* What the walk and the sending keep: every id downstream once, the nearest
   first. *)

(* The ids downstream and their distances, as values that no step changes. *)
Measures(d, D) ==
  /\ D = Downstream /\ d \in [D -> Nat]
  /\ \A x \in D : d[x] = Distance(x)

NoRepeats(s) == \A i, j \in 1 .. Len(s) : i # j => s[i] # s[j]
Ordered(d, s) == \A i, j \in 1 .. Len(s) : i < j => d[s[i]] <= d[s[j]]

(* The first m ids of the queue are at distance k or visited, the others one further
   at most; nearer ids are visited. *)
Level(d, D, V, q, k, m) ==
  /\ \A v \in V : d[v] <= k
  /\ \A x \in D : d[x] < k => x \in V
  /\ \A i \in 1 .. m : q[i] \in V \/ d[q[i]] = k
  /\ \A x \in D : d[x] = k => x \in V \/ \E i \in 1 .. m : q[i] = x
  /\ \A i \in 1 .. Len(q) : m < i => d[q[i]] <= k + 1

Followed(V, q) == \A v \in V : Children(v) \subseteq V \cup ToSet(q)

Walking(d, D) ==
  /\ results = <<>> /\ skipped = {}
  /\ ToSet(order) = visited /\ visited \subseteq D /\ ToSet(queue) \subseteq D
  /\ FailedTask \in visited \cup ToSet(queue)
  /\ Followed(visited, queue)
  /\ \E k \in Nat : \E m \in 0 .. Len(queue) : Level(d, D, visited, queue, k, m)

Sending(D) ==
  /\ ToSet(results) \cup ToSet(order) \cup skipped = D
  /\ skipped \cap (ToSet(results) \cup ToSet(order)) = {}

OnceInOrder(d, D) ==
  /\ ToSet(results) \cup ToSet(order) \subseteq D
  /\ ToSet(results) \cap ToSet(order) = {}
  /\ NoRepeats(results) /\ NoRepeats(order)
  /\ Ordered(d, results) /\ Ordered(d, order)
  /\ \A x \in ToSet(results), y \in ToSet(order) : d[x] <= d[y]

RetrySound(d, D) ==
  /\ Measures(d, D) /\ OnceInOrder(d, D)
  /\ phase = "walk" => Walking(d, D)
  /\ phase \in {"send", "done"} => Sending(D)
  /\ phase = "done" => order = <<>>

RetryInv == RetryTyped /\ results \in Seq(GraphIds) /\ \E d, D : RetrySound(d, D)

LEMMA MeasuresStay ==
  ASSUME NEW d, NEW D, Measures(d, D), UNCHANGED rootRelations
  PROVE  Measures(d, D)'
<1>1. DownTo' = DownTo
  BY DEF DownTo, Children
<1>2. Downstream' = Downstream
  BY <1>1 DEF Downstream
<1>3. \A x \in D : Distance(x)' = Distance(x)
  BY <1>1 DEF Distance
<1> QED BY <1>2, <1>3 DEF Measures

LEMMA MeasuresExist == \E d, D : Measures(d, D)
<1> DEFINE d == [x \in Downstream |-> Distance(x)]
<1>1. d \in [Downstream -> Nat] /\ \A x \in Downstream : d[x] = Distance(x)
  <2>1. Size \in Nat /\ \A x \in Downstream : Distance(x) \in 0 .. Size
    BY DistanceDef, GraphCounted
  <2> HIDE DEF Size
  <2>2. \A x \in Downstream : Distance(x) \in Nat
    BY <2>1
  <2> QED BY <2>2
<1> QED BY <1>1 DEF Measures

LEMMA MeasureFacts ==
  ASSUME NEW d, NEW D, Measures(d, D)
  PROVE  /\ D \in SUBSET GraphIds /\ FailedTask \in D /\ d \in [D -> Nat]
         /\ d[FailedTask] = 0 /\ \A x \in D : d[x] = 0 => x = FailedTask
         /\ \A p \in D : \A c \in Children(p) : c \in D /\ d[c] <= d[p] + 1
         /\ \A x \in D : d[x] # 0 => \E p \in D : x \in Children(p) /\ d[x] = d[p] + 1
<1>1. D = Downstream /\ d \in [D -> Nat] /\ \A x \in D : d[x] = Distance(x)
  BY DEF Measures
<1>2. D \in SUBSET GraphIds /\ FailedTask \in D
  BY <1>1, DownstreamClosed
<1>3. d[FailedTask] = 0 /\ \A x \in D : d[x] = 0 => x = FailedTask
  BY <1>1, <1>2, FailedIsNearest
<1>4. \A p \in D : \A c \in Children(p) : c \in D /\ d[c] <= d[p] + 1
  BY <1>1, ChildDistance
<1>5. \A x \in D : d[x] # 0 => \E p \in D : x \in Children(p) /\ d[x] = d[p] + 1
  BY <1>1, ParentDistance
<1> QED BY <1>1, <1>2, <1>3, <1>4, <1>5

(* Sequences that lose their head or gain an element. *)
LEMMA AfterTail ==
  ASSUME NEW s \in Seq(GraphIds), s # <<>>, NoRepeats(s)
  PROVE  /\ Tail(s) \in Seq(GraphIds) /\ NoRepeats(Tail(s)) /\ Head(s) \in GraphIds
         /\ ToSet(s) = {Head(s)} \cup ToSet(Tail(s)) /\ Head(s) \notin ToSet(Tail(s))
         /\ \A d : Ordered(d, s) => /\ Ordered(d, Tail(s))
                                    /\ \A y \in ToSet(Tail(s)) : d[Head(s)] <= d[y]
<1> DEFINE r == Tail(s)
           n == Len(s)
<1>1. /\ r \in Seq(GraphIds) /\ n \in Nat /\ Len(r) = n - 1 /\ n > 0 /\ Head(s) = s[1]
      /\ \A i \in 1 .. Len(r) : r[i] = s[i + 1]
      /\ DOMAIN s = 1 .. n /\ DOMAIN r = 1 .. Len(r) /\ Head(s) \in GraphIds
  OBVIOUS
<1> HIDE DEF r, n
<1>2. /\ 1 \in 1 .. n /\ \A i \in 1 .. Len(r) : i + 1 \in 1 .. n /\ 1 < i + 1 /\ 1 # i + 1
      /\ \A i \in 1 .. n : i # 1 => i - 1 \in 1 .. Len(r) /\ (i - 1) + 1 = i
      /\ \A i, j \in 1 .. Len(r) : (i # j => i + 1 # j + 1) /\ (i < j => i + 1 < j + 1)
  BY <1>1
<1>3. NoRepeats(r)
  BY <1>1, <1>2 DEF NoRepeats, n
<1>4. ToSet(s) = {Head(s)} \cup ToSet(r)
  <2>1. ToSet(s) = {s[i] : i \in 1 .. n} /\ ToSet(r) = {r[i] : i \in 1 .. Len(r)}
    BY <1>1 DEF ToSet
  <2>2. ASSUME NEW i \in 1 .. n, i # 1 PROVE \E j \in 1 .. Len(r) : s[i] = r[j]
    <3>1. i - 1 \in 1 .. Len(r) /\ (i - 1) + 1 = i
      BY <1>2, <2>2
    <3>2. r[i - 1] = s[i]
      BY <1>1, <3>1
    <3> QED BY <3>1, <3>2
  <2>3. \A j \in 1 .. Len(r) : \E i \in 1 .. n : r[j] = s[i]
    BY <1>1, <1>2
  <2>4. s[1] = Head(s) /\ 1 \in 1 .. n
    BY <1>1, <1>2
  <2> DEFINE h == Head(s)
  <2> HIDE DEF h
  <2>5. ToSet(s) \subseteq {h} \cup ToSet(r)
    BY <2>1, <2>2, <2>4 DEF h
  <2>6. {h} \cup ToSet(r) \subseteq ToSet(s)
    BY <2>1, <2>3, <2>4 DEF h
  <2> QED BY <2>5, <2>6 DEF h
<1>5. Head(s) \notin ToSet(r)
  BY <1>1, <1>2 DEF ToSet, NoRepeats, n
<1>6. ASSUME NEW d, Ordered(d, s)
      PROVE  Ordered(d, r) /\ \A y \in ToSet(r) : d[Head(s)] <= d[y]
  BY <1>1, <1>2, <1>6 DEF ToSet, Ordered, n
<1> QED BY <1>1, <1>3, <1>4, <1>5, <1>6 DEF r

LEMMA AfterAppend ==
  ASSUME NEW s \in Seq(GraphIds), NEW x \in GraphIds, x \notin ToSet(s), NoRepeats(s)
  PROVE  /\ Append(s, x) \in Seq(GraphIds) /\ NoRepeats(Append(s, x))
         /\ ToSet(Append(s, x)) = ToSet(s) \cup {x}
         /\ \A d : Ordered(d, s) /\ (\A y \in ToSet(s) : d[y] <= d[x]) => Ordered(d, Append(s, x))
<1> DEFINE r == Append(s, x)
           n == Len(s)
<1>1. /\ r \in Seq(GraphIds) /\ n \in Nat /\ Len(r) = n + 1 /\ r[n + 1] = x
      /\ \A i \in 1 .. n : r[i] = s[i] /\ s[i] \in ToSet(s)
      /\ DOMAIN s = 1 .. n /\ DOMAIN r = 1 .. n + 1
  BY DEF ToSet
<1> HIDE DEF r, n
<1>2. \A i \in 1 .. n + 1 : i \in 1 .. n \/ i = n + 1
  BY <1>1
<1>3. NoRepeats(r)
  BY <1>1, <1>2 DEF NoRepeats, n
<1>4. ToSet(r) = ToSet(s) \cup {x}
  <2>1. n + 1 \in 1 .. n + 1 /\ \A i \in 1 .. n : i \in 1 .. n + 1
    BY <1>1
  <2> QED BY <1>1, <1>2, <2>1 DEF ToSet
<1>5. ASSUME NEW d, Ordered(d, s), \A y \in ToSet(s) : d[y] <= d[x] PROVE Ordered(d, r)
  <2>1. \A i, j \in 1 .. n + 1 : i < j => i \in 1 .. n
    BY <1>1
  <2> QED BY <1>1, <1>2, <1>5, <2>1 DEF Ordered, n
<1> QED BY <1>1, <1>3, <1>4, <1>5 DEF r

-----------------------------------------------------------------------------
(* The children of an id come once in each order of its adjacency list. *)
LEMMA AnyOrderCovers ==
  ASSUME NEW S \in SUBSET GraphIds, NEW new \in SetToSeqs(S)
  PROVE  new \in Seq(GraphIds) /\ ToSet(new) = S
<1> DEFINE n == Cardinality(S)
<1>1. IsFiniteSet(S) /\ n \in Nat
  BY GraphCounted
<1>2. new \in [1 .. n -> S] /\ \A i, j \in 1 .. n : i # j => new[i] # new[j]
  BY DEF SetToSeqs
<1>3. new \in Injection(1 .. n, S)
  BY <1>2 DEF Injection, IsInjective
<1>4. Cardinality(1 .. n) = n
  BY <1>1, FS_Interval
<1>5. new \in Surjection(1 .. n, S)
  BY <1>1, <1>3, <1>4, FS_Injection
<1>6. \A x \in S : \E i \in 1 .. n : new[i] = x
  BY <1>5 DEF Surjection
<1> HIDE DEF n
<1>7. ToSet(new) = S
  BY <1>2, <1>6 DEF ToSet
<1> QED BY <1>7, AnyOrderTyped

LEMMA Concatenated ==
  ASSUME NEW s \in Seq(GraphIds), NEW t \in Seq(GraphIds)
  PROVE  /\ s \o t \in Seq(GraphIds) /\ Len(s \o t) = Len(s) + Len(t)
         /\ \A i \in 1 .. Len(s) : (s \o t)[i] = s[i]
         /\ \A i \in 1 .. Len(s \o t) : Len(s) < i => (s \o t)[i] \in ToSet(t)
         /\ ToSet(s \o t) = ToSet(s) \cup ToSet(t)
<1> DEFINE q == s \o t
           m == Len(s)
           n == Len(t)
<1>1. /\ q \in Seq(GraphIds) /\ m \in Nat /\ n \in Nat /\ Len(q) = m + n
      /\ \A i \in 1 .. m : q[i] = s[i]
      /\ \A i \in 1 .. m + n : m < i => q[i] = t[i - m]
      /\ DOMAIN q = 1 .. m + n /\ DOMAIN s = 1 .. m /\ DOMAIN t = 1 .. n
  OBVIOUS
<1> HIDE DEF q, m, n
<1>2. /\ \A i \in 1 .. m + n : i \in 1 .. m \/ (m < i /\ i - m \in 1 .. n)
      /\ \A i \in 1 .. m : i \in 1 .. m + n
      /\ \A i \in 1 .. n : i + m \in 1 .. m + n /\ m < i + m /\ (i + m) - m = i
  BY <1>1
<1>3. /\ ToSet(q) = {q[i] : i \in 1 .. m + n} /\ ToSet(s) = {s[i] : i \in 1 .. m}
      /\ ToSet(t) = {t[i] : i \in 1 .. n}
  BY <1>1 DEF ToSet
<1>4. \A i \in 1 .. m + n : m < i => q[i] \in ToSet(t)
  BY <1>1, <1>2, <1>3
<1>5. \A i \in 1 .. n : t[i] \in ToSet(q)
  <2>1. \A i \in 1 .. n : t[i] = q[i + m]
    BY <1>1, <1>2
  <2> QED BY <1>2, <1>3, <2>1
<1>6. \A i \in 1 .. m : s[i] \in ToSet(q)
  BY <1>1, <1>2, <1>3
<1>7. \A i \in 1 .. m + n : q[i] \in ToSet(s) \cup ToSet(t)
  BY <1>1, <1>2, <1>3, <1>4
<1>8. ToSet(q) = ToSet(s) \cup ToSet(t)
  BY <1>3, <1>5, <1>6, <1>7
<1>9. Len(q) = m + n /\ \A i \in 1 .. Len(q) : m < i => q[i] \in ToSet(t)
  BY <1>1, <1>4
<1> QED BY <1>1, <1>8, <1>9 DEF q, m, n

LEMMA AdjacencyCovers ==
  ASSUME NEW id, NEW seen, NEW children \in Adjacency(id, seen)
  PROVE  children \in Seq(GraphIds) /\ ToSet(children) = Children(id) \ seen
<1> DEFINE new == Children(id) \ seen
           again == {c \in new : <<id, c>> \in doubled}
<1>1. new \in SUBSET GraphIds /\ again \in SUBSET new
  BY DEF Children
<1>2. Adjacency(id, seen) = {s \o t : s \in SetToSeqs(new), t \in SetToSeqs(again)}
  BY DEF Adjacency
<1> HIDE DEF new, again
<1>3. PICK s \in SetToSeqs(new), t \in SetToSeqs(again) : children = s \o t
  BY <1>2
<1>4. s \in Seq(GraphIds) /\ t \in Seq(GraphIds) /\ ToSet(s) = new /\ ToSet(t) = again
  BY <1>1, <1>3, AnyOrderCovers
<1>5. ToSet(children) = new \cup again /\ children \in Seq(GraphIds)
  BY <1>3, <1>4, Concatenated
<1> QED BY <1>1, <1>5 DEF new

(* When no id at distance k is left at the head, the queue is at the next distance. *)
LEMMA NextLevel ==
  ASSUME NEW d, NEW D, Measures(d, D), NEW V \in SUBSET D, NEW q \in Seq(GraphIds),
         ToSet(q) \subseteq D, Followed(V, q), NEW k \in Nat, Level(d, D, V, q, k, 0)
  PROVE  Level(d, D, V, q, k + 1, Len(q))
<1>1. /\ d \in [D -> Nat] /\ Len(q) \in Nat /\ DOMAIN q = 1 .. Len(q)
      /\ \A x \in D : d[x] # 0 => \E p \in D : x \in Children(p) /\ d[x] = d[p] + 1
  BY MeasureFacts
<1>2. \A x \in D : d[x] \in Nat
  BY <1>1
<1>3. \A x \in D : d[x] <= k => x \in V
  <2>1. \A x \in D : d[x] <= k => d[x] < k \/ d[x] = k
    BY <1>2
  <2>2. \A x \in D : d[x] = k => x \in V
    BY DEF Level
  <2> QED BY <2>1, <2>2 DEF Level
<1>4. \A v \in V : d[v] <= k + 1
  <2>1. \A v \in V : d[v] <= k /\ d[v] \in Nat
    BY <1>2 DEF Level
  <2> QED BY <2>1
<1>5. \A x \in D : d[x] < k + 1 => x \in V
  BY <1>2, <1>3
<1>6. \A i \in 1 .. Len(q) : q[i] \in D
  BY <1>1 DEF ToSet
<1>7. \A i \in 1 .. Len(q) : q[i] \in V \/ d[q[i]] = k + 1
  <2>1. \A i \in 1 .. Len(q) : d[q[i]] <= k + 1
    BY DEF Level
  <2> QED BY <1>2, <1>3, <1>6, <2>1
<1>8. ASSUME NEW x \in D, d[x] = k + 1, x \notin V PROVE \E i \in 1 .. Len(q) : q[i] = x
  <2>1. PICK p \in D : x \in Children(p) /\ d[x] = d[p] + 1
    BY <1>1, <1>8
  <2>2. p \in V
    BY <1>2, <1>3, <1>8, <2>1
  <2>3. x \in ToSet(q)
    BY <1>8, <2>1, <2>2 DEF Followed
  <2> QED BY <1>1, <2>3 DEF ToSet
<1>9. \A i \in 1 .. Len(q) : Len(q) < i => d[q[i]] <= k + 1 + 1
  BY <1>1
<1> QED BY <1>4, <1>5, <1>7, <1>8, <1>9 DEF Level

(* A turn of the walk: the head is visited and new children join the queue. *)
LEMMA LevelTurn ==
  ASSUME NEW d, NEW D, Measures(d, D), NEW V \in SUBSET D, NEW q \in Seq(GraphIds), q # <<>>,
         ToSet(q) \subseteq D, NEW k \in Nat, NEW m \in 1 .. Len(q), Level(d, D, V, q, k, m),
         NEW ch \in Seq(GraphIds), ToSet(ch) \subseteq Children(Head(q))
  PROVE  /\ Level(d, D, V \cup {Head(q)}, Tail(q) \o ch, k, m - 1)
         /\ m - 1 \in 0 .. Len(Tail(q) \o ch)
         /\ Head(q) \notin V => d[Head(q)] = k
<1> DEFINE node == Head(q)
           r == Tail(q)
           W == V \cup {node}
           z == r \o ch
           n == Len(q)
<1>1. /\ r \in Seq(GraphIds) /\ n \in Nat /\ n > 0 /\ Len(r) = n - 1 /\ node = q[1]
      /\ \A i \in 1 .. n - 1 : r[i] = q[i + 1]
      /\ DOMAIN q = 1 .. n
  OBVIOUS
<1>2. /\ z \in Seq(GraphIds) /\ Len(z) = Len(r) + Len(ch)
      /\ \A i \in 1 .. Len(r) : z[i] = r[i]
      /\ \A i \in 1 .. Len(z) : Len(r) < i => z[i] \in ToSet(ch)
      /\ Len(ch) \in Nat
  BY <1>1, Concatenated
<1>3. node \in D /\ d \in [D -> Nat]
  <2>1. 1 \in DOMAIN q
    BY <1>1
  <2>2. node \in ToSet(q)
    BY <1>1, <2>1 DEF ToSet
  <2> QED BY <2>2, MeasureFacts
<1> HIDE DEF node, r, z, n
<1>4. m \in 1 .. n /\ m \in Nat
  BY <1>1 DEF n
<1>5. node \in V \/ d[node] = k
  BY <1>1, <1>4 DEF Level
<1>6. /\ \A i \in 1 .. m - 1 : i + 1 \in 1 .. m /\ i \in 1 .. n - 1
      /\ \A i \in 1 .. m : i # 1 => i - 1 \in 1 .. m - 1 /\ (i - 1) + 1 = i
  BY <1>1, <1>4
<1>7. \A i \in 1 .. m - 1 : z[i] = q[i + 1]
  BY <1>1, <1>2, <1>6
<1>8. \A v \in W : d[v] <= k
  BY <1>5 DEF Level
<1>9. \A x \in D : d[x] < k => x \in W
  BY DEF Level
<1>10. \A i \in 1 .. m - 1 : z[i] \in W \/ d[z[i]] = k
  BY <1>6, <1>7 DEF Level
<1>11. ASSUME NEW x \in D, d[x] = k, x \notin W PROVE \E i \in 1 .. m - 1 : z[i] = x
  <2>1. PICK i \in 1 .. m : q[i] = x
    BY <1>11 DEF Level
  <2>2. i # 1
    BY <1>1, <1>11, <2>1
  <2> QED BY <1>6, <1>7, <2>1, <2>2
<1>12. ASSUME NEW i \in 1 .. Len(z), m - 1 < i PROVE d[z[i]] <= k + 1
  <2>1. CASE i <= Len(r)
    <3>1. i \in 1 .. Len(r) /\ i \in 1 .. n - 1 /\ i + 1 \in 1 .. n /\ m < i + 1
      BY <1>1, <1>2, <1>4, <1>12, <2>1
    <3>2. z[i] = q[i + 1]
      BY <1>1, <1>2, <3>1
    <3> QED BY <3>1, <3>2 DEF Level, n
  <2>2. CASE ~(i <= Len(r))
    <3>1. z[i] \in ToSet(ch)
      BY <1>1, <1>2, <2>2
    <3>2. z[i] \in Children(node)
      BY <3>1 DEF node
    <3>3. z[i] \in D /\ d[z[i]] <= d[node] + 1
      BY <1>3, <3>2, MeasureFacts
    <3>4. d[node] <= k /\ d[node] \in Nat /\ d[z[i]] \in Nat
      BY <1>3, <1>8, <3>3
    <3> QED BY <3>3, <3>4
  <2> QED BY <2>1, <2>2
<1>13. m - 1 \in 0 .. Len(z)
  BY <1>1, <1>2, <1>4
<1>14. Level(d, D, W, z, k, m - 1)
  BY <1>8, <1>9, <1>10, <1>11, <1>12 DEF Level
<1> QED BY <1>5, <1>13, <1>14 DEF node, z, r

LEMMA VisitKeeps ==
  ASSUME RetryInv, Visit
  PROVE  RetryInv'
<1>1. PICK d, D : RetrySound(d, D)
  BY DEF RetryInv
<1> DEFINE node == Head(queue)
<1>2. /\ phase = "walk" /\ queue # <<>> /\ phase' = "walk" /\ UNCHANGED <<rootRelations, results, skipped>>
      /\ results \in Seq(GraphIds) /\ queue \in Seq(GraphIds) /\ order \in Seq(GraphIds)
  BY DEF Visit, linkVars, RetryInv, RetryTyped
<1>3. Measures(d, D) /\ OnceInOrder(d, D) /\ Walking(d, D)
  BY <1>1, <1>2 DEF RetrySound
<1>4. PICK ch \in Seq(GraphIds) :
        /\ queue' = Tail(queue) \o ch /\ visited' = visited \cup {node}
        /\ ToSet(ch) \subseteq Children(node)
        /\ node \in visited => order' = order
        /\ node \notin visited => /\ order' = Append(order, node)
                                  /\ Children(node) \subseteq visited' \cup ToSet(ch)
  <2>1. CASE node \in visited
    <3>1. queue' = Tail(queue) /\ visited' = visited /\ order' = order
      BY <2>1 DEF Visit
    <3>2. <<>> \in Seq(GraphIds) /\ Tail(queue) \o <<>> = Tail(queue) /\ ToSet(<<>>) = {}
      BY <1>2 DEF ToSet
    <3> QED BY <2>1, <3>1, <3>2
  <2>2. CASE node \notin visited
    <3>1. visited' = visited \cup {node} /\ order' = Append(order, node)
      BY <2>2 DEF Visit
    <3>2. PICK ch \in Adjacency(node, visited') : queue' = Tail(queue) \o ch
      BY <2>2 DEF Visit
    <3>3. ch \in Seq(GraphIds) /\ ToSet(ch) = Children(node) \ visited'
      BY <3>2, AdjacencyCovers
    <3> QED BY <2>2, <3>1, <3>2, <3>3
  <2> QED BY <2>1, <2>2
<1>5. /\ visited \in SUBSET D /\ ToSet(queue) \subseteq D /\ ToSet(order) = visited
      /\ Followed(visited, queue) /\ FailedTask \in visited \cup ToSet(queue)
      /\ results = <<>> /\ skipped = {}
  BY <1>3 DEF Walking
<1>6. PICK k \in Nat, m \in 1 .. Len(queue) : Level(d, D, visited, queue, k, m)
  <2>1. PICK k \in Nat, m \in 0 .. Len(queue) : Level(d, D, visited, queue, k, m)
    BY <1>3 DEF Walking
  <2>2. Len(queue) \in Nat /\ Len(queue) > 0
    BY <1>2
  <2>3. CASE m = 0
    <3>1. Level(d, D, visited, queue, k + 1, Len(queue))
      BY <1>2, <1>3, <1>5, <2>1, <2>3, NextLevel
    <3> QED BY <2>2, <3>1
  <2>4. CASE m # 0
    BY <2>1, <2>2, <2>4
  <2> QED BY <2>3, <2>4
<1>7. /\ Level(d, D, visited', queue', k, m - 1) /\ m - 1 \in 0 .. Len(queue')
      /\ node \notin visited => d[node] = k
  BY <1>2, <1>3, <1>4, <1>5, <1>6, LevelTurn
<1>8. ToSet(queue) \subseteq {node} \cup ToSet(queue') /\ ToSet(queue') \subseteq ToSet(queue) \cup ToSet(ch)
      /\ node \in ToSet(queue) /\ ToSet(ch) \subseteq ToSet(queue') /\ queue' \in Seq(GraphIds)
  <2>1. Tail(queue) \in Seq(GraphIds) /\ ToSet(queue) = {node} \cup ToSet(Tail(queue))
    <3>1. /\ DOMAIN queue = 1 .. Len(queue) /\ DOMAIN Tail(queue) = 1 .. Len(Tail(queue))
          /\ \A i \in 1 .. Len(queue) : i = 1 \/ i - 1 \in 1 .. Len(Tail(queue))
          /\ \A i \in 1 .. Len(Tail(queue)) : i + 1 \in 1 .. Len(queue) /\ Tail(queue)[i] = queue[i + 1]
          /\ \A i \in 1 .. Len(queue) : i # 1 => Tail(queue)[i - 1] = queue[i]
          /\ 1 \in 1 .. Len(queue) /\ node = queue[1] /\ Tail(queue) \in Seq(GraphIds)
      BY <1>2
    <3>2. ASSUME NEW x \in ToSet(queue), x # node PROVE x \in ToSet(Tail(queue))
      <4>1. PICK i \in 1 .. Len(queue) : queue[i] = x
        BY <3>1 DEF ToSet
      <4>2. i # 1
        BY <3>1, <3>2, <4>1
      <4> QED BY <3>1, <4>1, <4>2 DEF ToSet
    <3>3. \A x \in ToSet(Tail(queue)) : x \in ToSet(queue)
      BY <3>1 DEF ToSet
    <3>4. node \in ToSet(queue)
      BY <3>1 DEF ToSet
    <3> QED BY <3>1, <3>2, <3>3, <3>4
  <2>2. queue' \in Seq(GraphIds) /\ ToSet(queue') = ToSet(Tail(queue)) \cup ToSet(ch)
    BY <1>4, <2>1, Concatenated
  <2> QED BY <2>1, <2>2
<1> HIDE DEF node
<1>9. node \in D /\ \A c \in Children(node) : c \in D
  BY <1>3, <1>5, <1>8, MeasureFacts
<1>10. Followed(visited, queue)'
  <2> SUFFICES ASSUME NEW v \in visited' PROVE Children(v)' \subseteq visited' \cup ToSet(queue')
    BY DEF Followed
  <2>1. Children(v)' = Children(v)
    BY <1>2 DEF Children
  <2>2. CASE v \in visited
    BY <1>4, <1>5, <1>8, <2>1, <2>2 DEF Followed
  <2>3. CASE v \notin visited
    BY <1>4, <1>8, <2>1, <2>3
  <2> QED BY <2>2, <2>3
<1>11. node \in GraphIds /\ order' \in Seq(GraphIds) /\ ToSet(order') = visited'
       /\ NoRepeats(order') /\ Ordered(d, order')
  <2>1. node \in GraphIds
    BY <1>3, <1>9, MeasureFacts
  <2>2. NoRepeats(order) /\ Ordered(d, order)
    BY <1>3 DEF OnceInOrder
  <2>3. CASE node \in visited
    BY <1>2, <1>4, <1>5, <2>1, <2>2, <2>3
  <2>4. CASE node \notin visited
    <3>1. order' = Append(order, node) /\ node \notin ToSet(order) /\ d[node] = k
      BY <1>4, <1>5, <1>7, <2>4
    <3>2. \A y \in ToSet(order) : d[y] <= d[node]
      BY <1>5, <1>6, <3>1 DEF Level
    <3> QED BY <1>2, <1>4, <1>5, <2>1, <2>2, <3>1, <3>2, AfterAppend
  <2> QED BY <2>3, <2>4
<1>12. Measures(d, D)'
  BY <1>2, <1>3, MeasuresStay
<1>13. OnceInOrder(d, D)'
  <2>1. results' = <<>> /\ ToSet(<<>>) = {} /\ NoRepeats(<<>>) /\ Ordered(d, <<>>)
    BY <1>2, <1>5 DEF ToSet, NoRepeats, Ordered
  <2>2. ToSet(order') \subseteq D
    BY <1>4, <1>5, <1>9, <1>11
  <2> QED BY <1>11, <2>1, <2>2 DEF OnceInOrder
<1>14. Walking(d, D)'
  <2>1. visited' \subseteq D /\ ToSet(queue') \subseteq D
    BY <1>4, <1>5, <1>8, <1>9
  <2>2. FailedTask \in visited' \cup ToSet(queue')
    BY <1>4, <1>5, <1>8
  <2> QED BY <1>2, <1>5, <1>7, <1>10, <1>11, <2>1, <2>2 DEF Walking
<1> QED BY <1>2, <1>8, <1>11, <1>12, <1>13, <1>14 DEF RetryInv, RetryTyped, RetrySound

(* The walk ends when its queue is empty, and has then followed all relations. *)
LEMMA EndWalkKeeps ==
  ASSUME RetryInv, EndWalk
  PROVE  RetryInv'
<1>1. PICK d, D : RetrySound(d, D)
  BY DEF RetryInv
<1>2. /\ phase = "walk" /\ queue = <<>> /\ phase' = "send"
      /\ UNCHANGED <<rootRelations, queue, visited, order, results, skipped>>
  BY DEF EndWalk, linkVars
<1>3. Measures(d, D) /\ OnceInOrder(d, D) /\ Walking(d, D)
  BY <1>1, <1>2 DEF RetrySound
<1>4. ToSet(<<>>) = {}
  BY DEF ToSet
<1>5. D \subseteq visited
  <2>1. FailedTask \in visited /\ \A v \in visited : Children(v) \subseteq visited
    BY <1>2, <1>3, <1>4 DEF Walking, Followed
  <2>2. Downstream \subseteq visited
    BY <2>1, DownstreamLeast
  <2> QED BY <1>3, <2>2 DEF Measures
<1>6. Sending(D)'
  BY <1>2, <1>3, <1>4, <1>5 DEF Walking, Sending
<1>7. Measures(d, D)' /\ OnceInOrder(d, D)'
  <2>1. Measures(d, D)'
    BY <1>2, <1>3, MeasuresStay
  <2> QED BY <1>2, <1>3, <2>1 DEF OnceInOrder
<1> QED BY <1>2, <1>6, <1>7 DEF RetryInv, RetryTyped, RetrySound

LEMMA NextTaskKeeps ==
  ASSUME RetryInv, NextTask
  PROVE  RetryInv'
<1>1. PICK d, D : RetrySound(d, D)
  BY DEF RetryInv
<1> DEFINE x == Head(order)
<1>2. /\ phase = "send" /\ order # <<>> /\ order' = Tail(order)
      /\ UNCHANGED <<rootRelations, queue, visited>>
      /\ results \in Seq(GraphIds) /\ queue \in Seq(GraphIds) /\ order \in Seq(GraphIds)
  BY DEF NextTask, linkVars, RetryInv, RetryTyped
<1>3. Measures(d, D) /\ OnceInOrder(d, D) /\ Sending(D)
  BY <1>1, <1>2 DEF RetrySound
<1>4. Measures(d, D)'
  BY <1>2, <1>3, MeasuresStay
<1>5. /\ order' \in Seq(GraphIds) /\ NoRepeats(order') /\ x \in GraphIds
      /\ ToSet(order) = {x} \cup ToSet(order') /\ x \notin ToSet(order')
      /\ Ordered(d, order') /\ \A y \in ToSet(order') : d[x] <= d[y]
  <2>1. NoRepeats(order) /\ Ordered(d, order)
    BY <1>3 DEF OnceInOrder
  <2> QED BY <1>2, <2>1, AfterTail
<1>6. CASE results' = Append(results, x) /\ UNCHANGED <<skipped, phase>>
  <2> HIDE DEF x
  <2>1. x \notin ToSet(results) /\ NoRepeats(results) /\ Ordered(d, results)
        /\ \A y \in ToSet(results) : d[y] <= d[x]
    BY <1>3, <1>5 DEF OnceInOrder
  <2>2. /\ results' \in Seq(GraphIds) /\ NoRepeats(results') /\ Ordered(d, results')
        /\ ToSet(results') = ToSet(results) \cup {x}
    BY <1>2, <1>5, <1>6, <2>1, AfterAppend
  <2>3. OnceInOrder(d, D)'
    BY <1>3, <1>5, <2>2 DEF OnceInOrder
  <2>4. Sending(D)'
    BY <1>3, <1>5, <1>6, <2>2 DEF Sending
  <2> QED BY <1>2, <1>4, <1>5, <1>6, <2>2, <2>3, <2>4 DEF RetryInv, RetryTyped, RetrySound
<1>7. CASE skipped' = skipped \cup {x} /\ UNCHANGED <<results, phase>>
  <2> HIDE DEF x
  <2>1. OnceInOrder(d, D)'
    BY <1>3, <1>5, <1>7 DEF OnceInOrder
  <2>2. x \notin ToSet(results)
    BY <1>3, <1>5 DEF OnceInOrder
  <2>3. Sending(D)'
    BY <1>3, <1>5, <1>7, <2>2 DEF Sending
  <2> QED BY <1>2, <1>4, <1>5, <1>7, <2>1, <2>3 DEF RetryInv, RetryTyped, RetrySound
<1>8. CASE phase' = "raised" /\ UNCHANGED <<results, skipped>>
  <2> HIDE DEF x
  <2>1. OnceInOrder(d, D)'
    BY <1>3, <1>5, <1>8 DEF OnceInOrder
  <2> QED BY <1>2, <1>4, <1>5, <1>8, <2>1 DEF RetryInv, RetryTyped, RetrySound
<1> QED BY <1>6, <1>7, <1>8 DEF NextTask

LEMMA EndRetryKeeps ==
  ASSUME RetryInv, EndRetry \/ UNCHANGED retryVars
  PROVE  RetryInv'
<1>1. PICK d, D : RetrySound(d, D)
  BY DEF RetryInv
<1>2. /\ UNCHANGED <<rootRelations, queue, visited, order, results, skipped>>
      /\ phase' = phase \/ (phase = "send" /\ order = <<>> /\ phase' = "done")
  BY DEF EndRetry, linkVars, retryVars
<1>3. Measures(d, D)'
  BY <1>1, <1>2, MeasuresStay DEF RetrySound
<1>4. OnceInOrder(d, D)' /\ (Sending(D) => Sending(D)')
  BY <1>1, <1>2 DEF RetrySound, OnceInOrder, Sending
<1>5. Walking(d, D) => Walking(d, D)'
  <2>1. Followed(visited, queue) => Followed(visited, queue)'
    BY <1>2 DEF Followed, Children
  <2> QED BY <1>2, <2>1 DEF Walking, Level
<1> QED BY <1>1, <1>2, <1>3, <1>4, <1>5 DEF RetryInv, RetryTyped, RetrySound

LEMMA RetryInvHolds == RetrySpec => []RetryInv
<1>1. RetryInit => RetryInv
  <2> SUFFICES ASSUME RetryInit PROVE RetryInv
    OBVIOUS
  <2>1. /\ queue = <<FailedTask>> /\ visited = {} /\ order = <<>> /\ phase = "walk"
        /\ results = <<>> /\ skipped = {} /\ FailedTask \in GraphIds
    BY RetryAssumption DEF RetryInit
  <2>2. PICK d, D : Measures(d, D)
    BY MeasuresExist
  <2>3. /\ FailedTask \in D /\ d[FailedTask] = 0 /\ d \in [D -> Nat]
        /\ \A x \in D : d[x] = 0 => x = FailedTask
    BY <2>2, MeasureFacts
  <2>4. /\ ToSet(<<>>) = {} /\ NoRepeats(<<>>) /\ Ordered(d, <<>>)
        /\ <<>> \in Seq(GraphIds)
    BY DEF ToSet, NoRepeats, Ordered
  <2>5. /\ queue \in Seq(GraphIds) /\ Len(queue) = 1 /\ queue[1] = FailedTask
        /\ ToSet(queue) = {FailedTask}
    BY <2>1 DEF ToSet
  <2>6. Level(d, D, visited, queue, 0, 1)
    <3>1. \A x \in D : ~(d[x] < 0)
      BY <2>3
    <3> QED BY <2>1, <2>3, <2>5, <3>1 DEF Level
  <2>7. Walking(d, D)
    <3>1. 0 \in Nat /\ 1 \in 0 .. Len(queue)
      BY <2>5
    <3> QED BY <2>1, <2>3, <2>4, <2>5, <2>6, <3>1 DEF Walking, Followed
  <2>8. OnceInOrder(d, D)
    BY <2>1, <2>4 DEF OnceInOrder
  <2> QED BY <2>1, <2>2, <2>4, <2>5, <2>7, <2>8 DEF RetryInv, RetryTyped, RetrySound
<1>2. RetryInv /\ [RetryNext]_retryVars => RetryInv'
  BY VisitKeeps, EndWalkKeeps, NextTaskKeeps, EndRetryKeeps DEF RetryNext
<1> QED BY <1>1, <1>2, PTL DEF RetrySpec

(* A retry that returns has sent every task downstream of the failed one once, save
   those it could not send, for every set of stored relations: the ids visited and
   queued hold all children of the visited ones, so the empty queue ends a walk that
   found everything. *)
THEOREM EverythingOnce == RetrySpec => []RetriesAllOnce
<1>1. RetryInv => RetriesAllOnce
  <2> SUFFICES ASSUME RetryInv PROVE RetriesAllOnce
    OBVIOUS
  <2>1. PICK d, D : RetrySound(d, D)
    BY DEF RetryInv
  <2>2. results \in Seq(GraphIds) /\ DOMAIN results = 1 .. Len(results)
    BY DEF RetryInv
  <2>3. \A i, j \in DOMAIN results : i # j => results[i] # results[j]
    BY <2>1, <2>2 DEF RetrySound, OnceInOrder, NoRepeats
  <2>4. ASSUME phase = "done" PROVE ToSet(results) = Downstream \ skipped
    <3>1. D = Downstream /\ order = <<>> /\ Sending(D)
      BY <2>1, <2>4 DEF RetrySound, Measures
    <3>2. ToSet(order) = {}
      BY <3>1 DEF ToSet
    <3> QED BY <3>1, <3>2 DEF Sending
  <2> QED BY <2>3, <2>4 DEF RetriesAllOnce
<1> QED BY <1>1, RetryInvHolds, PTL

(* Tasks are sent in the order of their distance from the failed one: the queue holds
   what is left at one distance, then the next. *)
THEOREM NearestAreFirst == RetrySpec => []NearestFirst
<1>1. RetryInv => NearestFirst
  <2> SUFFICES ASSUME RetryInv PROVE NearestFirst
    OBVIOUS
  <2>1. PICK d, D : RetrySound(d, D)
    BY DEF RetryInv
  <2>2. results \in Seq(GraphIds) /\ DOMAIN results = 1 .. Len(results)
    BY DEF RetryInv
  <2>3. Ordered(d, results) /\ ToSet(results) \subseteq D /\ \A x \in D : d[x] = Distance(x)
    BY <2>1 DEF RetrySound, OnceInOrder, Measures
  <2>4. \A i \in 1 .. Len(results) : d[results[i]] = Distance(results[i])
    BY <2>2, <2>3 DEF ToSet
  <2> QED BY <2>2, <2>3, <2>4 DEF NearestFirst, Ordered
<1> QED BY <1>1, RetryInvHolds, PTL

=============================================================================

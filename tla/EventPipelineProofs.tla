-------------------------- MODULE EventPipelineProofs --------------------------
(***************************************************************************)
(* Proofs about EventPipeline.  TypeOK holds for any tasks, workers,        *)
(* exporters and queue sizes; GaugesMatchTrackers and NothingLeaks where no  *)
(* task is delivered to a second worker, which is the case they are about.   *)
(***************************************************************************)
EXTENDS EventPipeline, FiniteSetTheorems, SequenceTheorems, TLAPS

Events == TaskEvent \cup WorkerEvent

TaskEvents(t) == {e \in TaskEvent : e.task = t}
WorkerEvents(w) == {e \in WorkerEvent : e.worker = w}

(* No task is delivered to a second worker. *)
OneWorkerEach == \A t \in Tasks : \A v, w \in WorkersOf[t] : v = w

-----------------------------------------------------------------------------
(* The inductive invariant *)

(* An event says what its task and its worker can say. *)
Sayable(e) ==
  /\ e \in TaskEvent => e.worker \in WorkersOf[e.task]
  /\ e \in WorkerEvent => e.load \in LoadsOf[e.worker]

EventsSayable ==
  /\ \A t \in Tasks : life[t] # "new" => at[t] \in WorkersOf[t]
  /\ event # None => Sayable(event)
  /\ \A x \in Exporters : \A i \in DOMAIN queue[x] : Sayable(queue[x][i])

(* What the exporters remember came from events. *)
Tracked(x) == {t \in Tasks : trackers[x][t] # None}

MemoryOf(x) ==
  /\ \A t \in Tracked(x) : trackers[x][t].worker \in WorkersOf[t]
  /\ \A w \in known[x] : LoadsOf[w] # {}
  /\ IsFiniteSet(Tracked(x))

MemorySound == \A x \in Exporters : MemoryOf(x)

(* The event the listener is at is the newest of its task or worker. *)
EventIsNews ==
  /\ event = None => offers = {}
  /\ event \in TaskEvent => event.state = life[event.task]
  /\ event \in WorkerEvent => event.online = up[event.worker]

NewestIn(q, S, i) == q[i] \in S /\ \A j \in DOMAIN q : j > i => q[j] \notin S
NoneIn(q, S) == \A i \in DOMAIN q : q[i] \notin S
Offered(x, S) == x \in offers /\ event \in S

(* Of an exporter that got every event: the newest in its queue about a task has the
   task's state and, when none is to come, a tracker has it. *)
TaskFollowed(x, t) ==
  ~ Offered(x, TaskEvents(t)) =>
    /\ \A i \in DOMAIN queue[x] :
         NewestIn(queue[x], TaskEvents(t), i) => queue[x][i].state = life[t]
    /\ NoneIn(queue[x], TaskEvents(t)) =>
         trackers[x][t] = None \/ trackers[x][t].state = life[t]

TasksFollowed == \A x \in complete, t \in Tasks : TaskFollowed(x, t)

(* The same of workers and what they are shown as. *)
WorkerFollowed(x, w) ==
  ~ Offered(x, WorkerEvents(w)) =>
    /\ \A i \in DOMAIN queue[x] :
         NewestIn(queue[x], WorkerEvents(w), i) => queue[x][i].online = up[w]
    /\ NoneIn(queue[x], WorkerEvents(w)) => online[x][w] \in {None, up[w]}

WorkersFollowed == \A x \in complete, w \in Workers : WorkerFollowed(x, w)

Inv ==
  /\ TypeOK
  /\ EventsSayable
  /\ MemorySound
  /\ EventIsNews
  /\ TasksFollowed
  /\ WorkersFollowed

-----------------------------------------------------------------------------
(* What the operators of the model do *)

LEMMA EventShape ==
  ASSUME NEW e \in Events
  PROVE  /\ "task" \in DOMAIN e => e \in TaskEvent
         /\ "task" \notin DOMAIN e => e \in WorkerEvent
         /\ e.worker \in Workers
         /\ e # None
<1>1. CASE e \in TaskEvent
  BY <1>1, NoneIsNothing DEF TaskEvent
<1>2. CASE e \in WorkerEvent
  BY <1>2, NoneIsNothing DEF WorkerEvent
<1> QED BY <1>1, <1>2 DEF Events

(* No event is about both a task and a worker alone. *)
LEMMA KindsApart == TaskEvent \cap WorkerEvent = {}
<1> SUFFICES ASSUME NEW e \in TaskEvent, e \in WorkerEvent PROVE FALSE
  OBVIOUS
<1>1. DOMAIN e = {"task", "state", "worker"}
  BY DEF TaskEvent
<1>2. DOMAIN e = {"worker", "load", "online"}
  BY DEF WorkerEvent
<1> QED BY <1>1, <1>2

(* A gauge of which a worker is counted. *)
LEMMA CountedGauge ==
  ASSUME NEW gauge \in Gauge, NEW w \in Workers, NEW label \in Labels, NEW n \in Nat
  PROVE  Counted(gauge, w, label, n) \in Gauge
<1> DEFINE old == gauge[w]
           set == [old.set EXCEPT ![label] = n]
           added == [old.added EXCEPT ![label] = @ + n - old.count]
           new == [count |-> n, set |-> set, added |-> added]
<1>1. Counted(gauge, w, label, n) = [gauge EXCEPT ![w] = new]
  BY DEF Counted
<1>2. old \in [count : Nat, set : [Labels -> Nat], added : [Labels -> Int]]
  BY DEF Gauge
<1>3. set \in [Labels -> Nat]
  BY <1>2
<1>4. added \in [Labels -> Int]
  <2>1. old.added \in [Labels -> Int] /\ old.count \in Nat
    BY <1>2
  <2>2. old.added[label] + n - old.count \in Int
    <3>1. old.added[label] \in Int
      BY <2>1
    <3> HIDE DEF old
    <3> QED BY <3>1, <2>1
  <2> HIDE DEF old
  <2> QED BY <2>1, <2>2
<1>5. new \in [count : Nat, set : [Labels -> Nat], added : [Labels -> Int]]
  <2> HIDE DEF set, added, old
  <2> QED BY <1>3, <1>4
<1> HIDE DEF new
<1>7. [gauge EXCEPT ![w] = new] \in Gauge
  BY <1>5 DEF Gauge
<1> QED BY <1>1, <1>7

LEMMA LabelIsOne == ASSUME NEW x, NEW w PROVE Label(x, w) \in Labels
BY DEF Label, Labels

(* An adjusted gauge is a counted one, and never below zero. *)
LEMMA AdjustedGauge ==
  ASSUME NEW x, NEW gauge \in Gauge, NEW w \in Workers, NEW delta \in {-1, 1}
  PROVE  \E n \in Nat :
           /\ Adjusted(x, gauge, w, delta) = Counted(gauge, w, Label(x, w), n)
           /\ gauge[w].count + delta >= 0 => n = gauge[w].count + delta
<1> DEFINE m == gauge[w].count + delta
           n == IF m <= 0 THEN 0 ELSE m
<1>1. gauge[w].count \in Nat
  BY DEF Gauge
<1>2. m \in Int
  BY <1>1
<1>3. n \in Nat /\ (m >= 0 => n = m)
  <2> HIDE DEF m
  <2> QED BY <1>2
<1>4. Adjusted(x, gauge, w, delta) = Counted(gauge, w, Label(x, w), n)
  BY DEF Adjusted
<1> HIDE DEF n
<1> QED BY <1>3, <1>4

LEMMA AdjustedIsGauge ==
  ASSUME NEW x, NEW gauge \in Gauge, NEW w \in Workers, NEW delta \in {-1, 1}
  PROVE  Adjusted(x, gauge, w, delta) \in Gauge
<1>1. PICK n \in Nat : Adjusted(x, gauge, w, delta) = Counted(gauge, w, Label(x, w), n)
  BY AdjustedGauge
<1>2. Label(x, w) \in Labels
  BY LabelIsOne
<1>3. Counted(gauge, w, Label(x, w), n) \in Gauge
  BY <1>2, CountedGauge
<1> QED BY <1>1, <1>3

LEMMA MovedIsGauge ==
  ASSUME NEW x, NEW gauge \in Gauge, NEW state, NEW previous \in Tracker \cup {None},
         NEW e \in TaskEvent
  PROVE  Moved(x, gauge, state, previous, e) \in Gauge
<1>1. e.worker \in Workers
  BY DEF TaskEvent
<1>2. previous # None => previous.worker \in Workers
  BY DEF Tracker
<1>3. CASE previous # None /\ previous.state = state /\ e.state # state
  BY <1>2, <1>3, AdjustedIsGauge DEF Moved
<1>4. CASE e.state = state /\ (previous = None \/ previous.state # state)
  BY <1>1, <1>4, AdjustedIsGauge DEF Moved
<1>5. CASE /\ ~ (previous # None /\ previous.state = state /\ e.state # state)
           /\ ~ (e.state = state /\ (previous = None \/ previous.state # state))
  BY <1>5 DEF Moved
<1> QED BY <1>3, <1>4, <1>5

LEMMA ZeroIsGauge == Zero \in Gauge
<1>1. NoSeries \in [Labels -> Nat] /\ NoSeries \in [Labels -> Int]
  BY DEF NoSeries
<1> QED BY <1>1 DEF Zero, Gauge

-----------------------------------------------------------------------------
(* Types *)

LEMMA InitType == Init => TypeOK
<1> SUFFICES ASSUME Init PROVE TypeOK
  OBVIOUS
<1> USE DEF Init
<1>1. /\ life \in [Tasks -> States \cup {"new"}]
      /\ at \in [Tasks -> Workers \cup {None}]
      /\ up \in [Workers -> BOOLEAN \cup {None}]
  BY DEF Silent
<1>2. received \in [Tasks -> Nat] /\ \A t \in Tasks : received[t] <= MaxReceived[t]
  BY PipelineAssumption
<1>3. /\ event \in TaskEvent \cup WorkerEvent \cup {None}
      /\ offers \subseteq Exporters /\ sentToDb \in BOOLEAN /\ complete \subseteq Exporters
  OBVIOUS
<1>4. /\ queue \in [Exporters -> Seq(TaskEvent \cup WorkerEvent)]
      /\ \A x \in Exporters : Len(queue[x]) <= QueueSize
  <2>1. <<>> \in Seq(TaskEvent \cup WorkerEvent) /\ Len(<<>>) = 0
    OBVIOUS
  <2>2. 0 <= QueueSize
    BY PipelineAssumption
  <2> QED BY <2>1, <2>2
<1>5. trackers \in [Exporters -> [Tasks -> Tracker \cup {None}]]
  OBVIOUS
<1>6. prefetched \in [Exporters -> Gauge] /\ active \in [Exporters -> Gauge]
  BY ZeroIsGauge
<1>7. /\ known \in [Exporters -> SUBSET Workers]
      /\ online \in [Exporters -> [Workers -> BOOLEAN \cup {None}]]
  BY DEF Silent
<1> QED BY <1>1, <1>2, <1>3, <1>4, <1>5, <1>6, <1>7 DEF TypeOK

(* What the listener does with an event keeps its own variables. *)
LEMMA PublishType ==
  ASSUME TypeOK, NEW e \in Events, Publish(e)
  PROVE  /\ event' \in TaskEvent \cup WorkerEvent \cup {None}
         /\ offers' \subseteq Exporters /\ sentToDb' \in BOOLEAN /\ complete' \subseteq Exporters
BY DEF TypeOK, Events, Publish, listenerVars

LEMMA TaskStepType ==
  ASSUME TypeOK, NEW t \in Tasks, NEW state \in States, NEW w \in Workers,
         TaskStep(t, state, w)
  PROVE  TypeOK'
<1>1. [task |-> t, state |-> state, worker |-> w] \in Events
  BY DEF Events, TaskEvent
<1>2. /\ event' \in TaskEvent \cup WorkerEvent \cup {None}
      /\ offers' \subseteq Exporters /\ sentToDb' \in BOOLEAN /\ complete' \subseteq Exporters
  BY <1>1, PublishType DEF TaskStep
<1>3. /\ life' \in [Tasks -> States \cup {"new"}]
      /\ at' \in [Tasks -> Workers \cup {None}]
  BY DEF TypeOK, TaskStep
<1>4. received' \in [Tasks -> Nat] /\ \A k \in Tasks : received'[k] <= MaxReceived[k]
  <2>1. CASE state = "RECEIVED"
    <3>1. received' = [received EXCEPT ![t] = @ + 1] /\ received[t] < MaxReceived[t]
      BY <2>1 DEF TaskStep
    <3>2. /\ received[t] \in Nat /\ MaxReceived[t] \in Nat /\ received \in [Tasks -> Nat]
          /\ \A k \in Tasks : received[k] <= MaxReceived[k]
      BY PipelineAssumption DEF TypeOK
    <3>3. received[t] + 1 \in Nat /\ received[t] + 1 <= MaxReceived[t]
      BY <3>1, <3>2
    <3> QED BY <3>1, <3>2, <3>3
  <2>2. CASE state # "RECEIVED"
    BY <2>2 DEF TypeOK, TaskStep
  <2> QED BY <2>1, <2>2
<1>5. UNCHANGED <<up, queue, trackers, prefetched, active, known, online>>
  BY DEF TaskStep, exporterVars
<1> QED BY <1>2, <1>3, <1>4, <1>5 DEF TypeOK

LEMMA WorkerStepType ==
  ASSUME TypeOK, NEW w \in Workers, NEW isUp \in BOOLEAN, NEW load \in LoadsOf[w],
         WorkerStep(w, load, isUp)
  PROVE  TypeOK'
<1>1. [worker |-> w, load |-> load, online |-> isUp] \in Events
  BY DEF Events, WorkerEvent
<1>2. /\ event' \in TaskEvent \cup WorkerEvent \cup {None}
      /\ offers' \subseteq Exporters /\ sentToDb' \in BOOLEAN /\ complete' \subseteq Exporters
  BY <1>1, PublishType DEF WorkerStep
<1>3. up' \in [Workers -> BOOLEAN \cup {None}]
  BY DEF TypeOK, WorkerStep
<1>4. UNCHANGED <<life, at, received, queue, trackers, prefetched, active, known, online>>
  BY DEF WorkerStep, exporterVars
<1> QED BY <1>2, <1>3, <1>4 DEF TypeOK

LEMMA ListenerType ==
  ASSUME TypeOK, SendToDb \/ SendRaises \/ Handled
  PROVE  TypeOK'
<1>1. UNCHANGED <<life, at, received, up, queue, trackers, prefetched, active, known, online>>
  BY DEF SendToDb, SendRaises, Handled, worldVars, exporterVars
<1>2. /\ event' \in TaskEvent \cup WorkerEvent \cup {None}
      /\ offers' \subseteq Exporters /\ sentToDb' \in BOOLEAN /\ complete' \subseteq Exporters
  BY DEF TypeOK, SendToDb, SendRaises, Handled
<1> QED BY <1>1, <1>2 DEF TypeOK

(* Only an event is put into a queue, and only into one that is not full. *)
LEMMA PutType ==
  ASSUME TypeOK, EventIsNews, NEW x \in Exporters, Put(x)
  PROVE  /\ TypeOK'
         /\ event \in Events
<1>1. UNCHANGED <<life, at, received, up, trackers, prefetched, active, known, online, event, sentToDb>>
  BY DEF Put, worldVars, exporterVars
<1>2. event \in Events
  BY DEF Put, EventIsNews, TypeOK, Events
<1>3. offers' \subseteq Exporters /\ complete' \subseteq Exporters
  BY DEF TypeOK, Put
<1>4. /\ queue' \in [Exporters -> Seq(TaskEvent \cup WorkerEvent)]
      /\ \A y \in Exporters : Len(queue'[y]) <= QueueSize
  <2>1. CASE Len(queue[x]) < QueueSize
    <3>1. queue' = [queue EXCEPT ![x] = Append(@, event)]
      BY <2>1 DEF Put
    <3>2. /\ queue \in [Exporters -> Seq(TaskEvent \cup WorkerEvent)]
          /\ \A y \in Exporters : Len(queue[y]) <= QueueSize
      BY DEF TypeOK
    <3>3. /\ Append(queue[x], event) \in Seq(TaskEvent \cup WorkerEvent)
          /\ Len(Append(queue[x], event)) = Len(queue[x]) + 1
      <4>1. queue[x] \in Seq(Events)
        BY <3>2 DEF Events
      <4>2. /\ Append(queue[x], event) \in Seq(Events)
            /\ Len(Append(queue[x], event)) = Len(queue[x]) + 1
        BY <4>1, <1>2, AppendProperties
      <4> QED BY <4>2 DEF Events
    <3>4. Len(queue[x]) + 1 <= QueueSize
      <4>1. Len(queue[x]) \in Nat /\ QueueSize \in Nat
        BY <3>2, PipelineAssumption, LenProperties
      <4> QED BY <4>1, <2>1
    <3> QED BY <3>1, <3>2, <3>3, <3>4
  <2>2. CASE ~ (Len(queue[x]) < QueueSize)
    BY <2>2 DEF TypeOK, Put
  <2> QED BY <2>1, <2>2
<1> QED BY <1>1, <1>2, <1>3, <1>4 DEF TypeOK

(* The head of a queue is an event and what is left is a shorter queue. *)
LEMMA QueueHead ==
  ASSUME TypeOK, NEW x \in Exporters, queue[x] # <<>>
  PROVE  /\ Head(queue[x]) \in Events
         /\ Tail(queue[x]) \in Seq(Events)
         /\ Len(Tail(queue[x])) = Len(queue[x]) - 1
         /\ Len(queue[x]) \in Nat \ {0}
         /\ \A i \in 1 .. Len(queue[x]) - 1 : Tail(queue[x])[i] = queue[x][i + 1]
         /\ Head(queue[x]) = queue[x][1]
<1>1. queue[x] \in Seq(Events)
  BY DEF TypeOK, Events
<1>2. /\ Head(queue[x]) = queue[x][1] /\ Tail(queue[x]) \in Seq(Events)
      /\ Len(Tail(queue[x])) = Len(queue[x]) - 1
      /\ \A i \in 1 .. Len(Tail(queue[x])) : Tail(queue[x])[i] = queue[x][i + 1]
  BY <1>1, HeadTailProperties
<1>3. Len(queue[x]) \in Nat \ {0}
  BY <1>1, EmptySeq, LenProperties
<1>4. queue[x][1] \in Events
  BY <1>1, <1>3, ElementOfSeq
<1> QED BY <1>2, <1>3, <1>4

LEMMA TrackType ==
  ASSUME TypeOK, NEW x \in Exporters, NEW e \in TaskEvent, Track(x, e)
  PROVE  /\ trackers' \in [Exporters -> [Tasks -> Tracker \cup {None}]]
         /\ prefetched' \in [Exporters -> Gauge] /\ active' \in [Exporters -> Gauge]
         /\ known' \in [Exporters -> SUBSET Workers]
         /\ online' \in [Exporters -> [Workers -> BOOLEAN \cup {None}]]
<1>1. e.task \in Tasks /\ e.state \in States /\ e.worker \in Workers
  BY DEF TaskEvent
<1>2. trackers[x][e.task] \in Tracker \cup {None}
  BY <1>1 DEF TypeOK
<1>3. prefetched[x] \in Gauge /\ active[x] \in Gauge
  BY DEF TypeOK
<1>4. /\ Moved(x, prefetched[x], "RECEIVED", trackers[x][e.task], e) \in Gauge
      /\ Moved(x, active[x], "STARTED", trackers[x][e.task], e) \in Gauge
  BY <1>2, <1>3, MovedIsGauge
<1>5. prefetched' \in [Exporters -> Gauge] /\ active' \in [Exporters -> Gauge]
  BY <1>4 DEF Track, TypeOK
<1>6. trackers' \in [Exporters -> [Tasks -> Tracker \cup {None}]]
  <2> DEFINE new == IF e.state \in Terminal THEN None ELSE [state |-> e.state, worker |-> e.worker]
  <2>1. new \in Tracker \cup {None}
    BY <1>1 DEF Tracker
  <2>2. trackers' = [trackers EXCEPT ![x][e.task] = new]
    BY DEF Track
  <2> HIDE DEF new
  <2> QED BY <2>1, <2>2, <1>1 DEF TypeOK
<1>7. UNCHANGED <<known, online>>
  BY DEF Track
<1> QED BY <1>5, <1>6, <1>7 DEF TypeOK

LEMMA WorkerSeenType ==
  ASSUME TypeOK, NEW x \in Exporters, NEW e \in WorkerEvent, WorkerSeen(x, e)
  PROVE  /\ trackers' \in [Exporters -> [Tasks -> Tracker \cup {None}]]
         /\ prefetched' \in [Exporters -> Gauge] /\ active' \in [Exporters -> Gauge]
         /\ known' \in [Exporters -> SUBSET Workers]
         /\ online' \in [Exporters -> [Workers -> BOOLEAN \cup {None}]]
<1>1. e.worker \in Workers /\ e.load \in Nat /\ e.online \in BOOLEAN
  BY PipelineAssumption DEF WorkerEvent
<1>2. active[x] \in Gauge
  BY DEF TypeOK
<1>3. Counted(active[x], e.worker, "broker", e.load) \in Gauge
  BY <1>1, <1>2, CountedGauge DEF Labels
<1>4. active' \in [Exporters -> Gauge]
  BY <1>3 DEF WorkerSeen, TypeOK
<1>5. known' \in [Exporters -> SUBSET Workers]
  BY <1>1 DEF WorkerSeen, TypeOK
<1>6. online' \in [Exporters -> [Workers -> BOOLEAN \cup {None}]]
  BY <1>1 DEF WorkerSeen, TypeOK
<1>7. UNCHANGED <<trackers, prefetched>>
  BY DEF WorkerSeen
<1> QED BY <1>4, <1>5, <1>6, <1>7 DEF TypeOK

LEMMA ExportType ==
  ASSUME TypeOK, NEW x \in Exporters, Export(x)
  PROVE  TypeOK'
<1>1. UNCHANGED <<life, at, received, up, event, offers, sentToDb, complete>>
  BY DEF Export, worldVars, listenerVars
<1>2. queue[x] # <<>> /\ queue' = [queue EXCEPT ![x] = Tail(@)]
  BY DEF Export
<1>3. /\ queue' \in [Exporters -> Seq(TaskEvent \cup WorkerEvent)]
      /\ \A y \in Exporters : Len(queue'[y]) <= QueueSize
  <2>1. /\ Tail(queue[x]) \in Seq(TaskEvent \cup WorkerEvent)
        /\ Len(Tail(queue[x])) = Len(queue[x]) - 1
        /\ Len(queue[x]) \in Nat
    BY <1>2, QueueHead DEF Events
  <2>2. Len(Tail(queue[x])) <= QueueSize
    <3>1. QueueSize \in Nat /\ Len(queue[x]) <= QueueSize
      BY PipelineAssumption DEF TypeOK
    <3> QED BY <3>1, <2>1
  <2> QED BY <1>2, <2>1, <2>2 DEF TypeOK
<1>4. /\ trackers' \in [Exporters -> [Tasks -> Tracker \cup {None}]]
      /\ prefetched' \in [Exporters -> Gauge] /\ active' \in [Exporters -> Gauge]
      /\ known' \in [Exporters -> SUBSET Workers]
      /\ online' \in [Exporters -> [Workers -> BOOLEAN \cup {None}]]
  <2> DEFINE e == Head(queue[x])
  <2>1. e \in Events
    BY <1>2, QueueHead
  <2>2. IF "task" \in DOMAIN e THEN Track(x, e) ELSE WorkerSeen(x, e)
    BY DEF Export
  <2> HIDE DEF e
  <2>3. CASE "task" \in DOMAIN e
    <3>1. e \in TaskEvent
      BY <2>1, <2>3, EventShape
    <3> QED BY <3>1, <2>2, <2>3, TrackType
  <2>4. CASE "task" \notin DOMAIN e
    <3>1. e \in WorkerEvent
      BY <2>1, <2>4, EventShape
    <3> QED BY <3>1, <2>2, <2>4, WorkerSeenType
  <2> QED BY <2>3, <2>4
<1> QED BY <1>1, <1>3, <1>4 DEF TypeOK

LEMMA RestartType ==
  ASSUME TypeOK, NEW x \in Exporters, Restart(x)
  PROVE  TypeOK'
<1>1. UNCHANGED <<life, at, received, up, event, offers, sentToDb, queue, complete>>
  BY DEF Restart, worldVars, listenerVars
<1>2. trackers' \in [Exporters -> [Tasks -> Tracker \cup {None}]]
  <2>1. [t \in Tasks |-> None] \in [Tasks -> Tracker \cup {None}]
    OBVIOUS
  <2> QED BY <2>1 DEF Restart, TypeOK
<1>3. prefetched' \in [Exporters -> Gauge] /\ active' \in [Exporters -> Gauge]
  BY ZeroIsGauge DEF Restart, TypeOK
<1>4. known' \in [Exporters -> SUBSET Workers]
  BY DEF Restart, TypeOK
<1>5. online' \in [Exporters -> [Workers -> BOOLEAN \cup {None}]]
  <2>1. Silent \in [Workers -> BOOLEAN \cup {None}]
    BY DEF Silent
  <2> QED BY <2>1 DEF Restart, TypeOK
<1> QED BY <1>1, <1>2, <1>3, <1>4, <1>5 DEF TypeOK

-----------------------------------------------------------------------------
(* Queues *)

LEMMA AppendShape ==
  ASSUME NEW q \in Seq(Events), NEW e \in Events
  PROVE  /\ DOMAIN q = 1 .. Len(q) /\ Len(q) \in Nat
         /\ DOMAIN Append(q, e) = 1 .. Len(q) + 1
         /\ \A i \in 1 .. Len(q) : Append(q, e)[i] = q[i]
         /\ Append(q, e)[Len(q) + 1] = e
BY LenProperties, AppendProperties

LEMMA TailShape ==
  ASSUME NEW q \in Seq(Events), q # <<>>
  PROVE  /\ DOMAIN q = 1 .. Len(q) /\ Len(q) \in Nat \ {0}
         /\ DOMAIN Tail(q) = 1 .. Len(q) - 1
         /\ \A i \in 1 .. Len(q) - 1 : Tail(q)[i] = q[i + 1]
         /\ Head(q) = q[1]
<1>1. DOMAIN q = 1 .. Len(q) /\ Len(q) \in Nat \ {0}
  BY LenProperties, EmptySeq
<1>2. /\ Head(q) = q[1] /\ Tail(q) \in Seq(Events) /\ Len(Tail(q)) = Len(q) - 1
      /\ \A i \in 1 .. Len(Tail(q)) : Tail(q)[i] = q[i + 1]
  BY HeadTailProperties
<1>3. DOMAIN Tail(q) = 1 .. Len(Tail(q))
  BY <1>2, LenProperties
<1> QED BY <1>1, <1>2, <1>3

(* What an appended event changes about the newest of a kind. *)
LEMMA NewestAppend ==
  ASSUME NEW S, NEW q \in Seq(Events), NEW e \in Events
  PROVE  /\ e \in S =>
              /\ \A i \in DOMAIN Append(q, e) :
                   NewestIn(Append(q, e), S, i) => Append(q, e)[i] = e
              /\ ~ NoneIn(Append(q, e), S)
         /\ e \notin S =>
              /\ \A i \in DOMAIN Append(q, e) :
                   NewestIn(Append(q, e), S, i) =>
                     i \in DOMAIN q /\ NewestIn(q, S, i) /\ Append(q, e)[i] = q[i]
              /\ NoneIn(Append(q, e), S) => NoneIn(q, S)
<1> DEFINE a == Append(q, e)
           n == Len(q)
<1>1. /\ DOMAIN q = 1 .. n /\ n \in Nat /\ DOMAIN a = 1 .. n + 1
      /\ \A i \in 1 .. n : a[i] = q[i]
      /\ a[n + 1] = e
  BY AppendShape
<1> HIDE DEF a, n
<1>2. ASSUME e \in S, NEW i \in DOMAIN a, NewestIn(a, S, i)
      PROVE  a[i] = e
  <2>1. ~ (n + 1 > i)
    <3>1. n + 1 \in DOMAIN a
      BY <1>1
    <3> QED BY <3>1, <1>1, <1>2 DEF NewestIn
  <2>2. i = n + 1
    BY <2>1, <1>1
  <2> QED BY <2>2, <1>1
<1>3. e \in S => ~ NoneIn(a, S)
  <2>1. n + 1 \in DOMAIN a
    BY <1>1
  <2> QED BY <2>1, <1>1 DEF NoneIn
<1>4. ASSUME e \notin S, NEW i \in DOMAIN a, NewestIn(a, S, i)
      PROVE  i \in DOMAIN q /\ NewestIn(q, S, i) /\ a[i] = q[i]
  <2>1. i # n + 1
    BY <1>1, <1>4 DEF NewestIn
  <2>2. i \in 1 .. n
    BY <2>1, <1>1
  <2>3. \A j \in 1 .. n : j \in DOMAIN a /\ a[j] = q[j]
    BY <1>1
  <2>4. q[i] \in S
    BY <2>2, <2>3, <1>4 DEF NewestIn
  <2>5. \A j \in 1 .. n : j > i => q[j] \notin S
    BY <2>3, <1>4 DEF NewestIn
  <2> QED BY <2>2, <2>3, <2>4, <2>5, <1>1 DEF NewestIn
<1>5. NoneIn(a, S) => NoneIn(q, S)
  <2>1. \A j \in 1 .. n : j \in DOMAIN a /\ a[j] = q[j]
    BY <1>1
  <2> QED BY <2>1, <1>1 DEF NoneIn
<1> QED BY <1>2, <1>3, <1>4, <1>5 DEF a

(* What the event that is taken off leaves. *)
LEMMA NewestTail ==
  ASSUME NEW S, NEW q \in Seq(Events), q # <<>>
  PROVE  /\ \A i \in DOMAIN Tail(q) :
              NewestIn(Tail(q), S, i) =>
                i + 1 \in DOMAIN q /\ NewestIn(q, S, i + 1) /\ Tail(q)[i] = q[i + 1]
         /\ NoneIn(Tail(q), S) /\ Head(q) \in S =>
              1 \in DOMAIN q /\ NewestIn(q, S, 1) /\ q[1] = Head(q)
         /\ NoneIn(Tail(q), S) /\ Head(q) \notin S => NoneIn(q, S)
<1> DEFINE a == Tail(q)
           n == Len(q)
<1>1. /\ DOMAIN q = 1 .. n /\ n \in Nat \ {0} /\ DOMAIN a = 1 .. n - 1
      /\ \A i \in 1 .. n - 1 : a[i] = q[i + 1]
      /\ Head(q) = q[1]
  BY TailShape
<1> HIDE DEF a, n
<1>2. \A j \in 2 .. n : j - 1 \in DOMAIN a /\ a[j - 1] = q[j]
  <2> TAKE j \in 2 .. n
  <2>1. j - 1 \in 1 .. n - 1 /\ (j - 1) + 1 = j
    BY <1>1
  <2> QED BY <2>1, <1>1
<1>3. ASSUME NEW i \in DOMAIN a, NewestIn(a, S, i)
      PROVE  i + 1 \in DOMAIN q /\ NewestIn(q, S, i + 1) /\ a[i] = q[i + 1]
  <2>1. i \in 1 .. n - 1 /\ i + 1 \in 1 .. n /\ a[i] = q[i + 1]
    BY <1>1
  <2>2. ASSUME NEW j \in 1 .. n, j > i + 1
        PROVE  q[j] \notin S
    <3>1. j \in 2 .. n /\ j - 1 > i
      BY <2>1, <2>2, <1>1
    <3>2. j - 1 \in DOMAIN a /\ a[j - 1] = q[j]
      BY <3>1, <1>2
    <3> QED BY <3>1, <3>2, <1>3 DEF NewestIn
  <2> QED BY <2>1, <2>2, <1>1, <1>3 DEF NewestIn
<1>4. ASSUME NoneIn(a, S)
      PROVE  \A j \in 2 .. n : q[j] \notin S
  BY <1>2, <1>4 DEF NoneIn
<1>5. ASSUME NoneIn(a, S), Head(q) \in S
      PROVE  1 \in DOMAIN q /\ NewestIn(q, S, 1) /\ q[1] = Head(q)
  <2>1. \A j \in DOMAIN q : j > 1 => j \in 2 .. n
    BY <1>1
  <2> QED BY <2>1, <1>1, <1>4, <1>5 DEF NewestIn
<1>6. ASSUME NoneIn(a, S), Head(q) \notin S
      PROVE  NoneIn(q, S)
  <2>1. \A j \in DOMAIN q : j = 1 \/ j \in 2 .. n
    BY <1>1
  <2> QED BY <2>1, <1>1, <1>4, <1>6 DEF NoneIn
<1> QED BY <1>3, <1>5, <1>6 DEF a

LEMMA QueueIsSeq == ASSUME TypeOK, NEW x \in Exporters PROVE queue[x] \in Seq(Events)
BY DEF TypeOK, Events

(* The listener puts the event it is at into queues, or leaves them alone. *)
LEMMA PutQueues ==
  ASSUME TypeOK, EventIsNews, NEW x \in Exporters, Put(x)
  PROVE  /\ event \in Events /\ x \in offers
         /\ offers' = offers \ {x}
         /\ \A y \in Exporters \ {x} : queue'[y] = queue[y]
         /\ \/ queue'[x] = Append(queue[x], event) /\ complete' = complete
            \/ queue'[x] = queue[x] /\ complete' = complete \ {x}
         /\ UNCHANGED <<life, at, received, up, trackers, prefetched, active, known, online, event, sentToDb>>
<1>1. /\ UNCHANGED <<life, at, received, up, trackers, prefetched, active, known, online, event, sentToDb>>
      /\ x \in offers /\ offers' = offers \ {x}
  BY DEF Put, worldVars, exporterVars
<1>2. event \in Events
  BY PutType
<1>3. CASE Len(queue[x]) < QueueSize
  <2>1. queue' = [queue EXCEPT ![x] = Append(@, event)] /\ complete' = complete
    BY <1>3 DEF Put
  <2> QED BY <1>1, <1>2, <2>1 DEF TypeOK
<1>4. CASE ~ (Len(queue[x]) < QueueSize)
  <2>1. queue' = queue /\ complete' = complete \ {x}
    BY <1>4 DEF Put
  <2> QED BY <1>1, <1>2, <2>1
<1> QED BY <1>3, <1>4

(* An exporter takes the head of its own queue. *)
LEMMA ExportQueues ==
  ASSUME TypeOK, NEW x \in Exporters, Export(x)
  PROVE  /\ queue[x] \in Seq(Events) /\ queue[x] # <<>>
         /\ Head(queue[x]) \in Events
         /\ Head(queue[x]) \in TaskEvent => Track(x, Head(queue[x]))
         /\ Head(queue[x]) \in WorkerEvent => WorkerSeen(x, Head(queue[x]))
         /\ queue'[x] = Tail(queue[x])
         /\ \A y \in Exporters \ {x} : queue'[y] = queue[y]
         /\ UNCHANGED <<life, at, received, up, event, offers, sentToDb, complete>>
<1>1. UNCHANGED <<life, at, received, up, event, offers, sentToDb, complete>>
  BY DEF Export, worldVars, listenerVars
<1>2. queue[x] # <<>> /\ queue' = [queue EXCEPT ![x] = Tail(@)]
  BY DEF Export
<1>3. queue[x] \in Seq(Events) /\ Head(queue[x]) \in Events
  BY <1>2, QueueHead, QueueIsSeq
<1>4. queue'[x] = Tail(queue[x]) /\ \A y \in Exporters \ {x} : queue'[y] = queue[y]
  BY <1>2 DEF TypeOK
<1>5. Head(queue[x]) \in TaskEvent => Track(x, Head(queue[x]))
  <2> DEFINE e == Head(queue[x])
  <2>1. IF "task" \in DOMAIN e THEN Track(x, e) ELSE WorkerSeen(x, e)
    BY DEF Export
  <2>2. e \in TaskEvent => "task" \in DOMAIN e
    BY DEF TaskEvent
  <2> QED BY <2>1, <2>2
<1>6. Head(queue[x]) \in WorkerEvent => WorkerSeen(x, Head(queue[x]))
  <2> DEFINE e == Head(queue[x])
  <2>1. IF "task" \in DOMAIN e THEN Track(x, e) ELSE WorkerSeen(x, e)
    BY DEF Export
  <2>2. e \in WorkerEvent => "task" \notin DOMAIN e
    BY DEF WorkerEvent
  <2> QED BY <2>1, <2>2
<1> QED BY <1>1, <1>2, <1>3, <1>4, <1>5, <1>6

-----------------------------------------------------------------------------
(* Init establishes the invariant *)

LEMMA InitInv == Init => Inv
<1> SUFFICES ASSUME Init PROVE Inv
  OBVIOUS
<1>1. TypeOK
  BY InitType
<1>2. EventsSayable
  BY DEF Init, EventsSayable
<1>3. MemorySound
  <2> SUFFICES ASSUME NEW x \in Exporters PROVE MemoryOf(x)
    BY DEF MemorySound
  <2>1. Tracked(x) = {} /\ known[x] = {}
    BY DEF Init, Tracked
  <2>2. IsFiniteSet({})
    BY FS_EmptySet
  <2> QED BY <2>1, <2>2 DEF MemoryOf
<1>4. EventIsNews
  <2>1. event = None /\ offers = {}
    BY DEF Init
  <2> QED BY <2>1, NoneIsNothing DEF EventIsNews
<1>5. TasksFollowed
  <2> SUFFICES ASSUME NEW x \in complete, NEW t \in Tasks PROVE TaskFollowed(x, t)
    BY DEF TasksFollowed
  <2>1. queue[x] = <<>> /\ trackers[x][t] = None
    BY DEF Init
  <2> QED BY <2>1 DEF TaskFollowed
<1>6. WorkersFollowed
  <2> SUFFICES ASSUME NEW x \in complete, NEW w \in Workers PROVE WorkerFollowed(x, w)
    BY DEF WorkersFollowed
  <2>1. queue[x] = <<>> /\ online[x][w] = None
    BY DEF Init, Silent
  <2> QED BY <2>1 DEF WorkerFollowed
<1> QED BY <1>1, <1>2, <1>3, <1>4, <1>5, <1>6 DEF Inv

-----------------------------------------------------------------------------
(* Next preserves it, part by part *)

LEMMA NextType == Inv /\ [Next]_vars => TypeOK'
<1> SUFFICES ASSUME Inv, [Next]_vars PROVE TypeOK'
  OBVIOUS
<1>0. TypeOK /\ EventIsNews
  BY DEF Inv
<1>1. ASSUME NEW t \in Tasks, NEW state \in States, NEW w \in Workers, TaskStep(t, state, w)
      PROVE  TypeOK'
  BY <1>0, <1>1, TaskStepType
<1>2. ASSUME NEW w \in Workers, NEW isUp \in BOOLEAN, NEW load \in LoadsOf[w],
             WorkerStep(w, load, isUp)
      PROVE  TypeOK'
  BY <1>0, <1>2, WorkerStepType
<1>3. CASE SendToDb \/ SendRaises \/ Handled
  BY <1>0, <1>3, ListenerType
<1>4. ASSUME NEW x \in Exporters, Put(x) PROVE TypeOK'
  BY <1>0, <1>4, PutType
<1>5. ASSUME NEW x \in Exporters, Export(x) PROVE TypeOK'
  BY <1>0, <1>5, ExportType
<1>6. ASSUME NEW x \in Exporters, Restart(x) PROVE TypeOK'
  BY <1>0, <1>6, RestartType
<1>7. CASE UNCHANGED vars
  BY <1>0, <1>7 DEF TypeOK, vars, worldVars, listenerVars, exporterVars
<1> QED BY <1>1, <1>2, <1>3, <1>4, <1>5, <1>6, <1>7 DEF Next, Listen

(* A task that is not new has been delivered, also after its next step. *)
LEMMA TaskStepAt ==
  ASSUME TypeOK, EventsSayable, NEW t \in Tasks, NEW state \in States, NEW w \in Workers,
         TaskStep(t, state, w)
  PROVE  /\ w \in WorkersOf[t]
         /\ \A k \in Tasks : life'[k] # "new" => at'[k] \in WorkersOf[k]
<1>1. w \in WorkersOf[t]
  <2>1. CASE state = "RECEIVED"
    BY <2>1 DEF TaskStep
  <2>2. CASE state # "RECEIVED"
    <3>1. w = at[t] /\ life[t] \in Follows(state)
      BY <2>2 DEF TaskStep
    <3>2. "new" \notin Follows(state)
      BY <2>2 DEF Follows, States, Terminal
    <3> QED BY <3>1, <3>2 DEF EventsSayable
  <2> QED BY <2>1, <2>2
<1>2. life' = [life EXCEPT ![t] = state] /\ at' = [at EXCEPT ![t] = w]
  BY DEF TaskStep
<1>3. ASSUME NEW k \in Tasks, life'[k] # "new"
      PROVE  at'[k] \in WorkersOf[k]
  <2>1. CASE k = t
    BY <2>1, <1>1, <1>2 DEF TypeOK
  <2>2. CASE k # t
    <3>1. life'[k] = life[k] /\ at'[k] = at[k]
      BY <2>2, <1>2 DEF TypeOK
    <3> QED BY <3>1, <1>3 DEF EventsSayable
  <2> QED BY <2>1, <2>2
<1> QED BY <1>1, <1>3

LEMMA NextSayable == Inv /\ [Next]_vars => EventsSayable'
<1> SUFFICES ASSUME Inv, [Next]_vars PROVE EventsSayable'
  OBVIOUS
<1>0. TypeOK /\ EventsSayable /\ EventIsNews
  BY DEF Inv
<1>1. ASSUME NEW t \in Tasks, NEW state \in States, NEW w \in Workers, TaskStep(t, state, w)
      PROVE  EventsSayable'
  <2> DEFINE e == [task |-> t, state |-> state, worker |-> w]
  <2>1. w \in WorkersOf[t] /\ \A k \in Tasks : life'[k] # "new" => at'[k] \in WorkersOf[k]
    BY <1>0, <1>1, TaskStepAt
  <2>2. e \in TaskEvent
    BY DEF TaskEvent
  <2>3. Sayable(e)
    <3>1. e \notin WorkerEvent
      BY <2>2, KindsApart
    <3> QED BY <2>1, <3>1 DEF Sayable
  <2>4. queue' = queue
    BY <1>1 DEF TaskStep
  <2>5. event' = e \/ event' = event
    BY <1>1 DEF TaskStep, Publish, listenerVars
  <2> HIDE DEF e
  <2>6. event' # None => Sayable(event')
    BY <2>3, <2>5, <1>0 DEF EventsSayable
  <2>7. \A x \in Exporters : \A i \in DOMAIN queue'[x] : Sayable(queue'[x][i])
    BY <2>4, <1>0 DEF EventsSayable
  <2> QED BY <2>1, <2>6, <2>7 DEF EventsSayable, Sayable
<1>2. ASSUME NEW w \in Workers, NEW isUp \in BOOLEAN, NEW load \in LoadsOf[w],
             WorkerStep(w, load, isUp)
      PROVE  EventsSayable'
  <2> DEFINE e == [worker |-> w, load |-> load, online |-> isUp]
  <2>1. \A k \in Tasks : life'[k] # "new" => at'[k] \in WorkersOf[k]
    BY <1>0, <1>2 DEF WorkerStep, EventsSayable
  <2>2. e \in WorkerEvent
    BY DEF WorkerEvent
  <2>3. Sayable(e)
    <3>1. e \notin TaskEvent
      BY <2>2, KindsApart
    <3> QED BY <3>1 DEF Sayable
  <2>4. queue' = queue
    BY <1>2 DEF WorkerStep
  <2>5. event' = e \/ event' = event
    BY <1>2 DEF WorkerStep, Publish, listenerVars
  <2> HIDE DEF e
  <2>6. event' # None => Sayable(event')
    BY <2>3, <2>5, <1>0 DEF EventsSayable
  <2>7. \A x \in Exporters : \A i \in DOMAIN queue'[x] : Sayable(queue'[x][i])
    BY <2>4, <1>0 DEF EventsSayable
  <2> QED BY <2>1, <2>6, <2>7 DEF EventsSayable, Sayable
<1>3. CASE SendToDb \/ SendRaises \/ Handled
  <2>1. UNCHANGED <<life, at, queue>> /\ (event' = event \/ event' = None)
    BY <1>3 DEF SendToDb, SendRaises, Handled, worldVars
  <2> QED BY <2>1, <1>0 DEF EventsSayable, Sayable
<1>4. ASSUME NEW x \in Exporters, Put(x) PROVE EventsSayable'
  <2>1. /\ event \in Events /\ UNCHANGED <<life, at, event>>
        /\ \A y \in Exporters \ {x} : queue'[y] = queue[y]
        /\ queue'[x] = Append(queue[x], event) \/ queue'[x] = queue[x]
    BY <1>0, <1>4, PutQueues
  <2>2. Sayable(event)
    BY <2>1, <1>0, EventShape DEF EventsSayable
  <2>3. ASSUME NEW i \in DOMAIN queue'[x] PROVE Sayable(queue'[x][i])
    <3>1. CASE queue'[x] = queue[x]
      BY <3>1, <2>3, <1>0 DEF EventsSayable
    <3>2. CASE queue'[x] = Append(queue[x], event)
      <4>1. queue[x] \in Seq(Events)
        BY <1>0, QueueIsSeq
      <4>2. /\ DOMAIN queue[x] = 1 .. Len(queue[x]) /\ Len(queue[x]) \in Nat
            /\ DOMAIN queue'[x] = 1 .. Len(queue[x]) + 1
            /\ \A j \in 1 .. Len(queue[x]) : queue'[x][j] = queue[x][j]
            /\ queue'[x][Len(queue[x]) + 1] = event
        BY <4>1, <3>2, <2>1, AppendShape
      <4>3. i \in DOMAIN queue[x] \/ i = Len(queue[x]) + 1
        BY <4>2, <2>3
      <4> QED BY <4>2, <4>3, <2>2, <1>0 DEF EventsSayable
    <3> QED BY <3>1, <3>2, <2>1
  <2>4. \A y \in Exporters : \A i \in DOMAIN queue'[y] : Sayable(queue'[y][i])
    BY <2>1, <2>3, <1>0 DEF EventsSayable
  <2> QED BY <2>1, <2>4, <1>0 DEF EventsSayable, Sayable
<1>5. ASSUME NEW x \in Exporters, Export(x) PROVE EventsSayable'
  <2>1. /\ queue[x] \in Seq(Events) /\ queue[x] # <<>>
        /\ queue'[x] = Tail(queue[x])
        /\ \A y \in Exporters \ {x} : queue'[y] = queue[y]
        /\ UNCHANGED <<life, at, event>>
    BY <1>0, <1>5, ExportQueues
  <2>2. ASSUME NEW i \in DOMAIN queue'[x] PROVE Sayable(queue'[x][i])
    <3>1. /\ DOMAIN queue[x] = 1 .. Len(queue[x]) /\ Len(queue[x]) \in Nat
          /\ DOMAIN queue'[x] = 1 .. Len(queue[x]) - 1
          /\ \A j \in 1 .. Len(queue[x]) - 1 : queue'[x][j] = queue[x][j + 1]
      BY <2>1, TailShape
    <3>2. i + 1 \in DOMAIN queue[x] /\ queue'[x][i] = queue[x][i + 1]
      BY <3>1, <2>2
    <3> QED BY <3>2, <1>0 DEF EventsSayable
  <2>3. \A y \in Exporters : \A i \in DOMAIN queue'[y] : Sayable(queue'[y][i])
    BY <2>1, <2>2, <1>0 DEF EventsSayable
  <2> QED BY <2>1, <2>3, <1>0 DEF EventsSayable, Sayable
<1>6. ASSUME NEW x \in Exporters, Restart(x) PROVE EventsSayable'
  <2>1. UNCHANGED <<life, at, event, queue>>
    BY <1>6 DEF Restart, worldVars, listenerVars
  <2> QED BY <2>1, <1>0 DEF EventsSayable, Sayable
<1>7. CASE UNCHANGED vars
  BY <1>0, <1>7 DEF EventsSayable, Sayable, vars, worldVars, listenerVars
<1> QED BY <1>1, <1>2, <1>3, <1>4, <1>5, <1>6, <1>7 DEF Next, Listen

LEMMA NextNews == Inv /\ [Next]_vars => EventIsNews'
<1> SUFFICES ASSUME Inv, [Next]_vars PROVE EventIsNews'
  OBVIOUS
<1>0. TypeOK /\ EventIsNews
  BY DEF Inv
<1>1. ASSUME NEW t \in Tasks, NEW state \in States, NEW w \in Workers, TaskStep(t, state, w)
      PROVE  EventIsNews'
  <2> DEFINE e == [task |-> t, state |-> state, worker |-> w]
  <2>1. e \in TaskEvent /\ e \notin WorkerEvent /\ e # None
    <3>1. e \in TaskEvent
      BY DEF TaskEvent
    <3> QED BY <3>1, KindsApart, NoneIsNothing
  <2>2. life'[t] = state
    BY <1>0, <1>1 DEF TaskStep, TypeOK
  <2>3. CASE event' = e
    BY <2>1, <2>2, <2>3 DEF EventIsNews
  <2>4. CASE UNCHANGED listenerVars /\ event = None
    BY <2>4, <1>0, NoneIsNothing DEF EventIsNews, listenerVars
  <2> QED BY <2>3, <2>4, <1>1 DEF TaskStep, Publish
<1>2. ASSUME NEW w \in Workers, NEW isUp \in BOOLEAN, NEW load \in LoadsOf[w],
             WorkerStep(w, load, isUp)
      PROVE  EventIsNews'
  <2> DEFINE e == [worker |-> w, load |-> load, online |-> isUp]
  <2>1. e \in WorkerEvent /\ e \notin TaskEvent /\ e # None
    <3>1. e \in WorkerEvent
      BY DEF WorkerEvent
    <3> QED BY <3>1, KindsApart, NoneIsNothing
  <2>2. up'[w] = isUp
    BY <1>0, <1>2 DEF WorkerStep, TypeOK
  <2>3. CASE event' = e
    BY <2>1, <2>2, <2>3 DEF EventIsNews
  <2>4. CASE UNCHANGED listenerVars /\ event = None
    BY <2>4, <1>0, NoneIsNothing DEF EventIsNews, listenerVars
  <2> QED BY <2>3, <2>4, <1>2 DEF WorkerStep, Publish
<1>3. CASE SendToDb \/ SendRaises \/ Handled
  <2>1. UNCHANGED <<life, up>>
    BY <1>3 DEF SendToDb, SendRaises, Handled, worldVars
  <2>2. UNCHANGED <<event, offers>> \/ (event' = None /\ offers' = {})
    BY <1>3 DEF SendToDb, SendRaises, Handled
  <2> QED BY <2>1, <2>2, <1>0, NoneIsNothing DEF EventIsNews
<1>4. ASSUME NEW x \in Exporters, Put(x) PROVE EventIsNews'
  <2>1. UNCHANGED <<life, up, event>> /\ offers' = offers \ {x}
    BY <1>0, <1>4, PutQueues
  <2> QED BY <2>1, <1>0 DEF EventIsNews
<1>5. ASSUME NEW x \in Exporters, Export(x) PROVE EventIsNews'
  <2>1. UNCHANGED <<life, up, event, offers>>
    BY <1>0, <1>5, ExportQueues
  <2> QED BY <2>1, <1>0 DEF EventIsNews
<1>6. ASSUME NEW x \in Exporters, Restart(x) PROVE EventIsNews'
  <2>1. UNCHANGED <<life, up, event, offers>>
    BY <1>6 DEF Restart, worldVars, listenerVars
  <2> QED BY <2>1, <1>0 DEF EventIsNews
<1>7. CASE UNCHANGED vars
  BY <1>0, <1>7 DEF EventIsNews, vars, worldVars, listenerVars
<1> QED BY <1>1, <1>2, <1>3, <1>4, <1>5, <1>6, <1>7 DEF Next, Listen

(* What Track makes of one tracker. *)
LEMMA TrackTracker ==
  ASSUME TypeOK, NEW x \in Exporters, NEW e \in TaskEvent, Track(x, e)
  PROVE  /\ e.task \in Tasks
         /\ trackers'[x][e.task] = IF e.state \in Terminal THEN None
                                   ELSE [state |-> e.state, worker |-> e.worker]
         /\ \A t \in Tasks \ {e.task} : trackers'[x][t] = trackers[x][t]
         /\ \A y \in Exporters \ {x} : trackers'[y] = trackers[y]
<1> DEFINE new == IF e.state \in Terminal THEN None ELSE [state |-> e.state, worker |-> e.worker]
<1>1. e.task \in Tasks
  BY DEF TaskEvent
<1>2. trackers' = [trackers EXCEPT ![x][e.task] = new]
  BY DEF Track
<1> HIDE DEF new
<1>3. /\ trackers'[x][e.task] = new
      /\ \A t \in Tasks \ {e.task} : trackers'[x][t] = trackers[x][t]
      /\ \A y \in Exporters \ {x} : trackers'[y] = trackers[y]
  BY <1>1, <1>2 DEF TypeOK
<1> QED BY <1>1, <1>3 DEF new

LEMMA NextMemory == Inv /\ [Next]_vars => MemorySound'
<1> SUFFICES ASSUME Inv, [Next]_vars PROVE MemorySound'
  OBVIOUS
<1>0. TypeOK /\ EventsSayable /\ EventIsNews /\ MemorySound
  BY DEF Inv
<1> SUFFICES ASSUME NEW x \in Exporters PROVE MemoryOf(x)'
  BY DEF MemorySound
<1>1. MemoryOf(x) /\ trackers[x] \in [Tasks -> Tracker \cup {None}]
  BY <1>0 DEF MemorySound, TypeOK
<1>2. CASE trackers'[x] = trackers[x] /\ known'[x] = known[x]
  BY <1>1, <1>2 DEF MemoryOf, Tracked
<1>3. ASSUME Export(x) PROVE MemoryOf(x)'
  <2>1. /\ queue[x] \in Seq(Events) /\ queue[x] # <<>>
        /\ Head(queue[x]) \in Events
        /\ Head(queue[x]) \in TaskEvent => Track(x, Head(queue[x]))
        /\ Head(queue[x]) \in WorkerEvent => WorkerSeen(x, Head(queue[x]))
    BY <1>0, <1>3, ExportQueues
  <2>2. PICK e : e = Head(queue[x])
    OBVIOUS
  <2>3. Sayable(e)
    <3>1. 1 \in DOMAIN queue[x] /\ queue[x][1] = e
      BY <2>1, <2>2, TailShape
    <3> QED BY <3>1, <1>0 DEF EventsSayable
  <2>4. CASE e \in TaskEvent
    <3>1. Track(x, e) /\ e.worker \in WorkersOf[e.task]
      BY <2>1, <2>2, <2>3, <2>4 DEF Sayable
    <3>2. /\ e.task \in Tasks
          /\ trackers'[x][e.task] = IF e.state \in Terminal THEN None
                                    ELSE [state |-> e.state, worker |-> e.worker]
          /\ \A t \in Tasks \ {e.task} : trackers'[x][t] = trackers[x][t]
      BY <1>0, <2>4, <3>1, TrackTracker
    <3>3. Tracked(x)' \subseteq Tracked(x) \cup {e.task}
      BY <3>2 DEF Tracked
    <3>4. ASSUME NEW t \in Tracked(x)'
          PROVE  trackers'[x][t].worker \in WorkersOf[t]
      <4>1. CASE t = e.task
        BY <4>1, <3>1, <3>2, <3>4 DEF Tracked
      <4>2. CASE t # e.task
        BY <4>2, <3>2, <3>3, <1>1 DEF MemoryOf, Tracked
      <4> QED BY <4>1, <4>2
    <3>5. IsFiniteSet(Tracked(x)')
      <4>1. IsFiniteSet(Tracked(x) \cup {e.task})
        BY <1>1, FS_AddElement DEF MemoryOf
      <4> QED BY <4>1, <3>3, FS_Subset
    <3>6. known' = known
      BY <3>1 DEF Track
    <3> QED BY <3>4, <3>5, <3>6, <1>1 DEF MemoryOf
  <2>5. CASE e \in WorkerEvent
    <3>1. WorkerSeen(x, e) /\ LoadsOf[e.worker] # {}
      BY <2>1, <2>2, <2>3, <2>5 DEF Sayable
    <3>2. trackers' = trackers /\ known' = [known EXCEPT ![x] = @ \cup {e.worker}]
      BY <3>1 DEF WorkerSeen
    <3>3. \A w \in known'[x] : LoadsOf[w] # {}
      BY <3>1, <3>2, <1>0, <1>1 DEF MemoryOf, TypeOK
    <3> QED BY <3>2, <3>3, <1>1 DEF MemoryOf, Tracked
  <2> QED BY <2>1, <2>2, <2>4, <2>5 DEF Events
<1>4. ASSUME Restart(x) PROVE MemoryOf(x)'
  <2>1. /\ trackers' = [trackers EXCEPT ![x] = [t \in Tasks |-> None]]
        /\ known' = [known EXCEPT ![x] = {}]
    BY <1>4 DEF Restart
  <2>2. Tracked(x)' = {}
    BY <2>1, <1>0 DEF TypeOK, Tracked
  <2>3. known'[x] = {}
    BY <2>1, <1>0 DEF TypeOK
  <2>4. IsFiniteSet({})
    BY FS_EmptySet
  <2> QED BY <2>2, <2>3, <2>4 DEF MemoryOf
<1>5. ASSUME NEW y \in Exporters, y # x, Export(y) \/ Restart(y)
      PROVE  trackers'[x] = trackers[x] /\ known'[x] = known[x]
  <2>1. CASE Restart(y)
    BY <2>1, <1>5, <1>0 DEF Restart, TypeOK
  <2>2. CASE Export(y)
    <3>1. \E e : Track(y, e) \/ WorkerSeen(y, e)
      BY <2>2 DEF Export
    <3> QED BY <3>1, <1>5, <1>0 DEF Track, WorkerSeen, TypeOK
  <2> QED BY <2>1, <2>2, <1>5
<1>6. CASE \A y \in Exporters : ~ Export(y) /\ ~ Restart(y)
  <2>1. UNCHANGED <<trackers, known>>
    BY <1>6 DEF Next, Listen, TaskStep, WorkerStep, SendToDb, SendRaises, Put, Handled,
                vars, exporterVars
  <2> QED BY <2>1, <1>2
<1> QED BY <1>2, <1>3, <1>4, <1>5, <1>6

(* After an exporter took an event off its queue, what it remembers of a task. *)
LEMMA ExportFollowsTask ==
  ASSUME Inv, NEW x \in Exporters, x \in complete, NEW t \in Tasks, Export(x)
  PROVE  TaskFollowed(x, t)'
<1>0. TypeOK /\ TaskFollowed(x, t)
  BY DEF Inv, TasksFollowed
<1> DEFINE S == TaskEvents(t)
<1>1. /\ queue[x] \in Seq(Events) /\ queue[x] # <<>>
      /\ Head(queue[x]) \in Events
      /\ Head(queue[x]) \in TaskEvent => Track(x, Head(queue[x]))
      /\ Head(queue[x]) \in WorkerEvent => WorkerSeen(x, Head(queue[x]))
      /\ queue'[x] = Tail(queue[x])
      /\ UNCHANGED <<life, event, offers>>
  BY <1>0, ExportQueues
<1>2. SUFFICES ASSUME ~ Offered(x, S)
               PROVE  /\ \A i \in DOMAIN queue'[x] :
                           NewestIn(queue'[x], S, i) => queue'[x][i].state = life[t]
                      /\ NoneIn(queue'[x], S) =>
                           trackers'[x][t] = None \/ trackers'[x][t].state = life[t]
  BY <1>1 DEF TaskFollowed, Offered
<1>3. /\ \A i \in DOMAIN queue[x] : NewestIn(queue[x], S, i) => queue[x][i].state = life[t]
      /\ NoneIn(queue[x], S) => trackers[x][t] = None \/ trackers[x][t].state = life[t]
  BY <1>0, <1>2 DEF TaskFollowed
<1> HIDE DEF S
<1>4. /\ \A i \in DOMAIN Tail(queue[x]) :
           NewestIn(Tail(queue[x]), S, i) =>
             i + 1 \in DOMAIN queue[x] /\ NewestIn(queue[x], S, i + 1)
             /\ Tail(queue[x])[i] = queue[x][i + 1]
      /\ NoneIn(Tail(queue[x]), S) /\ Head(queue[x]) \in S =>
           1 \in DOMAIN queue[x] /\ NewestIn(queue[x], S, 1) /\ queue[x][1] = Head(queue[x])
      /\ NoneIn(Tail(queue[x]), S) /\ Head(queue[x]) \notin S => NoneIn(queue[x], S)
  BY <1>1, NewestTail
<1>5. \A i \in DOMAIN queue'[x] : NewestIn(queue'[x], S, i) => queue'[x][i].state = life[t]
  BY <1>1, <1>3, <1>4
<1>6. ASSUME NoneIn(queue'[x], S)
      PROVE  trackers'[x][t] = None \/ trackers'[x][t].state = life[t]
  <2>1. PICK e : e = Head(queue[x])
    OBVIOUS
  <2>2. CASE e \in S
    <3>1. e \in TaskEvent /\ e.task = t
      BY <2>2 DEF S, TaskEvents
    <3>2. e.state = life[t]
      BY <1>1, <1>3, <1>4, <1>6, <2>1, <2>2
    <3>3. Track(x, e)
      BY <3>1, <2>1, <1>1
    <3>4. trackers'[x][t] = IF e.state \in Terminal THEN None
                            ELSE [state |-> e.state, worker |-> e.worker]
      BY <1>0, <3>1, <3>3, TrackTracker
    <3> QED BY <3>2, <3>4
  <2>3. CASE e \notin S
    <3>1. trackers[x][t] = None \/ trackers[x][t].state = life[t]
      BY <1>1, <1>3, <1>4, <1>6, <2>1, <2>3
    <3>2. trackers'[x][t] = trackers[x][t]
      <4>1. CASE e \in TaskEvent
        <5>1. e.task # t /\ Track(x, e)
          BY <4>1, <2>1, <2>3, <1>1 DEF S, TaskEvents
        <5>2. \A k \in Tasks \ {e.task} : trackers'[x][k] = trackers[x][k]
          BY <4>1, <5>1, <1>0, TrackTracker
        <5> QED BY <5>1, <5>2
      <4>2. CASE e \in WorkerEvent
        <5>1. WorkerSeen(x, e)
          BY <4>2, <2>1, <1>1
        <5> QED BY <5>1 DEF WorkerSeen
      <4> QED BY <4>1, <4>2, <2>1, <1>1 DEF Events
    <3> QED BY <3>1, <3>2
  <2> QED BY <2>2, <2>3
<1> QED BY <1>5, <1>6

LEMMA NextTasksFollowed == Inv /\ [Next]_vars => TasksFollowed'
<1> SUFFICES ASSUME Inv, [Next]_vars PROVE TasksFollowed'
  OBVIOUS
<1>0. TypeOK /\ EventIsNews /\ TasksFollowed /\ complete \subseteq Exporters
  BY DEF Inv, TypeOK
<1> SUFFICES ASSUME NEW x \in complete', NEW t \in Tasks PROVE TaskFollowed(x, t)'
  BY DEF TasksFollowed
<1>1. ASSUME NEW k \in Tasks, NEW state \in States, NEW w \in Workers, TaskStep(k, state, w)
      PROVE  TaskFollowed(x, t)'
  <2> DEFINE e == [task |-> k, state |-> state, worker |-> w]
  <2>1. /\ event = None /\ event' = e /\ offers' = Exporters /\ complete' = complete
        /\ UNCHANGED <<queue, trackers>>
        /\ life' = [life EXCEPT ![k] = state]
    BY <1>1 DEF TaskStep, Publish, exporterVars
  <2>2. e \in TaskEvent
    BY DEF TaskEvent
  <2>3. CASE t = k
    BY <2>1, <2>2, <2>3, <1>0 DEF TaskFollowed, Offered, TaskEvents
  <2>4. CASE t # k
    <3>1. ~ Offered(x, TaskEvents(t))
      BY <2>1, NoneIsNothing DEF Offered, TaskEvents
    <3>2. life'[t] = life[t]
      BY <2>1, <2>4, <1>0 DEF TypeOK
    <3>3. TaskFollowed(x, t)
      BY <2>1, <1>0 DEF TasksFollowed
    <3> QED BY <2>1, <3>1, <3>2, <3>3 DEF TaskFollowed
  <2> QED BY <2>3, <2>4
<1>2. ASSUME NEW w \in Workers, NEW isUp \in BOOLEAN, NEW load \in LoadsOf[w],
             WorkerStep(w, load, isUp)
      PROVE  TaskFollowed(x, t)'
  <2>1. event = None /\ complete' = complete /\ UNCHANGED <<queue, trackers, life>>
    BY <1>2 DEF WorkerStep, Publish, exporterVars
  <2>2. ~ Offered(x, TaskEvents(t))
    BY <2>1, NoneIsNothing DEF Offered, TaskEvents
  <2>3. TaskFollowed(x, t)
    BY <2>1, <1>0 DEF TasksFollowed
  <2> QED BY <2>1, <2>2, <2>3 DEF TaskFollowed
<1>3. CASE SendToDb \/ SendRaises \/ Handled
  <2>1. UNCHANGED <<queue, trackers, life, complete>> /\ (UNCHANGED <<event, offers>> \/ offers = {})
    BY <1>3 DEF SendToDb, SendRaises, Handled, worldVars, exporterVars
  <2>2. TaskFollowed(x, t)
    BY <2>1, <1>0 DEF TasksFollowed
  <2>3. CASE UNCHANGED <<event, offers>>
    BY <2>1, <2>2, <2>3 DEF TaskFollowed, Offered
  <2>4. CASE offers = {}
    <3>1. ~ Offered(x, TaskEvents(t))
      BY <2>4 DEF Offered
    <3> QED BY <2>1, <2>2, <3>1 DEF TaskFollowed
  <2> QED BY <2>1, <2>3, <2>4
<1>4. ASSUME NEW y \in Exporters, Put(y) PROVE TaskFollowed(x, t)'
  <2>1. /\ event \in Events /\ offers' = offers \ {y}
        /\ \A z \in Exporters \ {y} : queue'[z] = queue[z]
        /\ \/ queue'[y] = Append(queue[y], event) /\ complete' = complete
           \/ queue'[y] = queue[y] /\ complete' = complete \ {y}
        /\ UNCHANGED <<life, trackers, event>>
    BY <1>0, <1>4, PutQueues
  <2>2. x \in complete /\ x \in Exporters /\ TaskFollowed(x, t)
    BY <2>1, <1>0 DEF TasksFollowed
  <2>3. CASE x # y
    <3>1. queue'[x] = queue[x] /\ trackers'[x] = trackers[x] /\ (x \in offers' <=> x \in offers)
      BY <2>1, <2>2, <2>3
    <3>2. Offered(x, TaskEvents(t))' <=> Offered(x, TaskEvents(t))
      BY <2>1, <3>1 DEF Offered
    <3> QED BY <2>1, <2>2, <3>1, <3>2 DEF TaskFollowed
  <2>4. CASE x = y
    <3> DEFINE S == TaskEvents(t)
    <3>1. queue'[x] = Append(queue[x], event) /\ queue[x] \in Seq(Events)
      BY <2>1, <2>2, <2>4, <1>0, QueueIsSeq
    <3>2. CASE event \in S
      <4>1. event.state = life[t]
        BY <3>2, <1>0 DEF EventIsNews, TaskEvents
      <4> HIDE DEF S
      <4>2. /\ \A i \in DOMAIN Append(queue[x], event) :
                 NewestIn(Append(queue[x], event), S, i) => Append(queue[x], event)[i] = event
            /\ ~ NoneIn(Append(queue[x], event), S)
        BY <3>1, <3>2, <2>1, NewestAppend
      <4>3. /\ \A i \in DOMAIN queue'[x] :
                 NewestIn(queue'[x], S, i) => queue'[x][i].state = life'[t]
            /\ ~ NoneIn(queue'[x], S)
        BY <4>1, <4>2, <3>1, <2>1
      <4> QED BY <4>3 DEF TaskFollowed, S
    <3>3. CASE event \notin S
      <4>1. /\ \A i \in DOMAIN queue[x] : NewestIn(queue[x], S, i) => queue[x][i].state = life[t]
            /\ NoneIn(queue[x], S) => trackers[x][t] = None \/ trackers[x][t].state = life[t]
        BY <3>3, <2>2 DEF TaskFollowed, Offered
      <4> HIDE DEF S
      <4>2. /\ \A i \in DOMAIN Append(queue[x], event) :
                 NewestIn(Append(queue[x], event), S, i) =>
                   i \in DOMAIN queue[x] /\ NewestIn(queue[x], S, i)
                   /\ Append(queue[x], event)[i] = queue[x][i]
            /\ NoneIn(Append(queue[x], event), S) => NoneIn(queue[x], S)
        BY <3>1, <3>3, <2>1, NewestAppend
      <4>3. \A i \in DOMAIN queue'[x] :
              NewestIn(queue'[x], S, i) => queue'[x][i].state = life'[t]
        BY <4>1, <4>2, <3>1, <2>1
      <4>4. NoneIn(queue'[x], S) => trackers'[x][t] = None \/ trackers'[x][t].state = life'[t]
        BY <4>1, <4>2, <3>1, <2>1
      <4> QED BY <4>3, <4>4 DEF TaskFollowed, S
    <3> QED BY <3>2, <3>3
  <2> QED BY <2>3, <2>4
<1>5. ASSUME NEW y \in Exporters, Export(y) PROVE TaskFollowed(x, t)'
  <2>1. /\ \A z \in Exporters \ {y} : queue'[z] = queue[z]
        /\ UNCHANGED <<life, event, offers, complete>>
    BY <1>0, <1>5, ExportQueues
  <2>2. x \in complete /\ x \in Exporters /\ TaskFollowed(x, t)
    BY <2>1, <1>0 DEF TasksFollowed
  <2>3. CASE x = y
    BY <2>2, <2>3, <1>5, ExportFollowsTask
  <2>4. CASE x # y
    <3>1. trackers'[x] = trackers[x]
      <4>1. \E e : Track(y, e) \/ WorkerSeen(y, e)
        BY <1>5 DEF Export
      <4> QED BY <4>1, <2>2, <2>4, <1>0 DEF Track, WorkerSeen, TypeOK
    <3>2. queue'[x] = queue[x]
      BY <2>1, <2>2, <2>4
    <3>3. Offered(x, TaskEvents(t))' <=> Offered(x, TaskEvents(t))
      BY <2>1 DEF Offered
    <3> QED BY <2>1, <2>2, <3>1, <3>2, <3>3 DEF TaskFollowed
  <2> QED BY <2>3, <2>4
<1>6. ASSUME NEW y \in Exporters, Restart(y) PROVE TaskFollowed(x, t)'
  <2>1. /\ UNCHANGED <<life, event, offers, queue, complete>>
        /\ trackers' = [trackers EXCEPT ![y] = [k \in Tasks |-> None]]
    BY <1>6 DEF Restart, worldVars, listenerVars
  <2>2. x \in complete /\ x \in Exporters /\ TaskFollowed(x, t)
    BY <2>1, <1>0 DEF TasksFollowed
  <2>3. trackers'[x][t] = None \/ trackers'[x][t] = trackers[x][t]
    BY <2>1, <2>2, <1>0 DEF TypeOK
  <2>4. Offered(x, TaskEvents(t))' <=> Offered(x, TaskEvents(t))
    BY <2>1 DEF Offered
  <2> QED BY <2>1, <2>2, <2>3, <2>4 DEF TaskFollowed
<1>7. CASE UNCHANGED vars
  <2>1. UNCHANGED <<life, event, offers, queue, complete, trackers>>
    BY <1>7 DEF vars, worldVars, listenerVars, exporterVars
  <2>2. TaskFollowed(x, t)
    BY <2>1, <1>0 DEF TasksFollowed
  <2>3. Offered(x, TaskEvents(t))' <=> Offered(x, TaskEvents(t))
    BY <2>1 DEF Offered
  <2> QED BY <2>1, <2>2, <2>3 DEF TaskFollowed
<1> QED BY <1>1, <1>2, <1>3, <1>4, <1>5, <1>6, <1>7 DEF Next, Listen

(* The same of a worker. *)
LEMMA ExportFollowsWorker ==
  ASSUME Inv, NEW x \in Exporters, x \in complete, NEW w \in Workers, Export(x)
  PROVE  WorkerFollowed(x, w)'
<1>0. TypeOK /\ WorkerFollowed(x, w)
  BY DEF Inv, WorkersFollowed
<1> DEFINE S == WorkerEvents(w)
<1>1. /\ queue[x] \in Seq(Events) /\ queue[x] # <<>>
      /\ Head(queue[x]) \in Events
      /\ Head(queue[x]) \in TaskEvent => Track(x, Head(queue[x]))
      /\ Head(queue[x]) \in WorkerEvent => WorkerSeen(x, Head(queue[x]))
      /\ queue'[x] = Tail(queue[x])
      /\ UNCHANGED <<up, event, offers>>
  BY <1>0, ExportQueues
<1>2. SUFFICES ASSUME ~ Offered(x, S)
               PROVE  /\ \A i \in DOMAIN queue'[x] :
                           NewestIn(queue'[x], S, i) => queue'[x][i].online = up[w]
                      /\ NoneIn(queue'[x], S) => online'[x][w] \in {None, up[w]}
  BY <1>1 DEF WorkerFollowed, Offered
<1>3. /\ \A i \in DOMAIN queue[x] : NewestIn(queue[x], S, i) => queue[x][i].online = up[w]
      /\ NoneIn(queue[x], S) => online[x][w] \in {None, up[w]}
  BY <1>0, <1>2 DEF WorkerFollowed
<1> HIDE DEF S
<1>4. /\ \A i \in DOMAIN Tail(queue[x]) :
           NewestIn(Tail(queue[x]), S, i) =>
             i + 1 \in DOMAIN queue[x] /\ NewestIn(queue[x], S, i + 1)
             /\ Tail(queue[x])[i] = queue[x][i + 1]
      /\ NoneIn(Tail(queue[x]), S) /\ Head(queue[x]) \in S =>
           1 \in DOMAIN queue[x] /\ NewestIn(queue[x], S, 1) /\ queue[x][1] = Head(queue[x])
      /\ NoneIn(Tail(queue[x]), S) /\ Head(queue[x]) \notin S => NoneIn(queue[x], S)
  BY <1>1, NewestTail
<1>5. \A i \in DOMAIN queue'[x] : NewestIn(queue'[x], S, i) => queue'[x][i].online = up[w]
  BY <1>1, <1>3, <1>4
<1>6. ASSUME NoneIn(queue'[x], S) PROVE online'[x][w] \in {None, up[w]}
  <2>1. PICK e : e = Head(queue[x])
    OBVIOUS
  <2>2. CASE e \in S
    <3>1. e \in WorkerEvent /\ e.worker = w
      BY <2>2 DEF S, WorkerEvents
    <3>2. e.online = up[w]
      BY <1>1, <1>3, <1>4, <1>6, <2>1, <2>2
    <3>3. online' = [online EXCEPT ![x][e.worker] = e.online]
      BY <3>1, <2>1, <1>1 DEF WorkerSeen
    <3>4. online'[x][w] = e.online
      BY <3>1, <3>3, <1>0 DEF TypeOK
    <3> QED BY <3>2, <3>4
  <2>3. CASE e \notin S
    <3>1. online[x][w] \in {None, up[w]}
      BY <1>1, <1>3, <1>4, <1>6, <2>1, <2>3
    <3>2. online'[x][w] = online[x][w]
      <4>1. CASE e \in TaskEvent
        BY <4>1, <2>1, <1>1 DEF Track
      <4>2. CASE e \in WorkerEvent
        <5>1. e.worker # w
          BY <4>2, <2>3 DEF S, WorkerEvents
        <5>2. online' = [online EXCEPT ![x][e.worker] = e.online]
          BY <4>2, <2>1, <1>1 DEF WorkerSeen
        <5> QED BY <5>1, <5>2, <1>0 DEF TypeOK
      <4> QED BY <4>1, <4>2, <2>1, <1>1 DEF Events
    <3> QED BY <3>1, <3>2
  <2> QED BY <2>2, <2>3
<1> QED BY <1>5, <1>6

LEMMA NextWorkersFollowed == Inv /\ [Next]_vars => WorkersFollowed'
<1> SUFFICES ASSUME Inv, [Next]_vars PROVE WorkersFollowed'
  OBVIOUS
<1>0. TypeOK /\ EventIsNews /\ WorkersFollowed /\ complete \subseteq Exporters
  BY DEF Inv, TypeOK
<1> SUFFICES ASSUME NEW x \in complete', NEW w \in Workers PROVE WorkerFollowed(x, w)'
  BY DEF WorkersFollowed
<1>1. ASSUME NEW v \in Workers, NEW isUp \in BOOLEAN, NEW load \in LoadsOf[v],
             WorkerStep(v, load, isUp)
      PROVE  WorkerFollowed(x, w)'
  <2> DEFINE e == [worker |-> v, load |-> load, online |-> isUp]
  <2>1. /\ event = None /\ event' = e /\ offers' = Exporters /\ complete' = complete
        /\ UNCHANGED <<queue, online>>
        /\ up' = [up EXCEPT ![v] = isUp]
    BY <1>1 DEF WorkerStep, Publish, exporterVars
  <2>2. e \in WorkerEvent
    BY DEF WorkerEvent
  <2>3. CASE w = v
    BY <2>1, <2>2, <2>3, <1>0 DEF WorkerFollowed, Offered, WorkerEvents
  <2>4. CASE w # v
    <3>1. ~ Offered(x, WorkerEvents(w))
      BY <2>1, NoneIsNothing DEF Offered, WorkerEvents
    <3>2. up'[w] = up[w]
      BY <2>1, <2>4, <1>0 DEF TypeOK
    <3>3. WorkerFollowed(x, w)
      BY <2>1, <1>0 DEF WorkersFollowed
    <3> QED BY <2>1, <3>1, <3>2, <3>3 DEF WorkerFollowed
  <2> QED BY <2>3, <2>4
<1>2. ASSUME NEW t \in Tasks, NEW state \in States, NEW v \in Workers, TaskStep(t, state, v)
      PROVE  WorkerFollowed(x, w)'
  <2>1. event = None /\ complete' = complete /\ UNCHANGED <<queue, online, up>>
    BY <1>2 DEF TaskStep, Publish, exporterVars
  <2>2. ~ Offered(x, WorkerEvents(w))
    BY <2>1, NoneIsNothing DEF Offered, WorkerEvents
  <2>3. WorkerFollowed(x, w)
    BY <2>1, <1>0 DEF WorkersFollowed
  <2> QED BY <2>1, <2>2, <2>3 DEF WorkerFollowed
<1>3. CASE SendToDb \/ SendRaises \/ Handled
  <2>1. UNCHANGED <<queue, online, up, complete>> /\ (UNCHANGED <<event, offers>> \/ offers = {})
    BY <1>3 DEF SendToDb, SendRaises, Handled, worldVars, exporterVars
  <2>2. WorkerFollowed(x, w)
    BY <2>1, <1>0 DEF WorkersFollowed
  <2>3. CASE UNCHANGED <<event, offers>>
    BY <2>1, <2>2, <2>3 DEF WorkerFollowed, Offered
  <2>4. CASE offers = {}
    <3>1. ~ Offered(x, WorkerEvents(w))
      BY <2>4 DEF Offered
    <3> QED BY <2>1, <2>2, <3>1 DEF WorkerFollowed
  <2> QED BY <2>1, <2>3, <2>4
<1>4. ASSUME NEW y \in Exporters, Put(y) PROVE WorkerFollowed(x, w)'
  <2>1. /\ event \in Events /\ offers' = offers \ {y}
        /\ \A z \in Exporters \ {y} : queue'[z] = queue[z]
        /\ \/ queue'[y] = Append(queue[y], event) /\ complete' = complete
           \/ queue'[y] = queue[y] /\ complete' = complete \ {y}
        /\ UNCHANGED <<up, online, event>>
    BY <1>0, <1>4, PutQueues
  <2>2. x \in complete /\ x \in Exporters /\ WorkerFollowed(x, w)
    BY <2>1, <1>0 DEF WorkersFollowed
  <2>3. CASE x # y
    <3>1. queue'[x] = queue[x] /\ (x \in offers' <=> x \in offers)
      BY <2>1, <2>2, <2>3
    <3>2. Offered(x, WorkerEvents(w))' <=> Offered(x, WorkerEvents(w))
      BY <2>1, <3>1 DEF Offered
    <3> QED BY <2>1, <2>2, <3>1, <3>2 DEF WorkerFollowed
  <2>4. CASE x = y
    <3> DEFINE S == WorkerEvents(w)
    <3>1. queue'[x] = Append(queue[x], event) /\ queue[x] \in Seq(Events)
      BY <2>1, <2>2, <2>4, <1>0, QueueIsSeq
    <3>2. CASE event \in S
      <4>1. event.online = up[w]
        BY <3>2, <1>0 DEF EventIsNews, WorkerEvents
      <4> HIDE DEF S
      <4>2. /\ \A i \in DOMAIN Append(queue[x], event) :
                 NewestIn(Append(queue[x], event), S, i) => Append(queue[x], event)[i] = event
            /\ ~ NoneIn(Append(queue[x], event), S)
        BY <3>1, <3>2, <2>1, NewestAppend
      <4>3. /\ \A i \in DOMAIN queue'[x] :
                 NewestIn(queue'[x], S, i) => queue'[x][i].online = up'[w]
            /\ ~ NoneIn(queue'[x], S)
        BY <4>1, <4>2, <3>1, <2>1
      <4> QED BY <4>3 DEF WorkerFollowed, S
    <3>3. CASE event \notin S
      <4>1. /\ \A i \in DOMAIN queue[x] : NewestIn(queue[x], S, i) => queue[x][i].online = up[w]
            /\ NoneIn(queue[x], S) => online[x][w] \in {None, up[w]}
        BY <3>3, <2>2 DEF WorkerFollowed, Offered
      <4> HIDE DEF S
      <4>2. /\ \A i \in DOMAIN Append(queue[x], event) :
                 NewestIn(Append(queue[x], event), S, i) =>
                   i \in DOMAIN queue[x] /\ NewestIn(queue[x], S, i)
                   /\ Append(queue[x], event)[i] = queue[x][i]
            /\ NoneIn(Append(queue[x], event), S) => NoneIn(queue[x], S)
        BY <3>1, <3>3, <2>1, NewestAppend
      <4>3. \A i \in DOMAIN queue'[x] :
              NewestIn(queue'[x], S, i) => queue'[x][i].online = up'[w]
        BY <4>1, <4>2, <3>1, <2>1
      <4>4. NoneIn(queue'[x], S) => online'[x][w] \in {None, up'[w]}
        BY <4>1, <4>2, <3>1, <2>1
      <4> QED BY <4>3, <4>4 DEF WorkerFollowed, S
    <3> QED BY <3>2, <3>3
  <2> QED BY <2>3, <2>4
<1>5. ASSUME NEW y \in Exporters, Export(y) PROVE WorkerFollowed(x, w)'
  <2>1. /\ \A z \in Exporters \ {y} : queue'[z] = queue[z]
        /\ UNCHANGED <<up, event, offers, complete>>
    BY <1>0, <1>5, ExportQueues
  <2>2. x \in complete /\ x \in Exporters /\ WorkerFollowed(x, w)
    BY <2>1, <1>0 DEF WorkersFollowed
  <2>3. CASE x = y
    BY <2>2, <2>3, <1>5, ExportFollowsWorker
  <2>4. CASE x # y
    <3>1. online'[x] = online[x]
      <4>1. \E e : Track(y, e) \/ WorkerSeen(y, e)
        BY <1>5 DEF Export
      <4> QED BY <4>1, <2>2, <2>4, <1>0 DEF Track, WorkerSeen, TypeOK
    <3>2. queue'[x] = queue[x]
      BY <2>1, <2>2, <2>4
    <3>3. Offered(x, WorkerEvents(w))' <=> Offered(x, WorkerEvents(w))
      BY <2>1 DEF Offered
    <3> QED BY <2>1, <2>2, <3>1, <3>2, <3>3 DEF WorkerFollowed
  <2> QED BY <2>3, <2>4
<1>6. ASSUME NEW y \in Exporters, Restart(y) PROVE WorkerFollowed(x, w)'
  <2>1. /\ UNCHANGED <<up, event, offers, queue, complete>>
        /\ online' = [online EXCEPT ![y] = Silent]
    BY <1>6 DEF Restart, worldVars, listenerVars
  <2>2. x \in complete /\ x \in Exporters /\ WorkerFollowed(x, w)
    BY <2>1, <1>0 DEF WorkersFollowed
  <2>3. online'[x][w] = None \/ online'[x][w] = online[x][w]
    BY <2>1, <2>2, <1>0 DEF TypeOK, Silent
  <2>4. Offered(x, WorkerEvents(w))' <=> Offered(x, WorkerEvents(w))
    BY <2>1 DEF Offered
  <2> QED BY <2>1, <2>2, <2>3, <2>4 DEF WorkerFollowed
<1>7. CASE UNCHANGED vars
  <2>1. UNCHANGED <<up, event, offers, queue, complete, online>>
    BY <1>7 DEF vars, worldVars, listenerVars, exporterVars
  <2>2. WorkerFollowed(x, w)
    BY <2>1, <1>0 DEF WorkersFollowed
  <2>3. Offered(x, WorkerEvents(w))' <=> Offered(x, WorkerEvents(w))
    BY <2>1 DEF Offered
  <2> QED BY <2>1, <2>2, <2>3 DEF WorkerFollowed
<1> QED BY <1>1, <1>2, <1>3, <1>4, <1>5, <1>6, <1>7 DEF Next, Listen

LEMMA NextInv == Inv /\ [Next]_vars => Inv'
BY NextType, NextSayable, NextMemory, NextNews, NextTasksFollowed, NextWorkersFollowed DEF Inv

LEMMA InvHolds == Spec => []Inv
<1>1. Init => Inv
  BY InitInv
<1>2. Inv /\ [Next]_vars => Inv'
  BY NextInv
<1> QED BY <1>1, <1>2, PTL DEF Spec

-----------------------------------------------------------------------------
(* Gauges.  A cell is what a gauge has of one worker. *)

CellAddsUp(cell) == cell.added["unknown"] + cell.added["broker"] = cell.count
CellShows(cell) == cell.set["unknown"] = cell.count

LEMMA CountedCell ==
  ASSUME NEW gauge \in Gauge, NEW w \in Workers, NEW label \in Labels, NEW n \in Nat
  PROVE  /\ Counted(gauge, w, label, n)[w].count = n
         /\ \A v \in Workers \ {w} : Counted(gauge, w, label, n)[v] = gauge[v]
         /\ CellAddsUp(gauge[w]) => CellAddsUp(Counted(gauge, w, label, n)[w])
         /\ label = "unknown" => CellShows(Counted(gauge, w, label, n)[w])
<1> DEFINE old == gauge[w]
           set == [old.set EXCEPT ![label] = n]
           added == [old.added EXCEPT ![label] = @ + n - old.count]
           new == [count |-> n, set |-> set, added |-> added]
           cell == Counted(gauge, w, label, n)[w]
<1>1. cell.count = n /\ cell.set = set /\ cell.added = added
  <2>1. Counted(gauge, w, label, n) = [gauge EXCEPT ![w] = new]
    BY DEF Counted
  <2>2. new.count = n /\ new.set = set /\ new.added = added
    OBVIOUS
  <2> HIDE DEF new, set, added
  <2>3. cell = new
    BY <2>1 DEF Gauge
  <2> QED BY <2>2, <2>3
<1>2. old.count \in Nat /\ old.set \in [Labels -> Nat] /\ old.added \in [Labels -> Int]
  BY DEF Gauge
<1> HIDE DEF old, cell
<1>3. label = "unknown" => CellShows(cell)
  BY <1>1, <1>2 DEF CellShows
<1>4. ASSUME CellAddsUp(old) PROVE CellAddsUp(cell)
  <2>1. PICK u \in Int, b \in Int, c \in Nat :
          u = old.added["unknown"] /\ b = old.added["broker"] /\ c = old.count
    BY <1>2 DEF Labels
  <2>2. u + b = c
    BY <2>1, <1>4 DEF CellAddsUp
  <2>3. CASE label = "unknown"
    <3>1. cell.added["unknown"] = u + n - c /\ cell.added["broker"] = b
      BY <2>1, <2>3, <1>1, <1>2 DEF Labels
    <3>2. (u + n - c) + b = n
      BY <2>2
    <3> QED BY <3>1, <3>2, <1>1 DEF CellAddsUp
  <2>4. CASE label = "broker"
    <3>1. cell.added["broker"] = b + n - c /\ cell.added["unknown"] = u
      BY <2>1, <2>4, <1>1, <1>2 DEF Labels
    <3>2. u + (b + n - c) = n
      BY <2>2
    <3> QED BY <3>1, <3>2, <1>1 DEF CellAddsUp
  <2> QED BY <2>3, <2>4 DEF Labels
<1>5. \A v \in Workers \ {w} : Counted(gauge, w, label, n)[v] = gauge[v]
  BY DEF Counted, Gauge
<1> QED BY <1>1, <1>3, <1>4, <1>5 DEF old, cell

(* The cell stays right, whatever its series. *)
CellStays(x, v, cell, new) ==
  /\ CellAddsUp(cell) => CellAddsUp(new)
  /\ v \notin known[x] /\ CellShows(cell) => CellShows(new)

CellSteps(old, new, delta) == old.count + delta >= 0 => new.count = old.count + delta

LEMMA AdjustedCell ==
  ASSUME NEW x, NEW gauge \in Gauge, NEW w \in Workers, NEW v \in Workers, NEW delta \in {-1, 1}
  PROVE  /\ CellStays(x, v, gauge[v], Adjusted(x, gauge, w, delta)[v])
         /\ v # w => Adjusted(x, gauge, w, delta)[v] = gauge[v]
         /\ CellSteps(gauge[w], Adjusted(x, gauge, w, delta)[w], delta)
<1> DEFINE g == Adjusted(x, gauge, w, delta)
<1>1. PICK n \in Nat :
        /\ g = Counted(gauge, w, Label(x, w), n)
        /\ gauge[w].count + delta >= 0 => n = gauge[w].count + delta
  BY AdjustedGauge
<1>2. Label(x, w) \in Labels
  BY LabelIsOne
<1>3. n \in Nat
  BY <1>1
<1>4. /\ g[w].count = n
      /\ CellAddsUp(gauge[w]) => CellAddsUp(g[w])
      /\ Label(x, w) = "unknown" => CellShows(g[w])
      /\ \A k \in Workers \ {w} : g[k] = gauge[k]
  BY <1>1, <1>2, <1>3, CountedCell
<1>5. w \notin known[x] => Label(x, w) = "unknown"
  BY DEF Label
<1> HIDE DEF g
<1>6. CellStays(x, v, gauge[v], g[v])
  <2>1. CASE v = w
    BY <2>1, <1>4, <1>5 DEF CellStays
  <2>2. CASE v # w
    BY <2>2, <1>4 DEF CellStays
  <2> QED BY <2>1, <2>2
<1>7. CellSteps(gauge[w], g[w], delta)
  BY <1>1, <1>4 DEF CellSteps
<1> QED BY <1>4, <1>6, <1>7 DEF g

IsTracked(tracker, state, w) == tracker # None /\ tracker.state = state /\ tracker.worker = w

Tells(e, state, w) == e.state = state /\ e.worker = w

(* The count follows the tracker of the task. *)
CellCounts(previous, e, state, w, old, new) ==
  LET was == IsTracked(previous, state, w)
      is == Tells(e, state, w)
  IN  /\ (was <=> is) => new.count = old.count
      /\ was /\ ~ is /\ old.count >= 1 => new.count = old.count - 1
      /\ ~ was /\ is => new.count = old.count + 1

(* The gauge of the tasks in "state" after e: the count of v goes with the tracker of
   the task when no second worker has it. *)
LEMMA MovedCell ==
  ASSUME NEW x, NEW gauge \in Gauge, NEW state, NEW previous \in Tracker \cup {None},
         NEW e \in TaskEvent, previous # None => previous.worker = e.worker,
         NEW v \in Workers
  PROVE  /\ CellStays(x, v, gauge[v], Moved(x, gauge, state, previous, e)[v])
         /\ CellCounts(previous, e, state, v, gauge[v], Moved(x, gauge, state, previous, e)[v])
<1> DEFINE was == IsTracked(previous, state, v)
           is == Tells(e, state, v)
<1> USE DEF IsTracked, Tells
<1>0. e.worker \in Workers /\ gauge[v].count \in Nat
  BY DEF TaskEvent, Gauge
<1> DEFINE cell == Moved(x, gauge, state, previous, e)[v]
<1>1. CASE previous # None /\ previous.state = state /\ e.state # state
  <2> DEFINE g == Adjusted(x, gauge, e.worker, -1)
  <2>1. Moved(x, gauge, state, previous, e) = g
    BY <1>1 DEF Moved
  <2>2. -1 \in {-1, 1}
    OBVIOUS
  <2>3. /\ CellStays(x, v, gauge[v], g[v])
        /\ v # e.worker => g[v] = gauge[v]
        /\ CellSteps(gauge[e.worker], g[e.worker], -1)
    BY <1>0, <2>2, AdjustedCell
  <2>4. ~ is /\ (was <=> v = e.worker)
    BY <1>1
  <2> HIDE DEF g, was, is
  <2>5. /\ v # e.worker => g[v].count = gauge[v].count
        /\ v = e.worker /\ gauge[v].count >= 1 => g[v].count = gauge[v].count - 1
    BY <1>0, <2>3 DEF CellSteps
  <2>6. CellCounts(previous, e, state, v, gauge[v], g[v])
    BY <2>4, <2>5 DEF CellCounts, was, is
  <2> QED BY <2>1, <2>3, <2>6
<1>2. CASE e.state = state /\ (previous = None \/ previous.state # state)
  <2> DEFINE g == Adjusted(x, gauge, e.worker, 1)
  <2>1. Moved(x, gauge, state, previous, e) = g
    BY <1>2 DEF Moved
  <2>2. 1 \in {-1, 1}
    OBVIOUS
  <2>3. /\ CellStays(x, v, gauge[v], g[v])
        /\ v # e.worker => g[v] = gauge[v]
        /\ CellSteps(gauge[e.worker], g[e.worker], 1)
    BY <1>0, <2>2, AdjustedCell
  <2>4. ~ was /\ (is <=> v = e.worker)
    BY <1>2
  <2> HIDE DEF g, was, is
  <2>5. /\ v # e.worker => g[v].count = gauge[v].count
        /\ v = e.worker => g[v].count = gauge[v].count + 1
    BY <1>0, <2>3 DEF CellSteps
  <2>6. CellCounts(previous, e, state, v, gauge[v], g[v])
    BY <2>4, <2>5 DEF CellCounts, was, is
  <2> QED BY <2>1, <2>3, <2>6
<1>3. CASE /\ ~ (previous # None /\ previous.state = state /\ e.state # state)
           /\ ~ (e.state = state /\ (previous = None \/ previous.state # state))
  <2>1. Moved(x, gauge, state, previous, e) = gauge
    BY <1>3 DEF Moved
  <2>2. was <=> is
    BY <1>3
  <2> HIDE DEF was, is
  <2>3. CellCounts(previous, e, state, v, gauge[v], gauge[v])
    BY <2>2 DEF CellCounts, was, is
  <2>4. CellStays(x, v, gauge[v], gauge[v])
    BY DEF CellStays
  <2> QED BY <2>1, <2>3, <2>4
<1> QED BY <1>1, <1>2, <1>3

(* What one member does to the size of a set. *)
LEMMA CountMoves ==
  ASSUME NEW S, NEW R, NEW t, IsFiniteSet(S)
  PROVE  /\ Cardinality(S) \in Nat
         /\ t \in S => Cardinality(S) >= 1
         /\ t \in S /\ R = S \ {t} => Cardinality(R) = Cardinality(S) - 1
         /\ t \notin S /\ R = S \cup {t} => Cardinality(R) = Cardinality(S) + 1
<1>1. Cardinality(S) \in Nat
  BY FS_CardinalityType
<1>2. ASSUME t \in S
      PROVE  Cardinality(S) >= 1 /\ Cardinality(S \ {t}) = Cardinality(S) - 1
  <2>1. Cardinality(S \ {t}) = Cardinality(S) - 1
    BY <1>2, FS_RemoveElement
  <2>2. Cardinality(S) # 0
    BY <1>2, FS_EmptySet
  <2> QED BY <2>1, <2>2, <1>1
<1>3. ASSUME t \notin S PROVE Cardinality(S \cup {t}) = Cardinality(S) + 1
  BY <1>3, FS_AddElement
<1> QED BY <1>1, <1>2, <1>3

(* A count that the trackers confirm is confirmed after the event. *)
LEMMA TrackKeepsCount ==
  ASSUME TypeOK, MemorySound, NEW x \in Exporters, NEW e \in TaskEvent, Track(x, e),
         trackers[x][e.task] # None => trackers[x][e.task].worker = e.worker,
         NEW state \in States \ Terminal, NEW w \in Workers, NEW gauge \in Gauge,
         gauge[w].count = CountOf(x, state, w)
  PROVE  Moved(x, gauge, state, trackers[x][e.task], e)[w].count = CountOf(x, state, w)'
<1> DEFINE rec == [state |-> state, worker |-> w]
           previous == trackers[x][e.task]
           S == {t \in Tasks : trackers[x][t] = rec}
           R == {t \in Tasks : trackers'[x][t] = rec}
           was == IsTracked(previous, state, w)
           is == Tells(e, state, w)
           cell == Moved(x, gauge, state, previous, e)[w]
<1>1. /\ e.task \in Tasks
      /\ trackers'[x][e.task] = IF e.state \in Terminal THEN None
                                ELSE [state |-> e.state, worker |-> e.worker]
      /\ \A t \in Tasks \ {e.task} : trackers'[x][t] = trackers[x][t]
  BY TrackTracker
<1>2. previous \in Tracker \cup {None} /\ rec \in Tracker /\ rec # None
  <2>1. previous \in Tracker \cup {None}
    BY <1>1 DEF TypeOK
  <2>2. rec \in Tracker
    BY DEF Tracker
  <2> QED BY <2>1, <2>2, NoneIsNothing
<1>3. was <=> e.task \in S
  <2>1. ASSUME was PROVE previous = rec
    <3>1. previous \in Tracker
      BY <2>1, <1>2 DEF IsTracked
    <3> QED BY <3>1, <2>1 DEF Tracker, IsTracked
  <2>2. ASSUME previous = rec PROVE was
    BY <2>2, <1>2 DEF IsTracked
  <2> QED BY <2>1, <2>2, <1>1
<1>4. is <=> e.task \in R
  <2>1. e.task \in R <=> trackers'[x][e.task] = rec
    BY <1>1
  <2>2. CASE e.state \in Terminal
    <3>1. ~ is
      BY <2>2 DEF Tells
    <3>2. trackers'[x][e.task] # rec
      BY <2>2, <1>1, <1>2
    <3> QED BY <3>1, <3>2, <2>1
  <2>3. CASE e.state \notin Terminal
    <3>1. trackers'[x][e.task] = [state |-> e.state, worker |-> e.worker]
      BY <2>3, <1>1
    <3> QED BY <3>1, <2>1 DEF Tells
  <2> QED BY <2>2, <2>3
<1>5. R \ {e.task} = S \ {e.task}
  BY <1>1
<1>6. IsFiniteSet(S)
  <2>1. IsFiniteSet(Tracked(x))
    BY DEF MemorySound, MemoryOf
  <2>2. S \subseteq Tracked(x)
    BY <1>2 DEF Tracked
  <2> QED BY <2>1, <2>2, FS_Subset
<1>7. gauge[w].count = Cardinality(S) /\ CountOf(x, state, w)' = Cardinality(R)
  BY DEF CountOf
<1>8. /\ (was <=> is) => cell.count = gauge[w].count
      /\ was /\ ~ is /\ gauge[w].count >= 1 => cell.count = gauge[w].count - 1
      /\ ~ was /\ is => cell.count = gauge[w].count + 1
  <2>1. PICK p \in Tracker \cup {None} : p = previous
    BY <1>2
  <2>2. p # None => p.worker = e.worker
    BY <2>1
  <2>3. CellCounts(p, e, state, w, gauge[w], Moved(x, gauge, state, p, e)[w])
    BY <2>2, MovedCell
  <2> HIDE DEF S, R
  <2> QED BY <2>1, <2>3 DEF CellCounts
<1> HIDE DEF rec, previous, S, R, was, is, cell
<1>9. /\ Cardinality(S) \in Nat
      /\ e.task \in S => Cardinality(S) >= 1
      /\ e.task \in S /\ R = S \ {e.task} => Cardinality(R) = Cardinality(S) - 1
      /\ e.task \notin S /\ R = S \cup {e.task} => Cardinality(R) = Cardinality(S) + 1
  BY <1>6, CountMoves
<1>10. CASE was <=> is
  <2>1. R = S
    BY <1>10, <1>3, <1>4, <1>5
  <2>2. cell.count = Cardinality(R)
    BY <2>1, <1>7, <1>8, <1>10
  <2> QED BY <2>2, <1>7 DEF cell, previous
<1>11. CASE was /\ ~ is
  <2>1. R = S \ {e.task}
    BY <1>11, <1>3, <1>4, <1>5
  <2>2. cell.count = Cardinality(R)
    BY <2>1, <1>3, <1>7, <1>8, <1>9, <1>11
  <2> QED BY <2>2, <1>7 DEF cell, previous
<1>12. CASE ~ was /\ is
  <2>1. R = S \cup {e.task}
    BY <1>12, <1>3, <1>4, <1>5
  <2>2. cell.count = Cardinality(R)
    BY <2>1, <1>3, <1>7, <1>8, <1>9, <1>12
  <2> QED BY <2>2, <1>7 DEF cell, previous
<1> QED BY <1>10, <1>11, <1>12

(* What GaugesMatchTrackers says of one worker at one exporter. *)
GaugeMatches(x, w) ==
  /\ prefetched[x][w].count = CountOf(x, "RECEIVED", w)
  /\ LoadsOf[w] = {} => active[x][w].count = CountOf(x, "STARTED", w)
  /\ \A gauge \in {prefetched[x][w], active[x][w]} :
       /\ CellAddsUp(gauge)
       /\ LoadsOf[w] = {} => CellShows(gauge)

LEMMA GaugesCellByCell ==
  GaugesMatchTrackers <=> \A x \in Exporters, w \in Workers : GaugeMatches(x, w)
BY DEF GaugesMatchTrackers, GaugeMatches, CellAddsUp, CellShows

(* Of an empty gauge and no trackers. *)
LEMMA NothingCounted ==
  ASSUME NEW w \in Workers
  PROVE  /\ Zero[w].count = 0 /\ CellAddsUp(Zero[w]) /\ CellShows(Zero[w])
         /\ \A state \in States \ Terminal :
              Cardinality({t \in Tasks : None = [state |-> state, worker |-> w]}) = 0
<1>1. Zero[w].count = 0 /\ CellAddsUp(Zero[w]) /\ CellShows(Zero[w])
  BY DEF Zero, NoSeries, Labels, CellAddsUp, CellShows
<1>2. ASSUME NEW state \in States \ Terminal
      PROVE  Cardinality({t \in Tasks : None = [state |-> state, worker |-> w]}) = 0
  <2>1. [state |-> state, worker |-> w] \in Tracker
    BY DEF Tracker
  <2>2. {t \in Tasks : None = [state |-> state, worker |-> w]} = {}
    BY <2>1, NoneIsNothing
  <2> QED BY <2>2, FS_EmptySet
<1> QED BY <1>1, <1>2

LEMMA InitGauges == Init => GaugesMatchTrackers
<1> SUFFICES ASSUME Init, NEW x \in Exporters, NEW w \in Workers PROVE GaugeMatches(x, w)
  BY GaugesCellByCell
<1>1. prefetched[x][w] = Zero[w] /\ active[x][w] = Zero[w]
  BY DEF Init
<1>2. \A t \in Tasks : trackers[x][t] = None
  BY DEF Init
<1>3. "RECEIVED" \in States \ Terminal /\ "STARTED" \in States \ Terminal
  BY DEF States, Terminal
<1>4. \A state : {t \in Tasks : trackers[x][t] = [state |-> state, worker |-> w]}
                   = {t \in Tasks : None = [state |-> state, worker |-> w]}
  BY <1>2
<1>5. CountOf(x, "RECEIVED", w) = 0 /\ CountOf(x, "STARTED", w) = 0
  BY <1>3, <1>4, NothingCounted DEF CountOf
<1> QED BY <1>1, <1>5, NothingCounted DEF GaugeMatches

(* A tracked task that is delivered to no second worker is tracked at the worker of
   the event that is next in the queue. *)
LEMMA SameWorker ==
  ASSUME OneWorkerEach, Inv, NEW x \in Exporters, queue[x] # <<>>,
         Head(queue[x]) \in TaskEvent, trackers[x][Head(queue[x]).task] # None
  PROVE  trackers[x][Head(queue[x]).task].worker = Head(queue[x]).worker
<1>1. TypeOK /\ EventsSayable /\ MemorySound
  BY DEF Inv
<1>2. PICK e : e = Head(queue[x])
  OBVIOUS
<1>3. queue[x] \in Seq(Events)
  BY <1>1, QueueIsSeq
<1>4. 1 \in DOMAIN queue[x] /\ queue[x][1] = e
  BY <1>2, <1>3, TailShape
<1>5. e \in TaskEvent /\ Sayable(e)
  BY <1>1, <1>2, <1>4 DEF EventsSayable
<1>6. e.task \in Tasks /\ e.worker \in WorkersOf[e.task]
  BY <1>5 DEF Sayable, TaskEvent
<1>7. trackers[x][e.task].worker \in WorkersOf[e.task]
  BY <1>1, <1>2, <1>6 DEF MemorySound, MemoryOf, Tracked
<1> QED BY <1>2, <1>6, <1>7 DEF OneWorkerEach

LEMMA ExportKeepsGauges ==
  ASSUME OneWorkerEach, Inv, NEW x \in Exporters, NEW w \in Workers, GaugeMatches(x, w), Export(x)
  PROVE  GaugeMatches(x, w)'
<1>0. TypeOK /\ MemorySound
  BY DEF Inv
<1>1. /\ queue[x] # <<>> /\ Head(queue[x]) \in Events
      /\ Head(queue[x]) \in TaskEvent => Track(x, Head(queue[x]))
      /\ Head(queue[x]) \in WorkerEvent => WorkerSeen(x, Head(queue[x]))
  BY <1>0, ExportQueues
<1>2. PICK e \in Events : e = Head(queue[x])
  BY <1>1
<1>3. prefetched[x] \in Gauge /\ active[x] \in Gauge
  BY <1>0 DEF TypeOK
<1>4. LoadsOf[w] = {} => w \notin known[x]
  BY <1>0 DEF MemorySound, MemoryOf
<1>5. CASE e \in TaskEvent
  <2>1. Track(x, e) /\ e.task \in Tasks
    BY <1>1, <1>2, <1>5 DEF TaskEvent
  <2>2. PICK p \in Tracker \cup {None} : p = trackers[x][e.task]
    BY <2>1, <1>0 DEF TypeOK
  <2>3. p # None => p.worker = e.worker
    BY <1>1, <1>2, <1>5, <2>2, SameWorker
  <2>4. /\ prefetched'[x] = Moved(x, prefetched[x], "RECEIVED", p, e)
        /\ active'[x] = Moved(x, active[x], "STARTED", p, e)
    BY <2>1, <2>2, <1>0 DEF Track, TypeOK
  <2>5. "RECEIVED" \in States \ Terminal /\ "STARTED" \in States \ Terminal
    BY DEF States, Terminal
  <2>6. /\ CellStays(x, w, prefetched[x][w], prefetched'[x][w])
        /\ CellStays(x, w, active[x][w], active'[x][w])
    BY <1>3, <1>5, <2>3, <2>4, MovedCell
  <2>7. prefetched'[x][w].count = CountOf(x, "RECEIVED", w)'
    <3>1. prefetched[x][w].count = CountOf(x, "RECEIVED", w)
      BY DEF GaugeMatches
    <3>2. trackers[x][e.task] # None => trackers[x][e.task].worker = e.worker
      BY <2>2, <2>3
    <3>3. Moved(x, prefetched[x], "RECEIVED", trackers[x][e.task], e)[w].count
            = CountOf(x, "RECEIVED", w)'
      BY <1>0, <1>3, <1>5, <2>1, <2>5, <3>1, <3>2, TrackKeepsCount
    <3> QED BY <2>2, <2>4, <3>3
  <2>8. ASSUME LoadsOf[w] = {}
        PROVE  active'[x][w].count = CountOf(x, "STARTED", w)'
    <3>1. active[x][w].count = CountOf(x, "STARTED", w)
      BY <2>8 DEF GaugeMatches
    <3>2. trackers[x][e.task] # None => trackers[x][e.task].worker = e.worker
      BY <2>2, <2>3
    <3>3. Moved(x, active[x], "STARTED", trackers[x][e.task], e)[w].count
            = CountOf(x, "STARTED", w)'
      BY <1>0, <1>3, <1>5, <2>1, <2>5, <3>1, <3>2, TrackKeepsCount
    <3> QED BY <2>2, <2>4, <3>3
  <2>9. \A gauge \in {prefetched'[x][w], active'[x][w]} :
          CellAddsUp(gauge) /\ (LoadsOf[w] = {} => CellShows(gauge))
    BY <2>6, <1>4 DEF GaugeMatches, CellStays
  <2> QED BY <2>7, <2>8, <2>9 DEF GaugeMatches
<1>6. CASE e \in WorkerEvent
  <2>1. WorkerSeen(x, e) /\ e.worker \in Workers /\ e.load \in Nat
    BY <1>1, <1>2, <1>6, PipelineAssumption DEF WorkerEvent
  <2>2. /\ trackers' = trackers /\ prefetched' = prefetched
        /\ active'[x] = Counted(active[x], e.worker, "broker", e.load)
    BY <2>1, <1>0 DEF WorkerSeen, TypeOK
  <2>3. "broker" \in Labels
    BY DEF Labels
  <2>4. CASE w = e.worker
    <3>1. LoadsOf[w] # {}
      <4>1. 1 \in DOMAIN queue[x] /\ queue[x][1] = e
        BY <1>0, <1>1, <1>2, QueueIsSeq, TailShape
      <4>2. Sayable(e)
        BY <4>1 DEF Inv, EventsSayable
      <4> QED BY <4>2, <1>6, <2>4 DEF Sayable
    <3>2. CellAddsUp(active'[x][w])
      BY <1>3, <2>1, <2>2, <2>3, <2>4, CountedCell DEF GaugeMatches
    <3> QED BY <2>2, <3>1, <3>2 DEF GaugeMatches, CountOf
  <2>5. CASE w # e.worker
    <3>1. active'[x][w] = active[x][w]
      BY <1>3, <2>1, <2>2, <2>3, <2>5, CountedCell
    <3> QED BY <2>2, <3>1 DEF GaugeMatches, CountOf
  <2> QED BY <2>4, <2>5
<1> QED BY <1>5, <1>6 DEF Events

LEMMA NextGauges ==
  ASSUME OneWorkerEach, Inv, GaugesMatchTrackers, [Next]_vars
  PROVE  GaugesMatchTrackers'
<1>0. TypeOK
  BY DEF Inv
<1> SUFFICES ASSUME NEW x \in Exporters, NEW w \in Workers PROVE GaugeMatches(x, w)'
  BY DEF GaugesMatchTrackers, GaugeMatches, CellAddsUp, CellShows
<1>1. GaugeMatches(x, w)
  BY GaugesCellByCell
<1>2. CASE trackers'[x] = trackers[x] /\ prefetched'[x] = prefetched[x] /\ active'[x] = active[x]
  BY <1>1, <1>2 DEF GaugeMatches, CountOf
<1>3. CASE Export(x)
  BY <1>1, <1>3, ExportKeepsGauges
<1>4. CASE Restart(x)
  <2>1. /\ prefetched'[x][w] = Zero[w] /\ active'[x][w] = Zero[w]
        /\ \A t \in Tasks : trackers'[x][t] = None
    BY <1>4, <1>0 DEF Restart, TypeOK
  <2>2. "RECEIVED" \in States \ Terminal /\ "STARTED" \in States \ Terminal
    BY DEF States, Terminal
  <2>3. \A state : {t \in Tasks : trackers'[x][t] = [state |-> state, worker |-> w]}
                     = {t \in Tasks : None = [state |-> state, worker |-> w]}
    BY <2>1
  <2>4. CountOf(x, "RECEIVED", w)' = 0 /\ CountOf(x, "STARTED", w)' = 0
    BY <2>2, <2>3, NothingCounted DEF CountOf
  <2> QED BY <2>1, <2>4, NothingCounted DEF GaugeMatches
<1>5. ASSUME NEW y \in Exporters, y # x, Export(y) \/ Restart(y)
      PROVE  trackers'[x] = trackers[x] /\ prefetched'[x] = prefetched[x] /\ active'[x] = active[x]
  <2>1. CASE Restart(y)
    BY <2>1, <1>5, <1>0 DEF Restart, TypeOK
  <2>2. CASE Export(y)
    <3>1. \E e : Track(y, e) \/ WorkerSeen(y, e)
      BY <2>2 DEF Export
    <3> QED BY <3>1, <1>5, <1>0 DEF Track, WorkerSeen, TypeOK
  <2> QED BY <2>1, <2>2, <1>5
<1>6. CASE \A y \in Exporters : ~ Export(y) /\ ~ Restart(y)
  <2>1. UNCHANGED <<trackers, prefetched, active>>
    BY <1>6 DEF Next, Listen, TaskStep, WorkerStep, SendToDb, SendRaises, Put, Handled,
                vars, exporterVars
  <2> QED BY <2>1, <1>2
<1> QED BY <1>2, <1>3, <1>4, <1>5, <1>6

LEMMA NothingLeft == Inv /\ GaugesMatchTrackers => NothingLeaks
<1> SUFFICES ASSUME Inv, GaugesMatchTrackers, NEW x \in Exporters, CaughtUp(x)
             PROVE  /\ \A w \in Workers : online[x][w] \in {None, up[w]}
                    /\ AllFinished => /\ trackers[x] = [t \in Tasks |-> None]
                                      /\ \A w \in Workers : prefetched[x][w].count = 0
  BY DEF NothingLeaks
<1>0. TypeOK /\ TasksFollowed /\ WorkersFollowed
  BY DEF Inv
<1>1. x \in complete /\ event = None /\ queue[x] = <<>>
  BY DEF CaughtUp
<1>2. \A S : NoneIn(queue[x], S)
  BY <1>1 DEF NoneIn
<1>3. ASSUME NEW w \in Workers PROVE online[x][w] \in {None, up[w]}
  <2>1. ~ Offered(x, WorkerEvents(w))
    BY <1>1, NoneIsNothing DEF Offered, WorkerEvents
  <2> QED BY <2>1, <1>0, <1>1, <1>2 DEF WorkersFollowed, WorkerFollowed
<1>4. ASSUME AllFinished, NEW t \in Tasks PROVE trackers[x][t] = None
  <2>1. ~ Offered(x, TaskEvents(t))
    BY <1>1, NoneIsNothing DEF Offered, TaskEvents
  <2>2. trackers[x][t] = None \/ trackers[x][t].state = life[t]
    BY <2>1, <1>0, <1>1, <1>2 DEF TasksFollowed, TaskFollowed
  <2>3. trackers[x][t] # None => trackers[x][t].state \in States \ Terminal
    BY <1>0 DEF TypeOK, Tracker
  <2>4. life[t] \in Terminal \/ life[t] = "new"
    BY <1>4 DEF AllFinished
  <2>5. "new" \notin States
    BY DEF States, Terminal
  <2> QED BY <2>2, <2>3, <2>4, <2>5
<1>5. ASSUME AllFinished
      PROVE  /\ trackers[x] = [t \in Tasks |-> None]
             /\ \A w \in Workers : prefetched[x][w].count = 0
  <2>1. trackers[x] = [t \in Tasks |-> None]
    BY <1>4, <1>5, <1>0 DEF TypeOK
  <2>2. ASSUME NEW w \in Workers PROVE prefetched[x][w].count = 0
    <3>1. prefetched[x][w].count = CountOf(x, "RECEIVED", w)
      BY DEF GaugesMatchTrackers
    <3>2. {t \in Tasks : trackers[x][t] = [state |-> "RECEIVED", worker |-> w]}
            = {t \in Tasks : None = [state |-> "RECEIVED", worker |-> w]}
      BY <1>4, <1>5
    <3>3. "RECEIVED" \in States \ Terminal
      BY DEF States, Terminal
    <3> QED BY <3>1, <3>2, <3>3, NothingCounted DEF CountOf
  <2> QED BY <2>1, <2>2
<1> QED BY <1>3, <1>5

-----------------------------------------------------------------------------
(* Theorems *)

(* Every variable keeps its type: no queue grows past its bound, and no count or series
   that is set falls below zero. *)
THEOREM TypeCorrect == Spec => []TypeOK
<1>1. Inv => TypeOK
  BY DEF Inv
<1> QED BY <1>1, InvHolds, PTL

(* Where no task is delivered to a second worker, the counts of every exporter are what
   its trackers say, whatever events were missed, dropped or lost with a restart. *)
THEOREM CountsMatchTrackers ==
  ASSUME OneWorkerEach
  PROVE  Spec => []GaugesMatchTrackers
<1>1. Init => GaugesMatchTrackers
  BY InitGauges
<1>2. Inv /\ GaugesMatchTrackers /\ [Next]_vars => GaugesMatchTrackers'
  BY NextGauges
<1> QED BY <1>1, <1>2, InvHolds, PTL DEF Spec

(* There, an exporter that got every event and has caught up shows no worker as it no
   longer is, and nothing of tasks that are all finished. *)
THEOREM FinishedLeavesNothing ==
  ASSUME OneWorkerEach
  PROVE  Spec => []NothingLeaks
<1>1. Inv /\ GaugesMatchTrackers => NothingLeaks
  BY NothingLeft
<1> QED BY <1>1, InvHolds, CountsMatchTrackers, PTL

=============================================================================

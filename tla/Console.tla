------------------------------ MODULE Console ------------------------------
(***************************************************************************)
(* Brokers and workers as the console shows and controls them: the          *)
(* reconciler polls the queues of one app at a time and stores what it read *)
(* (core/reconciler.py, engine/brokers/base.py), the worker and broker      *)
(* pages show the latest rows (views/workers.py, views/broker.py), and the  *)
(* buttons send tasks, remote-control commands and purges through an app of *)
(* the registry (engine/tasks.py, engine/workers.py).  Brokers and workers  *)
(* themselves are external.                                                 *)
(***************************************************************************)
EXTENDS Integers, Sequences, FiniteSets, SequencesExt, Absent

CONSTANTS
  AppNames,       \* the apps in the order they were registered
  Brokers,        \* redacted broker URLs; "" is an app without one
  BrokerOf,       \* app -> broker
  CountsConsumers,\* the brokers that report consumers (AMQP does, Redis does not)
  TasksOf,        \* app -> names of its tasks
  TaskQueues,     \* app -> the queues its configuration declares
  TaskQueue,      \* app -> the queue its tasks go to by default
  Queues,
  Workers,
  AppOf,          \* worker -> the app it runs
  Consumes,       \* worker -> the queues it reads
  Submissions,    \* what the form to send a task is filled with: name, queue
  PoolRestarts,   \* apps with worker_pool_restarts
  MaxMessages,    \* bound: the messages of a queue
  MaxPool         \* bound: the processes of a worker

Apps == ToSet(AppNames)

ASSUME ConsoleAssumption ==
  /\ AppNames \in Seq(Apps) /\ AppNames # <<>> /\ IsInjective(AppNames)
  /\ BrokerOf \in [Apps -> Brokers] /\ AppOf \in [Workers -> Apps]
  /\ Consumes \in [Workers -> SUBSET Queues]
  /\ MaxMessages \in Nat /\ MaxPool \in Nat \ {0}
  /\ None \notin Nat /\ None \notin {"autoscale", "purge"}

VARIABLES
  up, pool,       \* the workers that run, and the size of their pools
  pending,        \* the messages waiting in each queue of each broker
  rows,           \* the table "workers" (broker, pool_size, queues) with, from the
                  \* last row of worker_events, the app a snapshot came from
  snapshot,       \* the broker_queue_events with the largest id of each queue
  index,          \* Reconciler._broker_index, modulo the number of apps
  found,          \* the queues of the app being polled that are not yet stored
  waited,         \* the polls since each app had its turn
  command         \* a button whose handler has read the database

worldVars == <<up, pool, pending>>
tableVars == <<rows, snapshot>>
pollVars == <<index, found, waited>>
consoleVars == <<worldVars, tableVars, pollVars, command>>

NoCommand == [kind |-> None]

(* The console starts beside workers that run already. *)
ConsoleInit ==
  /\ up \in SUBSET Workers /\ pool = [w \in Workers |-> IF w \in up THEN MaxPool ELSE 1]
  /\ pending = [b \in Brokers |-> [q \in Queues |-> 0]]
  /\ rows = [w \in Workers |-> None]
  /\ snapshot = [b \in Brokers |-> [q \in Queues |-> None]]
  /\ index = 0 /\ found = [app |-> None, queues |-> <<>>]
  /\ waited = [a \in Apps |-> 0]
  /\ command = NoCommand

(* External: who reads a queue, and who hears a remote-control command. *)
Consumers(b, q) == {w \in up : BrokerOf[AppOf[w]] = b /\ q \in Consumes[w]}
Hears(app) == {w \in up : BrokerOf[AppOf[w]] = BrokerOf[app]}

-----------------------------------------------------------------------------
(* Workers and producers. *)
StartWorker(w) ==
  /\ w \notin up
  /\ up' = up \cup {w} /\ pool' = [pool EXCEPT ![w] = MaxPool]
  /\ UNCHANGED <<pending, tableVars, pollVars, command>>

StopWorker(w) ==
  /\ w \in up
  /\ up' = up \ {w} /\ pool' = [pool EXCEPT ![w] = 1]
  /\ UNCHANGED <<pending, tableVars, pollVars, command>>

Consume(b, q) ==
  /\ Consumers(b, q) # {} /\ pending[b][q] > 0
  /\ pending' = [pending EXCEPT ![b][q] = @ - 1]
  /\ UNCHANGED <<up, pool, tableVars, pollVars, command>>

(* A heartbeat tells nothing of the pool and the queues, and its upsert writes
   NULL over what a snapshot told. *)
StoreHeartbeat(w) ==
  /\ w \in up
  /\ rows' = [rows EXCEPT ![w] =
       [broker |-> BrokerOf[AppOf[w]], pool |-> None, queues |-> {}, app |-> None]]
  /\ UNCHANGED <<worldVars, snapshot, pollVars, command>>

(* _poll_worker_stats: the first app whose broker answers for the worker. *)
StoreSnapshot(w) ==
  /\ w \in up
  /\ LET hearing == {i \in DOMAIN AppNames : BrokerOf[AppNames[i]] = BrokerOf[AppOf[w]]}
         app == AppNames[Min(hearing)]
     IN  rows' = [rows EXCEPT ![w] =
           [broker |-> BrokerOf[app], pool |-> pool[w], queues |-> Consumes[w], app |-> app]]
  /\ UNCHANGED <<worldVars, snapshot, pollVars, command>>

-----------------------------------------------------------------------------
(* The reconciler's poll of one app's queues. *)

(* The queues read by the workers that answer in time, or else the app's own. *)
DiscoverQueueNames(app, answering) ==
  LET read == UNION {Consumes[w] : w \in answering}
  IN  CASE read # {}              -> read
        [] TaskQueues[app] # {}   -> TaskQueues[app]
        [] OTHER                  -> {TaskQueue[app]}

(* _broker_counts: Redis gives the length of the list and no consumers; a count
   that fails gives neither. *)
QueueInfo(b, q) ==
  {[queue |-> q, messages |-> pending[b][q],
    consumers |-> IF b \in CountsConsumers THEN Cardinality(Consumers(b, q)) ELSE None],
   [queue |-> q, messages |-> None, consumers |-> None]}

Turn == [a \in Apps |-> IF a = AppNames[index + 1] THEN 0 ELSE waited[a] + 1]

(* Mutant: a poll that failed is repeated first. *)
PollBrokerAgain ==
  /\ found.queues = <<>>
  /\ LET app == AppNames[index + 1]
     IN  \/ \E answering \in SUBSET Hears(app) :
            LET names == SetToSeq(DiscoverQueueNames(app, answering))
            IN  \E infos \in [DOMAIN names -> UNION {QueueInfo(BrokerOf[app], names[i]) : i \in DOMAIN names}] :
                  /\ \A i \in DOMAIN names : infos[i].queue = names[i]
                  /\ found' = [app |-> app, queues |-> infos]
                  /\ index' = (index + 1) % Len(AppNames)
         \/ UNCHANGED <<found, index>>
  /\ waited' = [a \in Apps |-> IF waited[a] > 2 * Len(AppNames) THEN waited[a] ELSE Turn[a]]
  /\ UNCHANGED <<worldVars, tableVars, command>>

(* The index moves on before the broker is asked, so that one whose calls fail
   loses its turn and keeps nobody else's.  The calls are taken to end: they have
   no timeout (base.py:211-217), and one that hung would hold up the whole loop. *)
PollBroker ==
  /\ found.queues = <<>>
  /\ LET app == AppNames[index + 1]
     IN  \/ \E answering \in SUBSET Hears(app) :
            LET names == SetToSeq(DiscoverQueueNames(app, answering))
            IN  \E infos \in [DOMAIN names -> UNION {QueueInfo(BrokerOf[app], names[i]) : i \in DOMAIN names}] :
                  /\ \A i \in DOMAIN names : infos[i].queue = names[i]
                  /\ found' = [app |-> app, queues |-> infos]
         \/ UNCHANGED found
  /\ index' = (index + 1) % Len(AppNames)
  /\ waited' = Turn
  /\ UNCHANGED <<worldVars, tableVars, command>>

(* One call per queue; a call that fails leaves the older row the latest. *)
StoreQueue ==
  /\ found.queues # <<>>
  /\ LET info == Head(found.queues)
     IN  \/ snapshot' = [snapshot EXCEPT ![BrokerOf[found.app]][info.queue] =
              [messages |-> info.messages, consumers |-> info.consumers]]
         \/ UNCHANGED snapshot
  /\ found' = [found EXCEPT !.queues = Tail(@)]
  /\ UNCHANGED <<worldVars, rows, index, waited, command>>

(* db.cleanup: no poll has told of the queue for the whole retention. *)
ForgetQueue(b, q) ==
  /\ snapshot[b][q] # None
  /\ snapshot' = [snapshot EXCEPT ![b][q] = None]
  /\ UNCHANGED <<worldVars, rows, pollVars, command>>

-----------------------------------------------------------------------------
(* The pages. *)
Known(b) == {q \in Queues : snapshot[b][q] # None}
OrZero(n) == IF n = None THEN 0 ELSE n

BrokerSummary(b) ==
  [queues    |-> Cardinality(Known(b)),
   consumers |-> [q \in Known(b) |-> OrZero(snapshot[b][q].consumers)],
   pending   |-> [q \in Known(b) |-> OrZero(snapshot[b][q].messages)],
   idle      |-> {q \in Known(b) : OrZero(snapshot[b][q].consumers) = 0}]

RowedWorkers == {w \in Workers : rows[w] # None}
UnknownWorkers == {w \in RowedWorkers : rows[w].broker = ""}

(* _attached_workers without its fallback. *)
AttachedWorkers(b) == {w \in UnknownWorkers : rows[w].queues \cap Known(b) # {}}

(* _resolve_broker_workers: by the broker in the row, else by the queues. *)
ResolveBrokerWorkers(b) == {w \in RowedWorkers : b # "" /\ rows[w].broker = b} \cup AttachedWorkers(b)

ShownBrokers == {BrokerOf[a] : a \in Apps}

UnassignedWorkers == RowedWorkers \ UNION {ResolveBrokerWorkers(b) : b \in ShownBrokers}

(* The detail page: a row without a pool size counts as 0, not as unknown, and a
   broker is shown only while the last event is a snapshot, and not for a worker
   that is shown as offline. *)
WorkerOverview(w, offline) ==
  LET app == IF offline THEN None ELSE rows[w].app
  IN  [pool |-> OrZero(rows[w].pool), concurrency |-> OrZero(rows[w].pool),
       broker |-> IF app = None THEN None ELSE BrokerOf[app],
       queues |-> IF app = None THEN {} ELSE Known(BrokerOf[app])]

-----------------------------------------------------------------------------
(* The buttons.  All but "submit" go through the first app. *)
DefaultApp == Head(AppNames)

SendTask(app, queue) ==
  /\ pending[BrokerOf[app]][queue] < MaxMessages
  /\ pending' = [pending EXCEPT ![BrokerOf[app]][queue] = @ + 1]
  /\ UNCHANGED <<up, pool, tableVars, pollVars, command>>

(* _resolve_task_entry: the first app that has the task, else the first app. *)
ResolveTaskApp(name) ==
  LET having == SelectSeq(AppNames, LAMBDA a : name \in TasksOf[a])
  IN  IF having # <<>> THEN Head(having) ELSE DefaultApp

TaskSubmit(name, queue) ==
  LET app == ResolveTaskApp(name)
  IN  SendTask(app, IF queue # None THEN queue ELSE TaskQueue[app])

TaskRetry == SendTask(DefaultApp, TaskQueue[DefaultApp])

(* A command reaches the named worker, when it hears the first app's broker. *)
PoolCommand(w, size) ==
  /\ pool' = [pool EXCEPT ![w] = IF w \in Hears(DefaultApp) THEN size ELSE @]
  /\ UNCHANGED <<up, pending, tableVars, pollVars, command>>

WorkerGrow(w) == pool[w] < MaxPool /\ PoolCommand(w, pool[w] + 1)
WorkerShrink(w) == pool[w] > 1 /\ PoolCommand(w, pool[w] - 1)

(* worker_autoscale: the row is read, then the limit is sent; a pool larger than
   the limit shrinks to it. *)
AutoscaleRead(w) ==
  /\ command.kind = None
  /\ command' = [kind |-> "autoscale", worker |-> w,
                 limit |-> IF rows[w] # None /\ OrZero(rows[w].pool) > 0 THEN rows[w].pool ELSE 1]
  /\ UNCHANGED <<worldVars, tableVars, pollVars>>

AutoscaleSend ==
  /\ command.kind = "autoscale"
  /\ pool' = [pool EXCEPT ![command.worker] =
       IF command.worker \in Hears(DefaultApp) /\ @ > command.limit THEN command.limit ELSE @]
  /\ command' = NoCommand
  /\ UNCHANGED <<up, pending, tableVars, pollVars>>

(* workers_restart: the workers decide with how many processes to come back. *)
WorkersRestart ==
  /\ DefaultApp \in PoolRestarts
  /\ \E size \in 1 .. MaxPool :
       pool' = [w \in Workers |-> IF w \in Hears(DefaultApp) THEN size ELSE pool[w]]
  /\ UNCHANGED <<up, pending, tableVars, pollVars, command>>

PurgeQueue(b, q) == pending' = [pending EXCEPT ![b][q] = 0]

BrokerPurge(app, q) ==
  /\ PurgeQueue(BrokerOf[app], q)
  /\ UNCHANGED <<up, pool, tableVars, pollVars, command>>

(* broker_purge_idle: the snapshot is read, then its idle queues are purged one
   by one. *)
PurgeIdleRead(app) ==
  /\ command.kind = None
  /\ BrokerSummary(BrokerOf[app]).idle # {}
  /\ command' = [kind |-> "purge", app |-> app, queues |-> BrokerSummary(BrokerOf[app]).idle]
  /\ UNCHANGED <<worldVars, tableVars, pollVars>>

PurgeIdleStep(q) ==
  /\ command.kind = "purge" /\ q \in command.queues
  /\ PurgeQueue(BrokerOf[command.app], q)
  /\ command' = IF command.queues = {q} THEN NoCommand ELSE [command EXCEPT !.queues = @ \ {q}]
  /\ UNCHANGED <<up, pool, tableVars, pollVars>>

ConsoleNext ==
  \/ \E w \in Workers :
       \/ StartWorker(w) \/ StopWorker(w) \/ StoreHeartbeat(w) \/ StoreSnapshot(w)
       \/ WorkerGrow(w) \/ WorkerShrink(w) \/ AutoscaleRead(w)
  \/ \E b \in Brokers, q \in Queues : Consume(b, q) \/ ForgetQueue(b, q)
  \/ PollBroker \/ StoreQueue
  \/ \E form \in Submissions : TaskSubmit(form.name, form.queue)
  \/ TaskRetry \/ AutoscaleSend \/ WorkersRestart
  \/ \E app \in Apps : PurgeIdleRead(app) \/ \E q \in Queues : BrokerPurge(app, q)
  \/ \E q \in Queues : PurgeIdleStep(q)

ConsoleSpec == ConsoleInit /\ [][ConsoleNext]_consoleVars

-----------------------------------------------------------------------------
ConsoleTypeOK ==
  /\ up \subseteq Workers /\ pool \in [Workers -> 1 .. MaxPool]
  /\ pending \in [Brokers -> [Queues -> 0 .. MaxMessages]]
  /\ \A w \in RowedWorkers : rows[w].broker \in Brokers /\ rows[w].queues \subseteq Queues
  /\ index \in 0 .. Len(AppNames) - 1
  /\ command.kind \in {None, "autoscale", "purge"}

(* Every app's broker is polled in its turn: one whose calls fail, or whose rows
   cannot be stored, holds up no other. *)
PollsInTurn == \A a \in Apps : waited[a] < Len(AppNames)
=============================================================================

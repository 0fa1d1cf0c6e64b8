----------------------------- MODULE WorkerFleet -----------------------------
(***************************************************************************)
(* Workers and how Celery Root comes to know of them: workers that start,   *)
(* beat, shut down or die; the broker's event queue; the listener, which    *)
(* stamps an event when it receives it and sends it to the DB manager; the  *)
(* reconciler, which inspects a worker and stores a snapshot stamped after  *)
(* the inspection; a manager that may apply these writes late and out of    *)
(* order (a write that timed out is still applied, see DbRpc).              *)
(***************************************************************************)
EXTENDS Integers, SequencesExt, Absent

CONSTANTS
  Hosts, Sizes, MaxClock, Retention, Threshold, NoWorker,
  Loads,         \* active-task counts workers report
  MaxDelay,      \* longest stay of an event in the broker, or of an inspection
  MaxQueue,      \* bound: events waiting in the broker
  MaxPending     \* bound: writes on their way to the database

VARIABLES
  workers, workerEvents,
  alive,         \* host: the worker runs
  lastAlive,     \* host: when it last did
  queue,         \* events in the broker: [host, kind, active, sent]
  inspected,     \* the inspection under way in the reconciler, or None
  pending,       \* stamped events on their way to the database
  now

Tables == INSTANCE WorkerStore

storeVars == <<workers, workerEvents>>
sceneVars == <<alive, lastAlive, queue, inspected, pending, now>>
fleetVars == <<storeVars, sceneVars>>

Clock == 0 .. MaxClock
Sent == [host : Hosts, kind : {"worker-online", "worker-heartbeat", "worker-offline"},
         active : Loads \cup {None}, sent : Clock]
Inspection == [host : Hosts, active : Loads \cup {None}, size : Sizes \cup {None}, sent : Clock]

ASSUME FleetAssumption ==
  /\ MaxClock \in Nat /\ Threshold \in Nat
  /\ Retention \in Nat \ {0}
  /\ Loads \subseteq Nat
  /\ MaxDelay \in Nat /\ MaxQueue \in Nat /\ MaxPending \in Nat
  /\ None \notin Nat /\ None \notin Sizes /\ None \notin Inspection
  /\ NoWorker \notin Tables!WorkerRow

FleetTypeOK ==
  /\ Tables!TypeOK
  /\ alive \in [Hosts -> BOOLEAN]
  /\ lastAlive \in [Hosts -> Clock]
  /\ queue \in Seq(Sent)
  /\ inspected \in Inspection \cup {None}
  /\ pending \subseteq Tables!WorkerEvent
  /\ now \in Clock

FleetInit ==
  /\ Tables!Init
  /\ alive = [h \in Hosts |-> FALSE]
  /\ lastAlive = [h \in Hosts |-> 0]
  /\ queue = <<>>
  /\ inspected = None
  /\ pending = {}
  /\ now = 0

-----------------------------------------------------------------------------
(* Workers (Celery's, outside the repository) *)

Emit(h, kind, active) ==
  /\ Len(queue) < MaxQueue
  /\ queue' = Append(queue, [host |-> h, kind |-> kind, active |-> active, sent |-> now])

Start(h) ==
  /\ ~ alive[h]
  /\ alive' = [alive EXCEPT ![h] = TRUE]
  /\ lastAlive' = [lastAlive EXCEPT ![h] = now]
  /\ Emit(h, "worker-online", None)
  /\ UNCHANGED <<storeVars, inspected, pending, now>>

Beat(h) ==
  /\ alive[h]
  /\ \E n \in Loads : Emit(h, "worker-heartbeat", n)
  /\ UNCHANGED <<storeVars, alive, lastAlive, inspected, pending, now>>

Shutdown(h) ==
  /\ alive[h]
  /\ alive' = [alive EXCEPT ![h] = FALSE]
  /\ Emit(h, "worker-offline", None)
  /\ UNCHANGED <<storeVars, lastAlive, inspected, pending, now>>

Die(h) ==
  /\ alive[h]
  /\ alive' = [alive EXCEPT ![h] = FALSE]
  /\ UNCHANGED <<storeVars, lastAlive, queue, inspected, pending, now>>

-----------------------------------------------------------------------------
(* EventListener._handle_worker_event: the timestamp is that of the receipt. *)
Receive ==
  /\ queue # <<>>
  /\ Cardinality(pending) < MaxPending
  /\ LET e == Head(queue)
     IN  pending' = pending \cup
           {[host |-> e.host, kind |-> e.kind, ts |-> now, active |-> e.active, size |-> None]}
  /\ queue' = Tail(queue)
  /\ UNCHANGED <<storeVars, alive, lastAlive, inspected, now>>

(* Reconciler._poll_worker_stats: only a live worker answers, perhaps in part.  (Its
   list of names is up to 30 s old; here a worker is listed when it is asked.) *)
Inspect(h) ==
  /\ inspected = None
  /\ h \in Tables!Listed
  /\ alive[h]
  /\ \E n \in Loads \cup {None}, s \in Sizes \cup {None} :
       /\ <<n, s>> # <<None, None>>
       /\ inspected' = [host |-> h, active |-> n, size |-> s, sent |-> now]
  /\ UNCHANGED <<storeVars, alive, lastAlive, queue, pending, now>>

(* _build_worker_event, _store_worker_event: stamped when the answers are in. *)
StoreSnapshot ==
  /\ inspected # None
  /\ Cardinality(pending) < MaxPending
  /\ pending' = pending \cup
       {[host |-> inspected.host, kind |-> "worker-snapshot", ts |-> now,
         active |-> inspected.active, size |-> inspected.size]}
  /\ inspected' = None
  /\ UNCHANGED <<storeVars, alive, lastAlive, queue, now>>

(* The DB manager applies a write, or the write is lost with its connection. *)
Apply(e) ==
  /\ Tables!StoreWorkerEvent(e)
  /\ pending' = pending \ {e}
  /\ UNCHANGED <<alive, lastAlive, queue, inspected, now>>

LoseWrite(e) ==
  /\ pending' = pending \ {e}
  /\ UNCHANGED <<storeVars, alive, lastAlive, queue, inspected, now>>

Cleanup ==
  /\ Tables!Cleanup(now)
  /\ UNCHANGED sceneVars

(* Time passes, but no event stays in the broker and no inspection lasts longer
   than MaxDelay. *)
Tick ==
  /\ now < MaxClock
  /\ \A e \in ToSet(queue) : now - e.sent < MaxDelay
  /\ inspected # None => now - inspected.sent < MaxDelay
  /\ now' = now + 1
  /\ lastAlive' = [h \in Hosts |-> IF alive[h] THEN now + 1 ELSE lastAlive[h]]
  /\ UNCHANGED <<storeVars, alive, queue, inspected, pending>>

FleetNext ==
  \/ \E h \in Hosts : Start(h) \/ Beat(h) \/ Shutdown(h) \/ Die(h)
  \/ Receive
  \/ \E h \in Hosts : Inspect(h)
  \/ StoreSnapshot
  \/ \E e \in pending : Apply(e) \/ LoseWrite(e)
  \/ Cleanup
  \/ Tick

FleetSpec == FleetInit /\ [][FleetNext]_fleetVars

-----------------------------------------------------------------------------
(* Safety *)

(* A worker that stopped or died is shown offline once it has been gone longer
   than the threshold plus the longest delay of an event, even when heartbeats
   and snapshots from before are applied after its worker-offline event. *)
DeadShownOffline ==
  \A h \in Hosts :
    ~ alive[h] /\ now > lastAlive[h] + MaxDelay + Threshold
      => Tables!Shown(h, now) \in {"absent", "offline"}

(* The heartbeat a row shows, which a row that is not OFFLINE always has, is that
   of a logged event: two deletes trim the two tables, and still the detail page
   of a listed worker finds an event at least as recent as its heartbeat. *)
HeartbeatIsLogged ==
  \A h \in Tables!Listed :
    /\ workers[h].status = "ONLINE" => workers[h].lastHeartbeat # None
    /\ workers[h].lastHeartbeat # None =>
         [host |-> h, ts |-> workers[h].lastHeartbeat] \in workerEvents

=============================================================================

----------------------------- MODULE WorkerStore -----------------------------
(***************************************************************************)
(* The worker tables behind the DB manager: workers and worker_events, with *)
(* db.worker_event.ingest and the part of db.cleanup that trims them, and    *)
(* what the worker pages read from them.  Each operation is one handler     *)
(* under the manager's lock and one transaction.                            *)
(***************************************************************************)
EXTENDS Integers

CONSTANTS
  Hosts,         \* hostnames
  Sizes,         \* what a snapshot tells: pool size, queues, registered tasks
  MaxClock,
  Retention,     \* retention window, in clock ticks
  Threshold,     \* _OFFLINE_THRESHOLD: silence after which a worker shows offline
  None,
  NoWorker

Times == 0 .. MaxClock
Opt(S) == S \cup {None}

Kinds == {"worker-online", "worker-heartbeat", "worker-offline", "worker-snapshot"}

WorkerEvent == [host : Hosts, kind : Kinds, ts : Times, active : Opt(Nat), size : Opt(Sizes)]

WorkerRow ==
  [status : {"ONLINE", "OFFLINE"}, lastHeartbeat : Opt(Times), active : Opt(Nat),
   size : Opt(Sizes)]

VARIABLES
  workers,       \* the workers table
  workerEvents   \* the host and the timestamp of the rows of worker_events

vars == <<workers, workerEvents>>

TypeOK ==
  /\ workers \in [Hosts -> WorkerRow \cup {NoWorker}]
  /\ workerEvents \subseteq [host : Hosts, ts : Times]

Init ==
  /\ workers = [h \in Hosts |-> NoWorker]
  /\ workerEvents = {}

Listed == {h \in Hosts : workers[h] # NoWorker}

-----------------------------------------------------------------------------
(* Every column is overwritten, also by the values an event lacks; only the last
   heartbeat survives a worker-offline event. *)
WorkerRowAfter(row, event) ==
  LET offline == event.kind = "worker-offline"
  IN  [status |-> IF offline THEN "OFFLINE" ELSE "ONLINE",
       lastHeartbeat |->
         IF ~ offline THEN event.ts
         ELSE IF row = NoWorker THEN None
         ELSE IF row.lastHeartbeat # None THEN row.lastHeartbeat
         ELSE event.ts,
       active |-> event.active,
       size |-> event.size]

StoreWorkerEvent(event) ==
  /\ workerEvents' = workerEvents \cup {[host |-> event.host, ts |-> event.ts]}
  /\ workers' = [workers EXCEPT ![event.host] = WorkerRowAfter(@, event)]

(* Mutant: the events at the cutoff go too. *)
CleanupOffByOne(now) ==
  LET cutoff == now - Retention
  IN  /\ workerEvents' = {e \in workerEvents : e.ts > cutoff}
      /\ workers' = [h \in Hosts |->
           IF /\ workers[h] # NoWorker
              /\ workers[h].lastHeartbeat # None
              /\ workers[h].lastHeartbeat < cutoff
           THEN NoWorker ELSE workers[h]]

Cleanup(now) ==
  LET cutoff == now - Retention
  IN  /\ workerEvents' = {e \in workerEvents : e.ts >= cutoff}
      /\ workers' = [h \in Hosts |->
           IF /\ workers[h] # NoWorker
              /\ workers[h].lastHeartbeat # None
              /\ workers[h].lastHeartbeat < cutoff
           THEN NoWorker ELSE workers[h]]

-----------------------------------------------------------------------------
(* Mutant: the stored status is trusted. *)
ShownAsStored(h, now) ==
  LET row == workers[h]
  IN  CASE row = NoWorker -> "absent"
        [] row # NoWorker /\ row.status = "OFFLINE" -> "offline"
        [] row # NoWorker /\ row.status # "OFFLINE" ->
             IF row.active # None /\ row.active > 0 THEN "busy" ELSE "online"

(* The status the worker pages show: _resolve_status. *)
Shown(h, now) ==
  LET row == workers[h]
  IN  CASE row = NoWorker -> "absent"
        [] row # NoWorker /\ row.status = "OFFLINE" -> "offline"
        [] row # NoWorker /\ row.status # "OFFLINE" ->
             IF row.lastHeartbeat # None /\ now - row.lastHeartbeat > Threshold
             THEN "offline"
             ELSE IF row.active # None /\ row.active > 0 THEN "busy" ELSE "online"
=============================================================================

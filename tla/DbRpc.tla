-------------------------------- MODULE DbRpc --------------------------------
(***************************************************************************)
(* The RPC between a component (event listener, reconciler, beat, web page) *)
(* and the DB manager: one synchronous client per component over a socket   *)
(* connection, one server thread per connection, a semaphore that bounds    *)
(* the requests in flight, one lock around every database operation; client *)
(* timeouts, reconnects and retries, a manager that stops, dies and is      *)
(* restarted at any moment.                                                 *)
(***************************************************************************)
EXTENDS Integers, Sequences, FiniteSets, Absent

CONSTANTS
  Clients,
  Conns,         \* identities of connections; a finished one is reused
  MaxInflight,   \* rpc_max_inflight
  MaxCalls,      \* bound: calls of a client
  Workloads,     \* the calls that may be made: request -> [name, retries]
  MaxCrashes     \* bound: deaths and stops of the manager

-----------------------------------------------------------------------------
(* The registry.  Handlers that look at the database itself, handlers that query
   what is stored, and handlers that write in one transaction; an ingest commits
   several, the event and then each of its relations. *)
SystemReads == {"db.ping", "db.schema_version", "db.schema", "db.info", "db.raw_query"}
StoredReads == {"broker.queues.snapshot", "workers.events.snapshot", "tasks.list", "tasks.page",
                "tasks.names", "tasks.get", "relations.list", "workers.list", "workers.get",
                "stats.task", "stats.throughput", "stats.state_distribution", "stats.heatmap",
                "schedules.list"}
RpcOperations ==
  [reads   |-> SystemReads \cup StoredReads,
   writes  |-> {"events.worker.ingest", "events.broker_queue.ingest", "relations.store",
                "schedules.store", "schedules.delete", "db.cleanup"},
   ingests |-> {"events.task.ingest"}]

(* What the methods of DbRpcClient ask for. *)
SystemCalls == {"db.ping", "db.schema_version", "db.schema", "db.info", "db.raw_query"}
TaskCalls == {"events.task.ingest", "tasks.list", "tasks.page", "tasks.names", "tasks.get",
              "relations.store", "relations.list"}
WorkerCalls == {"events.worker.ingest", "events.broker_queue.ingest", "broker.queues.snapshot",
                "workers.list", "workers.get", "workers.events.snapshot"}
StatsCalls == {"stats.task", "stats.throughput", "stats.state_distribution", "stats.heatmap"}
ScheduleCalls == {"schedules.list", "schedules.store", "schedules.delete", "db.cleanup"}

Operations == SystemCalls \cup TaskCalls \cup WorkerCalls \cup StatsCalls \cup ScheduleCalls

(* The manager knows every operation its clients ask for, and no other. *)
ASSUME OperationsRegistered ==
  Operations = UNION {RpcOperations[k] : k \in DOMAIN RpcOperations}

Requests == Clients \X (1 .. MaxCalls)

(* A call: its operation and its max_retries; attempts = max_retries + 1. *)
Calls == [name : Operations, retries : Nat]

ASSUME RpcAssumption ==
  /\ MaxInflight \in Nat \ {0}
  /\ MaxCalls \in Nat
  /\ MaxCrashes \in Nat
  /\ \A w \in Workloads : DOMAIN w \subseteq Requests /\ \A r \in DOMAIN w : w[r] \in Calls
  /\ IsFiniteSet(Conns) /\ None \notin Conns
  /\ None \notin Clients \X Nat

VARIABLES
  op,            \* the calls this behaviour makes
  manager,       \* "up", "stopping" or "down"
  crashes,
  pc,            \* client: "idle", "try" (about to connect and send) or "waiting"
  link,          \* client: its connection, or None
  calls,         \* client: calls begun
  attempt,       \* client: attempts used by the current call
  outcome,       \* what each call returned to its caller
  open,          \* connection: the client's end is open
  thread,        \* connection: what its server thread does
  inbox,         \* connection: requests sent and not yet read
  outbox,        \* connection: replies sent and not yet read
  current,       \* connection: the request its thread works on
  answer,        \* connection: the reply it will send: "refused" is an error under a made-up id
  permits,       \* the inflight semaphore
  lock,          \* the connection whose thread holds the lock, or None
  db             \* history: requests in the order they were applied

clientVars == <<pc, link, calls, attempt, outcome>>
connVars == <<open, thread, inbox, outbox, current, answer>>
serverVars == <<manager, crashes, permits, lock, db>>
vars == <<op, clientVars, connVars, serverVars>>

(* "to" is the request a reply answers; "id" is the request_id it carries, which
   is None when the manager made one up. *)
Reply == [to : Requests, id : Requests \cup {None}, code : {"ok", "error", "BUSY"}]

ThreadStates == {"free", "unaccepted", "recv", "admitted", "locked", "done", "dead"}

TypeOK ==
  /\ op \in Workloads
  /\ manager \in {"up", "stopping", "down"}
  /\ crashes \in 0 .. MaxCrashes
  /\ pc \in [Clients -> {"idle", "try", "waiting"}]
  /\ link \in [Clients -> Conns \cup {None}]
  /\ calls \in [Clients -> 0 .. MaxCalls]
  /\ attempt \in [Clients -> Nat]
  /\ outcome \in [Requests -> {"none", "ok", "error", "failed"}]
  /\ open \in [Conns -> BOOLEAN]
  /\ thread \in [Conns -> ThreadStates]
  /\ inbox \in [Conns -> Seq(Requests)]
  /\ outbox \in [Conns -> Seq(Reply)]
  /\ current \in [Conns -> Requests \cup {None}]
  /\ answer \in [Conns -> {"ok", "error", "refused", None}]
  /\ permits \in 0 .. MaxInflight
  /\ lock \in Conns \cup {None}
  /\ db \in Seq(Requests)

Init ==
  /\ op \in Workloads
  /\ manager = "up"
  /\ crashes = 0
  /\ pc = [c \in Clients |-> "idle"]
  /\ link = [c \in Clients |-> None]
  /\ calls = [c \in Clients |-> 0]
  /\ attempt = [c \in Clients |-> 0]
  /\ outcome = [r \in Requests |-> "none"]
  /\ open = [k \in Conns |-> FALSE]
  /\ thread = [k \in Conns |-> "free"]
  /\ inbox = [k \in Conns |-> <<>>]
  /\ outbox = [k \in Conns |-> <<>>]
  /\ current = [k \in Conns |-> None]
  /\ answer = [k \in Conns |-> None]
  /\ permits = MaxInflight
  /\ lock = None
  /\ db = <<>>

-----------------------------------------------------------------------------
(* Clients: _RpcTransport.request *)

Call(c) == <<c, calls[c]>>
Attempts(r) == op[r].retries + 1

Begin(c) ==
  /\ pc[c] = "idle"
  /\ <<c, calls[c] + 1>> \in DOMAIN op
  /\ calls' = [calls EXCEPT ![c] = @ + 1]
  /\ attempt' = [attempt EXCEPT ![c] = 0]
  /\ pc' = [pc EXCEPT ![c] = "try"]
  /\ UNCHANGED <<link, outcome, connVars, serverVars>>

(* Identities no end of a connection uses; which one is taken makes no difference. *)
Unused == {k \in Conns : thread[k] = "free"}

Connect(c) ==
  /\ pc[c] = "try"
  /\ link[c] = None
  /\ attempt[c] < Attempts(Call(c))
  /\ manager = "up"
  /\ Unused # {}
  /\ LET k == CHOOSE k \in Unused : TRUE
     IN
       /\ link' = [link EXCEPT ![c] = k]
       /\ open' = [open EXCEPT ![k] = TRUE]
       /\ thread' = [thread EXCEPT ![k] = "unaccepted"]
       /\ inbox' = [inbox EXCEPT ![k] = <<>>]
       /\ outbox' = [outbox EXCEPT ![k] = <<>>]
  /\ UNCHANGED <<pc, calls, attempt, outcome, current, answer, serverVars>>

(* No listener: the OSError uses up the attempt. *)
ConnectRefused(c) ==
  /\ pc[c] = "try"
  /\ link[c] = None
  /\ attempt[c] < Attempts(Call(c))
  /\ manager # "up"
  /\ attempt' = [attempt EXCEPT ![c] = @ + 1]
  /\ UNCHANGED <<pc, link, calls, outcome, connVars, serverVars>>

(* The request fits the socket's buffer: writing a larger one waits, without a
   timeout, for a thread that reads it. *)
Send(c) ==
  /\ pc[c] = "try"
  /\ link[c] # None
  /\ attempt[c] < Attempts(Call(c))
  /\ thread[link[c]] # "dead"
  /\ inbox' = [inbox EXCEPT ![link[c]] = Append(@, Call(c))]
  /\ pc' = [pc EXCEPT ![c] = "waiting"]
  /\ UNCHANGED <<link, calls, attempt, outcome, open, thread, outbox, current, answer, serverVars>>

(* What the server leaves of a connection: its end is closed, and an open client's
   end has yet to notice. *)
Ended(k) == IF open[k] THEN "dead" ELSE "free"

(* close(), then the next turn of the attempts loop. *)
CloseAndRetry(c) ==
  /\ open' = [open EXCEPT ![link[c]] = FALSE]
  /\ link' = [link EXCEPT ![c] = None]
  /\ attempt' = [attempt EXCEPT ![c] = @ + 1]
  /\ pc' = [pc EXCEPT ![c] = "try"]
  /\ thread' = [thread EXCEPT ![link[c]] = IF @ = "dead" THEN "free" ELSE @]
  /\ outbox' = [outbox EXCEPT ![link[c]] = <<>>]
  /\ UNCHANGED <<calls, outcome, inbox, current, answer, serverVars>>

(* The peer is gone: EPIPE on send, EOFError or ECONNRESET on receive. *)
PeerGone(c) ==
  /\ link[c] # None
  /\ thread[link[c]] = "dead"
  /\ \/ pc[c] = "try" /\ attempt[c] < Attempts(Call(c))
     \/ pc[c] = "waiting" /\ outbox[link[c]] = <<>>
  /\ CloseAndRetry(c)

(* Mutant: recv() without a poll. *)
TimeoutNever(c) == FALSE

(* Mutant: the connection is kept for the next attempt. *)
TimeoutKeepsLink(c) ==
  /\ pc[c] = "waiting"
  /\ outbox[link[c]] = <<>>
  /\ attempt' = [attempt EXCEPT ![c] = @ + 1]
  /\ pc' = [pc EXCEPT ![c] = "try"]
  /\ UNCHANGED <<link, calls, outcome, connVars, serverVars>>

(* poll(timeout) returned without data.  Nothing cancels the request. *)
Timeout(c) ==
  /\ pc[c] = "waiting"
  /\ outbox[link[c]] = <<>>
  /\ CloseAndRetry(c)

Return(c, result) ==
  /\ outcome' = [outcome EXCEPT ![Call(c)] = result]
  /\ pc' = [pc EXCEPT ![c] = "idle"]

(* A reply: its request_id decides between RpcCallError or a value and the
   RuntimeError of a mismatch.  The connection is kept in each case. *)
Receive(c) ==
  /\ pc[c] = "waiting"
  /\ outbox[link[c]] # <<>>
  /\ LET reply == Head(outbox[link[c]])
     IN Return(c, IF reply.id = Call(c) THEN reply.code ELSE "failed")
  /\ outbox' = [outbox EXCEPT ![link[c]] = Tail(@)]
  /\ UNCHANGED <<link, calls, attempt, open, thread, inbox, current, answer, serverVars>>

(* A reply above rpc_max_message_bytes: ValueError, the connection is kept. *)
ReceiveOversized(c) ==
  /\ pc[c] = "waiting"
  /\ outbox[link[c]] # <<>>
  /\ Return(c, "failed")
  /\ outbox' = [outbox EXCEPT ![link[c]] = Tail(@)]
  /\ UNCHANGED <<link, calls, attempt, open, thread, inbox, current, answer, serverVars>>

(* Mutant: the failure is swallowed. *)
GiveUpSilently(c) ==
  /\ pc[c] = "try"
  /\ attempt[c] >= Attempts(Call(c))
  /\ Return(c, "ok")
  /\ UNCHANGED <<link, calls, attempt, connVars, serverVars>>

(* The attempts loop ran out: RuntimeError("RPC request failed"). *)
GiveUp(c) ==
  /\ pc[c] = "try"
  /\ attempt[c] >= Attempts(Call(c))
  /\ Return(c, "failed")
  /\ UNCHANGED <<link, calls, attempt, connVars, serverVars>>

ClientStep(c) ==
  \/ Connect(c)
  \/ ConnectRefused(c)
  \/ Send(c)
  \/ PeerGone(c)
  \/ Timeout(c)
  \/ Receive(c)
  \/ ReceiveOversized(c)
  \/ GiveUp(c)

-----------------------------------------------------------------------------
(* Server threads: _serve, _handle_connection, _dispatch, _handle_operation *)

Accept(k) ==
  /\ manager = "up"
  /\ thread[k] = "unaccepted"
  /\ thread' = [thread EXCEPT ![k] = "recv"]
  /\ UNCHANGED <<open, inbox, outbox, current, answer, clientVars, serverVars>>

(* The head of the thread's loop, where it looks at the stop event. *)
LoopHead(k) == IF manager = "up" THEN "recv" ELSE Ended(k)

Admit(k) ==
  /\ thread[k] = "recv"
  /\ inbox[k] # <<>>
  /\ permits > 0
  /\ permits' = permits - 1
  /\ thread' = [thread EXCEPT ![k] = "admitted"]
  /\ current' = [current EXCEPT ![k] = Head(inbox[k])]
  /\ inbox' = [inbox EXCEPT ![k] = Tail(@)]
  /\ UNCHANGED <<open, outbox, answer, clientVars, manager, crashes, lock, db>>

PutReply(k, reply) ==
  outbox' = IF open[k] THEN [outbox EXCEPT ![k] = Append(@, reply)] ELSE outbox

(* Mutant: the permit that was not acquired is released. *)
TurnAwayReleases(k) ==
  /\ thread[k] = "recv"
  /\ inbox[k] # <<>>
  /\ permits = 0
  /\ permits' = permits + 1
  /\ PutReply(k, [to |-> Head(inbox[k]), id |-> None, code |-> "BUSY"])
  /\ inbox' = [inbox EXCEPT ![k] = Tail(@)]
  /\ thread' = [thread EXCEPT ![k] = IF open[k] THEN LoopHead(k) ELSE "free"]
  /\ UNCHANGED <<open, current, answer, clientVars, manager, crashes, lock, db>>

(* No permit: a BUSY reply whose request_id is a new uuid4. *)
TurnAway(k) ==
  /\ thread[k] = "recv"
  /\ inbox[k] # <<>>
  /\ permits = 0
  /\ PutReply(k, [to |-> Head(inbox[k]), id |-> None, code |-> "BUSY"])
  /\ inbox' = [inbox EXCEPT ![k] = Tail(@)]
  /\ thread' = [thread EXCEPT ![k] = IF open[k] THEN LoopHead(k) ELSE "free"]
  /\ UNCHANGED <<open, current, answer, clientVars, serverVars>>

(* An error without the lock.  Unknown operation, wrong schema version or invalid
   payload: with the request's id; a message above this manager's limit, or one that
   is no envelope: with the id that was made up before it was read. *)
Reject(k) ==
  /\ thread[k] = "admitted"
  /\ \E refusal \in {"error", "refused"} : answer' = [answer EXCEPT ![k] = refusal]
  /\ thread' = [thread EXCEPT ![k] = "done"]
  /\ UNCHANGED <<open, inbox, outbox, current, clientVars, serverVars>>

(* Mutant: a lock per connection. *)
TakeOwnLock(k) ==
  /\ thread[k] = "admitted"
  /\ lock' = k
  /\ thread' = [thread EXCEPT ![k] = "locked"]
  /\ UNCHANGED <<open, inbox, outbox, current, answer, clientVars, manager, crashes, permits, db>>

TakeLock(k) ==
  /\ thread[k] = "admitted"
  /\ lock = None
  /\ lock' = k
  /\ thread' = [thread EXCEPT ![k] = "locked"]
  /\ UNCHANGED <<open, inbox, outbox, current, answer, clientVars, manager, crashes, permits, db>>

Reads(r) == op[r].name \in RpcOperations.reads
Ingests(r) == op[r].name \in RpcOperations.ingests

Executed(k) == db' = IF Reads(current[k]) THEN db ELSE Append(db, current[k])

(* Mutant: the handler's exception is swallowed. *)
HandleSwallows(k) ==
  /\ thread[k] = "locked"
  /\ Executed(k) \/ UNCHANGED db
  /\ answer' = [answer EXCEPT ![k] = "ok"]
  /\ lock' = None
  /\ thread' = [thread EXCEPT ![k] = "done"]
  /\ UNCHANGED <<open, inbox, outbox, current, clientVars, manager, crashes, permits>>

(* The handler commits, or raises and rolls back: an ingest only its last
   transaction, so that a part of it may stay.  Either way the lock is freed. *)
Handle(k) ==
  /\ thread[k] = "locked"
  /\ \/ Executed(k) /\ answer' = [answer EXCEPT ![k] = "ok"]
     \/ UNCHANGED db /\ answer' = [answer EXCEPT ![k] = "error"]
     \/ Ingests(current[k]) /\ Executed(k) /\ answer' = [answer EXCEPT ![k] = "error"]
  /\ lock' = None
  /\ thread' = [thread EXCEPT ![k] = "done"]
  /\ UNCHANGED <<open, inbox, outbox, current, clientVars, manager, crashes, permits>>

ReplyOf(k) ==
  [to   |-> current[k],
   id   |-> IF answer[k] = "refused" THEN None ELSE current[k],
   code |-> IF answer[k] = "ok" THEN "ok" ELSE "error"]

(* inflight.release(), then the reply; a failed send is suppressed. *)
Finish(k) ==
  /\ thread[k] = "done"
  /\ permits' = permits + 1
  /\ PutReply(k, ReplyOf(k))
  /\ thread' = [thread EXCEPT ![k] = LoopHead(k)]
  /\ current' = [current EXCEPT ![k] = None]
  /\ answer' = [answer EXCEPT ![k] = None]
  /\ UNCHANGED <<open, inbox, clientVars, manager, crashes, lock, db>>

(* EOF: a client that closed; what it had sent before is read first. *)
Hangup(k) ==
  /\ thread[k] = "recv"
  /\ inbox[k] = <<>>
  /\ ~ open[k]
  /\ thread' = [thread EXCEPT ![k] = "free"]
  /\ UNCHANGED <<open, inbox, outbox, current, answer, clientVars, serverVars>>

ThreadStep(k) ==
  \/ Accept(k)
  \/ Admit(k)
  \/ TurnAway(k)
  \/ Reject(k)
  \/ TakeLock(k)
  \/ Handle(k)
  \/ Finish(k)
  \/ Hangup(k)

-----------------------------------------------------------------------------
(* The manager process *)

(* stop(): the listener closes, which resets the connections it had not accepted,
   and its socket is unlinked; running threads go on until they look at the stop
   event or the process exits. *)
Stop ==
  /\ manager = "up"
  /\ crashes < MaxCrashes
  /\ manager' = "stopping"
  /\ crashes' = crashes + 1
  /\ thread' = [k \in Conns |-> IF thread[k] = "unaccepted" THEN Ended(k) ELSE thread[k]]
  /\ inbox' = [k \in Conns |-> IF thread[k] = "unaccepted" THEN <<>> ELSE inbox[k]]
  /\ UNCHANGED <<permits, lock, db, clientVars, open, outbox, current, answer>>

(* The process is gone, daemon threads and all: at the end of a stop, or killed. *)
Exit ==
  /\ \/ manager = "stopping" /\ UNCHANGED crashes
     \/ manager = "up" /\ crashes < MaxCrashes /\ crashes' = crashes + 1
  /\ manager' = "down"
  /\ thread' = [k \in Conns |-> IF thread[k] = "free" THEN "free" ELSE Ended(k)]
  /\ inbox' = [k \in Conns |-> <<>>]
  /\ current' = [k \in Conns |-> None]
  /\ answer' = [k \in Conns |-> None]
  /\ permits' = MaxInflight
  /\ lock' = None
  /\ UNCHANGED <<open, outbox, db, clientVars>>

(* The supervisor starts a new process. *)
Restart ==
  /\ manager = "down"
  /\ manager' = "up"
  /\ UNCHANGED <<crashes, permits, lock, db, clientVars, connVars>>

Next ==
  /\ \/ \E c \in Clients : Begin(c) \/ ClientStep(c)
     \/ \E k \in Conns : ThreadStep(k)
     \/ Stop
     \/ Exit
     \/ Restart
  /\ UNCHANGED op

(* Only the client's own progress is assumed: its timeouts expire. *)
Fairness == \A c \in Clients : WF_vars(ClientStep(c) /\ UNCHANGED op)

Spec == Init /\ [][Next]_vars
FairSpec == Spec /\ Fairness

-----------------------------------------------------------------------------
(* Safety *)

(* One handler at a time touches the database, and no permit of the inflight
   semaphore is lost or forged, whichever way the requests end. *)
LockAndPermits ==
  /\ \A k \in Conns : thread[k] = "locked" <=> lock = k
  /\ permits + Cardinality({k \in Conns : thread[k] \in {"admitted", "locked", "done"}})
       = MaxInflight

(* A connection a client still holds carries nothing but the one request the
   client waits for: no answer to an earlier, timed-out call can be read as the
   answer to this one. *)
Carries(k) ==
  [i \in 1 .. Len(inbox[k]) |-> inbox[k][i]]
    \o (IF current[k] = None THEN <<>> ELSE <<current[k]>>)
    \o [i \in 1 .. Len(outbox[k]) |-> outbox[k][i].to]

InSync ==
  \A c \in Clients :
    link[c] # None =>
      LET carried == Carries(link[c])
      IN  /\ open[link[c]]
          /\ \A d \in Clients \ {c} : link[d] # link[c]
          /\ IF pc[c] = "waiting" THEN carried \in {<<>>, <<Call(c)>>} ELSE carried = <<>>

Applied(r) == {i \in 1 .. Len(db) : db[i] = r}

(* What a caller is told is true of the database: a value means that a write was
   applied, an error that it was not (by the only attempt), except that a part of
   an ingest may have been, and no write is applied more often than it was
   attempted, crashes and timeouts included. *)
ResultsAreTrue ==
  \A r \in DOMAIN op :
    /\ outcome[r] = "ok" /\ ~ Reads(r) => Applied(r) # {}
    /\ Attempts(r) = 1 /\ outcome[r] = "error" /\ ~ Ingests(r) => Applied(r) = {}
    /\ Cardinality(Applied(r)) <= Attempts(r)

(* Of one client's calls, only one that was reported as failed can be applied
   after a later one: a write that timed out may still land, and land late, but
   an acknowledged write is never overtaken. *)
AckedInOrder ==
  \A i, j \in 1 .. Len(db) :
    i < j /\ db[i][1] = db[j][1] /\ db[j][2] < db[i][2] /\ Attempts(db[j]) = 1
      => outcome[db[j]] = "failed"

-----------------------------------------------------------------------------
(* Liveness *)

(* Every call comes back to its caller, whatever the manager does or fails to do:
   no component hangs on a manager that is stuck, stopped or dead. *)
EveryCallReturns == \A c \in Clients : pc[c] # "idle" ~> pc[c] = "idle"
=============================================================================

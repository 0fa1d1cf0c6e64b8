----------------------------- MODULE Supervisor -----------------------------
(***************************************************************************)
(* The process manager: it starts the DB manager, waits for its socket,     *)
(* starts the others, replaces whatever dies, and stops everything when it  *)
(* is interrupted; the processes it watches, which die, obey or ignore it;  *)
(* and the DB manager's socket file and database, which outlive a manager   *)
(* that is killed.  The KeyboardInterrupt that ends the loop strikes between any    *)
(* two of its steps.                                                        *)
(***************************************************************************)
EXTENDS Schema, Integers

CONSTANTS
  Order,        \* the processes in the order of the dict: the DB manager, then the others
  MaxDeaths     \* bound: deaths nobody asked for

Names == {Order[i] : i \in DOMAIN Order}
Db == Order[1]

ASSUME SupervisorAssumption ==
  /\ Order \in Seq(Names) /\ Len(Order) > 0
  /\ \A i, j \in DOMAIN Order : Order[i] = Order[j] => i = j
  /\ MaxDeaths \in Nat

VARIABLES
  pc,           \* the supervisor's step
  at,           \* the index of the process it is at
  proc,         \* name: the Process object in the dict; "new" is not started
  told,         \* names whose stop event is set
  termed,       \* names that were sent SIGTERM
  socket,       \* the DB manager's socket: "none", "stale" or "bound"
  deaths

supervisorVars == <<pc, at, proc, told, termed, socket, deaths>>
vars == <<supervisorVars, schemaVars>>

Steps == {"boot", "wait", "launch", "monitor", "replace", "signal", "join", "rejoin",
          "done", "failed"}

TypeOK ==
  /\ pc \in Steps
  /\ at \in 1 .. Len(Order) + 1
  /\ proc \in [Names -> {"absent", "new", "up", "dead"}]
  /\ told \subseteq Names /\ termed \subseteq Names
  /\ socket \in {"none", "stale", "bound"}
  /\ deaths \in 0 .. MaxDeaths
  /\ SchemaTypeOK

(* A socket file and a database may be left from an earlier run. *)
Init ==
  /\ pc = "boot"
  /\ at = 1
  /\ proc = [n \in Names |-> "absent"]
  /\ told = {} /\ termed = {}
  /\ socket \in {"none", "stale"}
  /\ deaths = 0
  /\ SchemaInit

-----------------------------------------------------------------------------
(* The supervisor: start, run, _monitor *)

AtEnd == at > Len(Order)
Current == Order[at]
Goto(step, index) == pc' = step /\ at' = index

StartDb ==
  /\ pc = "boot"
  /\ proc' = [proc EXCEPT ![Db] = "up"]
  /\ Goto("wait", 2)
  /\ UNCHANGED <<told, termed, socket, deaths, schemaVars>>

(* _wait_for_db_socket returns: the path exists, the process died, or the deadline. *)
EndWait ==
  /\ pc = "wait"
  /\ Goto("launch", 2)
  /\ UNCHANGED <<proc, told, termed, socket, deaths, schemaVars>>

Launch ==
  /\ pc = "launch"
  /\ IF AtEnd
     THEN Goto("monitor", 1) /\ UNCHANGED proc
     ELSE Goto("launch", at + 1) /\ proc' = [proc EXCEPT ![Current] = "up"]
  /\ UNCHANGED <<told, termed, socket, deaths, schemaVars>>

(* _monitor looks at one process; a dead one is replaced in the dict ... *)
Monitor ==
  /\ pc = "monitor"
  /\ \/ AtEnd /\ Goto("monitor", 1) /\ UNCHANGED proc
     \/ ~ AtEnd /\ proc[Current] # "dead" /\ Goto("monitor", at + 1) /\ UNCHANGED proc
     \/ /\ ~ AtEnd /\ proc[Current] = "dead"
        /\ Goto("replace", at)
        /\ proc' = [proc EXCEPT ![Current] = "new"]
  /\ UNCHANGED <<told, termed, socket, deaths, schemaVars>>

(* ... and then started. *)
StartReplacement ==
  /\ pc = "replace"
  /\ proc' = [proc EXCEPT ![Current] = "up"]
  /\ Goto("monitor", at + 1)
  /\ UNCHANGED <<told, termed, socket, deaths, schemaVars>>

(* KeyboardInterrupt: inside run()'s try it leads to stop(), before it to the end. *)
Interrupt ==
  /\ \/ pc \in {"monitor", "replace"} /\ Goto("signal", 1)
     \/ pc \in {"boot", "wait", "launch"} /\ Goto("failed", at)
  /\ UNCHANGED <<proc, told, termed, socket, deaths, schemaVars>>

-----------------------------------------------------------------------------
(* stop() *)

(* process.stop() of each.  That of the DB manager also connects to its socket, to
   wake it up; the connection is taken to be quick, whoever listens. *)
Signal ==
  /\ pc = "signal"
  /\ IF AtEnd
     THEN Goto("join", 1) /\ UNCHANGED told
     ELSE Goto("signal", at + 1) /\ told' = told \cup {Current}
  /\ UNCHANGED <<proc, termed, socket, deaths, schemaVars>>

(* Mutant: no terminate() after the first join. *)
JoinOnly ==
  /\ pc = "join"
  /\ \/ AtEnd /\ Goto("done", at)
     \/ ~ AtEnd /\ proc[Current] \in {"up", "dead"} /\ Goto("join", at + 1)
     \/ ~ AtEnd /\ proc[Current] = "new" /\ Goto("failed", at)
  /\ UNCHANGED <<proc, told, termed, socket, deaths, schemaVars>>

(* join(5), and terminate() when it timed out.  To join a process that was never
   started is an AssertionError. *)
Join ==
  /\ pc = "join"
  /\ \/ AtEnd /\ Goto("done", at) /\ UNCHANGED termed
     \/ ~ AtEnd /\ proc[Current] = "dead" /\ Goto("join", at + 1) /\ UNCHANGED termed
     \/ ~ AtEnd /\ proc[Current] = "new" /\ Goto("failed", at) /\ UNCHANGED termed
     \/ /\ ~ AtEnd /\ proc[Current] = "up"
        /\ Goto("rejoin", at)
        /\ termed' = termed \cup {Current}
  /\ UNCHANGED <<proc, told, socket, deaths, schemaVars>>

(* The second join(5): the process is gone, or is reported as still running. *)
Rejoin ==
  /\ pc = "rejoin"
  /\ Goto("join", at + 1)
  /\ UNCHANGED <<proc, told, termed, socket, deaths, schemaVars>>

-----------------------------------------------------------------------------
(* The processes *)

Gone(n, left) ==
  /\ proc[n] = "up"
  /\ proc' = [proc EXCEPT ![n] = "dead"]
  /\ socket' = IF n = Db /\ socket = "bound" THEN left ELSE socket
  /\ startup' = IF n = Db THEN "create" ELSE startup
  /\ migration' = IF n = Db THEN 1 ELSE migration
  /\ UNCHANGED <<pc, at, told, termed, tables, added, version>>

(* A crash or a kill leaves the socket file behind. *)
Die(n) ==
  /\ deaths < MaxDeaths
  /\ deaths' = deaths + 1
  /\ Gone(n, "stale")

(* The stop event is seen: the DB manager unlinks its socket. *)
Leave(n) ==
  /\ n \in told
  /\ Gone(n, "none")
  /\ UNCHANGED deaths

(* SIGTERM takes effect. *)
Terminated(n) ==
  /\ n \in termed
  /\ Gone(n, "stale")
  /\ UNCHANGED deaths

(* The DB manager prepares the database ... *)
PrepareSchema ==
  /\ proc[Db] = "up"
  /\ StartupStep
  /\ UNCHANGED supervisorVars

(* ... or dies of a migration that fails ... *)
MigrationFails ==
  /\ Duplicate
  /\ Gone(Db, "none")
  /\ UNCHANGED deaths

(* Mutant: a socket path that exists is taken as in use. *)
BindIfFree ==
  /\ proc[Db] = "up" /\ startup = "listen"
  /\ socket = "none"
  /\ socket' = "bound"
  /\ UNCHANGED <<pc, at, proc, told, termed, deaths, schemaVars>>

(* ... and then listens: _prepare_socket unlinks a path nobody listens on. *)
Bind ==
  /\ proc[Db] = "up" /\ startup = "listen"
  /\ socket # "bound"
  /\ socket' = "bound"
  /\ UNCHANGED <<pc, at, proc, told, termed, deaths, schemaVars>>

DbStep == PrepareSchema \/ MigrationFails \/ Bind

Supervise == StartDb \/ EndWait \/ Launch \/ Monitor \/ StartReplacement \/ Signal \/ Join \/ Rejoin

Next ==
  \/ Supervise
  \/ Interrupt
  \/ DbStep
  \/ \E n \in Names : Die(n) \/ Leave(n) \/ Terminated(n)

(* The supervisor's own steps never block (every wait has a timeout), and a DB
   manager that lives goes on with its start. *)
Fairness == WF_vars(Supervise) /\ WF_vars(DbStep)

Spec == Init /\ [][Next]_vars
FairSpec == Spec /\ Fairness

-----------------------------------------------------------------------------
(* Properties *)

(* When stop() is through, every process is gone, or has had a stop event, a
   SIGTERM and ten seconds. *)
NobodyForgotten ==
  pc = "done" => \A n \in Names : n \in told /\ (proc[n] = "dead" \/ n \in termed)

Watching == pc \in {"monitor", "replace"}

(* Requests are served from the schema the code expects only: whatever version the
   file had, and however often the manager died while it created or migrated it. *)
ServedSchemaMatches == proc[Db] = "up" /\ socket = "bound" => UpToDate

(* Once deaths stop, and unless the supervisor is interrupted, all processes run
   for good and the DB manager listens, whatever socket file a dead one left,
   unless one died while it migrated an old file. *)
Back == socket = "bound" /\ \A n \in Names : proc[n] = "up"
AllComeBack == <>[](~ Watching) \/ <>[]HalfMigrated \/ <>[]Back

(* ensure_schema: "Ensure the stored schema is up to date."  Whenever the manager
   dies, a later start of it finishes what it began. *)
MigrationIsFinished == <>[](~ Watching) \/ <>UpToDate
=============================================================================

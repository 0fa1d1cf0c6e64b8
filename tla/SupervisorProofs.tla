--------------------------- MODULE SupervisorProofs ---------------------------
(***************************************************************************)
(* Proofs about Supervisor, for any processes in any order and any number of *)
(* deaths: a stop that ends forgets nobody, and no request is served from a  *)
(* schema the code does not expect.                                         *)
(***************************************************************************)
EXTENDS Supervisor, TLAPS

-----------------------------------------------------------------------------
(* The migration steps, entry by entry. *)
Column(i) == <<MigrationSteps[i].table, MigrationSteps[i].column>>
Alters(i) == MigrationSteps[i].column # ""

(* Each step belongs to a table of the schema and to a version after the first. *)
LEMMA StepsKnown ==
  /\ Len(MigrationSteps) = 6 /\ DOMAIN MigrationSteps = 1 .. 6
  /\ \A i \in 1 .. 6 : /\ MigrationSteps[i].since \in 2 .. SchemaVersion
                       /\ MigrationSteps[i].table \in Tables
<1>1. Len(MigrationSteps) = 6 /\ DOMAIN MigrationSteps = 1 .. 6
  BY DEF MigrationSteps
<1>2. /\ TableOrder[1] = "broker_queue_events" /\ TableOrder[2] = "schedules"
      /\ TableOrder[4] = "task_events" /\ TableOrder[6] = "tasks"
      /\ TableOrder[7] = "worker_events" /\ TableOrder[8] = "workers"
      /\ DOMAIN TableOrder = 1 .. 8
  BY DEF TableOrder
<1>3. {"broker_queue_events", "schedules", "task_events", "tasks", "worker_events", "workers"}
        \subseteq Tables
  BY <1>2 DEF Tables, Range
<1>4. /\ MigrationSteps[1].since = 2 /\ MigrationSteps[1].table = "schedules"
      /\ MigrationSteps[2].since = 3 /\ MigrationSteps[2].table = "worker_events"
      /\ MigrationSteps[3].since = 3 /\ MigrationSteps[3].table = "workers"
      /\ MigrationSteps[4].since = 4 /\ MigrationSteps[4].table = "tasks"
      /\ MigrationSteps[5].since = 4 /\ MigrationSteps[5].table = "task_events"
      /\ MigrationSteps[6].since = 5 /\ MigrationSteps[6].table = "broker_queue_events"
  BY DEF MigrationSteps, Adds
<1>5. ASSUME NEW i \in 1 .. 6
      PROVE  MigrationSteps[i].since \in 2 .. 5 /\ MigrationSteps[i].table \in Tables
  <2>1. i = 1 \/ i = 2 \/ i = 3 \/ i = 4 \/ i = 5 \/ i = 6
    OBVIOUS
  <2> QED BY <1>3, <1>4, <2>1
<1> QED BY <1>1, <1>5 DEF SchemaVersion

LEMMA AddedByStep ==
  AllAdded = {Column(i) : i \in {j \in 1 .. 6 : Alters(j)}}
  BY StepsKnown DEF AllAdded, Column, Alters, Range

(* What a manager's start relies on at each of its steps, whatever an earlier one
   left when it died. *)
SchemaSound ==
  /\ startup # "create" => tables = Tables
  /\ startup \in {"check", "migrate", "listen"} => version # 0
  /\ version = 0 => added = {c \in AllAdded : c[1] \in tables}
  /\ version # 0 =>
       \A i \in 1 .. 6 : Alters(i) /\ MigrationSteps[i].since <= version => Column(i) \in added
  /\ startup = "migrate" =>
       \A i \in 1 .. 6 : Alters(i) /\ i < migration => Column(i) \in added
  /\ startup = "listen" => version = SchemaVersion

SocketSound == socket = "bound" => startup = "listen"

(* How far a stop has come. *)
StopSound ==
  /\ pc = "signal" => \A i \in 1 .. at - 1 : Order[i] \in told
  /\ pc \in {"join", "rejoin", "done"} => Names \subseteq told
  /\ pc \in {"join", "rejoin"} =>
       \A i \in 1 .. at - 1 : proc[Order[i]] = "dead" \/ Order[i] \in termed
  /\ pc = "rejoin" => Order[at] \in termed
  /\ pc \in {"replace", "rejoin"} => at <= Len(Order)

Inv == TypeOK /\ StopSound /\ SchemaSound /\ SocketSound /\ NobodyForgotten

-----------------------------------------------------------------------------
LEMMA OrderKnown ==
  /\ Len(Order) \in Nat \ {0} /\ DOMAIN Order = 1 .. Len(Order)
  /\ Db \in Names /\ \A i \in 1 .. Len(Order) : Order[i] \in Names
  /\ \A n \in Names : \E i \in 1 .. Len(Order) : n = Order[i]
  BY SupervisorAssumption DEF Names, Db

LEMMA InitInv == Init => Inv
<1> SUFFICES ASSUME Init PROVE Inv
  OBVIOUS
<1> USE DEF Init, SchemaInit
<1>1. PICK v \in 0 .. SchemaVersion : Left(v)
  OBVIOUS
<1>2. version = v /\ tables \subseteq Tables /\ (v = 0 => tables = {})
  BY <1>1 DEF Left
<1>3. added = {Column(i) : i \in {j \in 1 .. 6 : Alters(j) /\ MigrationSteps[j].since <= v}}
  <2>1. \A m : m \in Range(MigrationSteps) <=> \E i \in 1 .. 6 : m = MigrationSteps[i]
    BY StepsKnown DEF Range
  <2>2. added = {<<m.table, m.column>> :
                  m \in {s \in Range(MigrationSteps) : s.column # "" /\ s.since <= v}}
    BY <1>1 DEF Left
  <2>3. ASSUME NEW c \in added
        PROVE  \E i \in 1 .. 6 : Alters(i) /\ MigrationSteps[i].since <= v /\ c = Column(i)
    BY <2>1, <2>2 DEF Alters, Column
  <2>4. ASSUME NEW i \in 1 .. 6, Alters(i), MigrationSteps[i].since <= v
        PROVE  Column(i) \in added
    <3>1. MigrationSteps[i] \in {s \in Range(MigrationSteps) : s.column # "" /\ s.since <= v}
      BY <2>1, <2>4 DEF Alters
    <3> QED BY <2>2, <3>1 DEF Column
  <2> QED BY <2>3, <2>4
<1>4. added \subseteq AllAdded
  BY <1>3, AddedByStep
<1>5. v = 0 => added = {}
  BY <1>3, StepsKnown DEF SchemaVersion
<1>6. SchemaTypeOK
  <2>1. migration \in 1 .. Len(MigrationSteps) + 1
    BY StepsKnown
  <2> QED BY <1>2, <1>4, <2>1 DEF SchemaTypeOK
<1>9. TypeOK
  <2>1. at \in 1 .. Len(Order) + 1
    BY OrderKnown
  <2>2. deaths \in 0 .. MaxDeaths
    BY SupervisorAssumption
  <2> QED BY <1>6, <2>1, <2>2 DEF TypeOK, Steps
<1>7. SchemaSound
  BY <1>2, <1>3, <1>5 DEF SchemaSound
<1>8. StopSound /\ SocketSound /\ NobodyForgotten
  BY DEF StopSound, SocketSound, NobodyForgotten
<1> QED BY <1>7, <1>8, <1>9 DEF Inv

(* A start of the DB manager keeps the schema well formed and sound. *)
LEMMA StartupSound ==
  ASSUME SchemaTypeOK, SchemaSound, StartupStep
  PROVE  SchemaTypeOK' /\ SchemaSound' /\ startup # "listen"
<1> USE DEF SchemaTypeOK, SchemaVersion
<1>1. CASE CreateTable
  <2>1. PICK i \in Missing :
          /\ tables' = tables \cup {TableOrder[i]}
          /\ added' = added \cup {c \in AllAdded : c[1] = TableOrder[i]}
    BY <1>1 DEF CreateTable
  <2>2. TableOrder[i] \in Tables
    BY DEF Missing, Tables, Range
  <2> QED BY <1>1, <2>1, <2>2 DEF CreateTable, SchemaSound
<1>2. CASE AllCreated
  <2>1. tables = Tables
    BY <1>2 DEF AllCreated, Missing, Tables, Range
  <2> QED BY <1>2, <2>1 DEF AllCreated, SchemaSound
<1>3. CASE Stamp
  <2>1. version = 0 => added = AllAdded
    <3>1. \A i \in 1 .. 6 : Column(i)[1] \in Tables
      BY StepsKnown DEF Column
    <3>2. \A c \in AllAdded : c[1] \in Tables
      BY <3>1, AddedByStep
    <3> QED BY <1>3, <3>2 DEF Stamp, SchemaSound
  <2>2. \A i \in 1 .. 6 : Alters(i) => Column(i) \in AllAdded
    BY AddedByStep
  <2> QED BY <1>3, <2>1, <2>2 DEF Stamp, SchemaSound
<1>4. CASE EnsureSchema
  BY <1>4, StepsKnown DEF EnsureSchema, SchemaSound
<1>5. CASE Migrate
  <2> DEFINE new == version < Step.since /\ Step.column # ""
  <2>1. migration \in 1 .. 6 /\ migration' = migration + 1
    <3>1. Migrating /\ migration' = migration + 1
      BY <1>5 DEF Migrate
    <3>2. migration \in 1 .. 7
      BY StepsKnown
    <3>3. migration <= 6
      BY <3>1, StepsKnown DEF Migrating
    <3> QED BY <3>1, <3>2, <3>3
  <2>2. migration \in 1 .. 6 /\ Step.since \in 2 .. 5 /\ Step.table \in Tables
    BY <2>1, StepsKnown DEF Step
  <2>3. Step.column # "" => Column(migration) \in AllAdded
    BY <2>2, AddedByStep DEF Step, Alters
  <2>4. added' = IF new THEN added \cup {Column(migration)} ELSE added
    BY <1>5 DEF Migrate, Column, Step
  <2> HIDE DEF new
  <2>5. added \subseteq added' /\ added' \subseteq AllAdded
    BY <2>3, <2>4 DEF new
  <2>6. tables = Tables /\ version # 0
    BY <1>5 DEF Migrate, Migrating, SchemaSound
  <2>7. tables' = Tables /\ version' = version /\ startup' = "migrate"
    BY <1>5, <2>2, <2>6 DEF Migrate, Migrating
  <2>8. migration' = migration + 1 /\ migration' \in 1 .. 7
    BY <2>1
  <2>9. Alters(migration) => Column(migration) \in added'
    <3>1. Alters(migration) /\ ~ new => MigrationSteps[migration].since <= version
      <4>1. version \in Int /\ MigrationSteps[migration].since \in Int
        BY <2>2 DEF Step
      <4>2. Alters(migration) /\ ~ new => ~ (version < MigrationSteps[migration].since)
        BY DEF Step, Alters, new
      <4> QED BY <4>1, <4>2
    <3>2. Alters(migration) /\ MigrationSteps[migration].since <= version => Column(migration) \in added
      BY <2>2, <2>6 DEF SchemaSound
    <3> QED BY <2>4, <3>1, <3>2
  <2>10. \A i \in 1 .. 6 : Alters(i) /\ i < migration => Column(i) \in added
    BY <1>5 DEF Migrate, Migrating, SchemaSound
  <2>11. \A i \in 1 .. 6 : Alters(i) /\ i < migration' => Column(i) \in added'
    BY <2>2, <2>5, <2>8, <2>9, <2>10
  <2>12. SchemaTypeOK'
    BY <2>5, <2>7, <2>8, StepsKnown
  <2>13. \A i \in 1 .. 6 : Alters(i) /\ MigrationSteps[i].since <= version => Column(i) \in added'
    BY <2>5, <2>6 DEF SchemaSound
  <2> QED BY <1>5, <2>7, <2>6, <2>11, <2>12, <2>13 DEF SchemaSound, Migrate, Migrating
<1>6. CASE Migrated
  <2>1. startup = "migrate" /\ migration = 7
    BY <1>6, StepsKnown DEF Migrated, Migrating
  <2>2. \A i \in 1 .. 6 : Alters(i) => Column(i) \in added
    BY <2>1 DEF SchemaSound
  <2> QED BY <1>6, <2>1, <2>2 DEF Migrated, SchemaSound
<1> QED BY <1>1, <1>2, <1>3, <1>4, <1>5, <1>6 DEF StartupStep

LEMMA TypeStep ==
  ASSUME Inv, [Next]_vars
  PROVE  TypeOK'
<1>0. /\ Len(Order) \in Nat /\ 1 \in 1 .. Len(Order) + 1 /\ 2 \in 1 .. Len(Order) + 1
      /\ Db \in Names
  BY OrderKnown
<1> USE <1>0 DEF TypeOK, Steps, Goto
<1>1. TypeOK /\ (at \in 1 .. Len(Order) => Current \in Names)
  BY OrderKnown DEF Inv, Current
<1>2. UNCHANGED schemaVars => SchemaTypeOK'
  BY <1>1 DEF schemaVars, SchemaTypeOK
<1>3. CASE StartDb \/ EndWait
  <2>1. proc' \in [Names -> {"absent", "new", "up", "dead"}]
    BY <1>1, <1>3 DEF StartDb, EndWait
  <2> QED BY <1>1, <1>3, <1>2, <2>1 DEF StartDb, EndWait
<1>4. CASE Launch
  <2>1. at' \in 1 .. Len(Order) + 1
    BY <1>1, <1>4 DEF Launch, AtEnd
  <2>2. proc' \in [Names -> {"absent", "new", "up", "dead"}]
    BY <1>1, <1>4 DEF Launch, AtEnd
  <2> QED BY <1>1, <1>4, <1>2, <2>1, <2>2 DEF Launch
<1>5. CASE Monitor
  BY <1>1, <1>5, <1>2 DEF Monitor, AtEnd
<1>6. CASE StartReplacement
  BY <1>1, <1>6, <1>2 DEF StartReplacement, Inv, StopSound
<1>7. CASE Interrupt
  BY <1>1, <1>7, <1>2 DEF Interrupt
<1>8. CASE Signal
  BY <1>1, <1>8, <1>2 DEF Signal, AtEnd
<1>9. CASE Join
  BY <1>1, <1>9, <1>2 DEF Join, AtEnd
<1>10. CASE Rejoin
  BY <1>1, <1>10, <1>2 DEF Rejoin, Inv, StopSound
<1>11. ASSUME NEW n \in Names, NEW left \in {"stale", "none"}, Gone(n, left), deaths' \in 0 .. MaxDeaths
      PROVE  TypeOK'
  <2>0. migration' \in 1 .. Len(MigrationSteps) + 1
    BY <1>1, <1>11, StepsKnown DEF Gone, SchemaTypeOK
  <2>1. SchemaTypeOK'
    BY <1>1, <1>11, <2>0 DEF Gone, SchemaTypeOK
  <2>2. proc' \in [Names -> {"absent", "new", "up", "dead"}] /\ socket' \in {"none", "stale", "bound"}
    BY <1>1, <1>11 DEF Gone
  <2> QED BY <1>1, <1>11, <2>1, <2>2 DEF Gone
<1>12. ASSUME NEW n \in Names, Die(n) \/ Leave(n) \/ Terminated(n) PROVE TypeOK'
  <2>1. deaths' \in 0 .. MaxDeaths
    BY <1>1, <1>12, SupervisorAssumption DEF Die, Leave, Terminated
  <2>2. \E left \in {"stale", "none"} : Gone(n, left)
    BY <1>12 DEF Die, Leave, Terminated
  <2> QED BY <1>11, <2>1, <2>2
<1>13. CASE MigrationFails
  BY <1>1, <1>11, <1>13 DEF MigrationFails
<1>14. CASE PrepareSchema
  BY <1>1, <1>14, StartupSound DEF PrepareSchema, supervisorVars, Inv
<1>15. CASE Bind
  BY <1>1, <1>15, <1>2 DEF Bind
<1>16. CASE UNCHANGED vars
  BY <1>1, <1>16, <1>2 DEF vars, supervisorVars
<1> QED
  BY <1>3, <1>4, <1>5, <1>6, <1>7, <1>8, <1>9, <1>10, <1>12, <1>13, <1>14, <1>15, <1>16
  DEF Next, Supervise, DbStep, Inv

(* Only a start of the DB manager changes the tables, and only its end the step it
   is at; the socket is bound after the last step. *)
LEMMA SchemaStep ==
  ASSUME Inv, [Next]_vars
  PROVE  SchemaSound' /\ SocketSound'
<1> USE DEF Inv
<1>1. CASE PrepareSchema
  BY <1>1, StartupSound DEF PrepareSchema, supervisorVars, TypeOK, SocketSound
<1>2. ASSUME NEW n, NEW left \in {"stale", "none"}, Gone(n, left)
      PROVE  SchemaSound' /\ SocketSound'
  <2>1. UNCHANGED <<tables, added, version>>
    BY <1>2 DEF Gone
  <2>2. CASE n = Db
    <3>1. startup' = "create" /\ socket' # "bound"
      BY <1>2, <2>2 DEF Gone
    <3> QED BY <2>1, <3>1 DEF SchemaSound, SocketSound
  <2>3. CASE n # Db
    <3>1. UNCHANGED <<startup, migration, socket>>
      BY <1>2, <2>3 DEF Gone
    <3> QED BY <2>1, <3>1 DEF SchemaSound, SocketSound
  <2> QED BY <2>2, <2>3
<1>3. CASE Bind
  BY <1>3 DEF Bind, schemaVars, SchemaSound, SocketSound
<1>4. CASE UNCHANGED <<schemaVars, socket>>
  BY <1>4 DEF schemaVars, SchemaSound, SocketSound
<1>5. Supervise \/ Interrupt \/ UNCHANGED vars => UNCHANGED <<schemaVars, socket>>
  BY DEF Supervise, StartDb, EndWait, Launch, Monitor, StartReplacement, Signal, Join, Rejoin,
         Interrupt, vars, supervisorVars
<1> QED BY <1>1, <1>2, <1>3, <1>4, <1>5 DEF Next, DbStep, MigrationFails, Die, Leave, Terminated

LEMMA StopStep ==
  ASSUME Inv, TypeOK', [Next]_vars
  PROVE  StopSound' /\ NobodyForgotten'
<1> USE OrderKnown DEF Inv, TypeOK, Goto
<1>0. at \in Nat
  OBVIOUS
<1>1. CASE StartDb \/ EndWait \/ Launch \/ Monitor \/ StartReplacement \/ Interrupt
  <2>1. pc' \notin {"join", "rejoin", "done"} /\ (pc' = "signal" => at' = 1)
    BY <1>1 DEF StartDb, EndWait, Launch, Monitor, StartReplacement, Interrupt
  <2>2. pc' = "replace" => at' <= Len(Order)
    BY <1>0, <1>1 DEF StartDb, EndWait, Launch, Monitor, StartReplacement, Interrupt, AtEnd
  <2>3. pc' = "signal" => \A i \in 1 .. at' - 1 : Order[i] \in told'
    BY <2>1
  <2> QED BY <2>1, <2>2, <2>3 DEF StopSound, NobodyForgotten
<1>2. CASE Signal
  <2>1. CASE AtEnd
    <3>1. pc' = "join" /\ at' = 1 /\ told' = told
      BY <1>2, <2>1 DEF Signal
    <3>2. Names \subseteq told
      BY <1>0, <1>2, <2>1 DEF Signal, AtEnd, StopSound
    <3> QED BY <3>1, <3>2 DEF StopSound, NobodyForgotten
  <2>2. CASE ~ AtEnd
    <3>1. pc = "signal" /\ pc' = "signal" /\ at' = at + 1 /\ told' = told \cup {Order[at]}
      BY <1>2, <2>2 DEF Signal, Current
    <3>2. \A i \in 1 .. at' - 1 : Order[i] \in told'
      BY <1>0, <3>1 DEF StopSound
    <3> QED BY <3>1, <3>2 DEF StopSound, NobodyForgotten
  <2> QED BY <2>1, <2>2
<1>3. CASE Join
  <2>1. pc = "join" /\ UNCHANGED <<proc, told>> /\ Names \subseteq told
        /\ (\A i \in 1 .. at - 1 : proc[Order[i]] = "dead" \/ Order[i] \in termed)
    BY <1>3 DEF Join, StopSound
  <2>2. CASE AtEnd
    <3>1. pc' = "done" /\ UNCHANGED termed
      BY <1>0, <1>3, <2>2 DEF Join, AtEnd
    <3>2. \A n \in Names : proc[n] = "dead" \/ n \in termed
      BY <1>0, <2>1, <2>2 DEF AtEnd
    <3> QED BY <2>1, <3>1, <3>2 DEF StopSound, NobodyForgotten
  <2>3. CASE ~ AtEnd /\ proc[Current] = "dead"
    <3>1. pc' = "join" /\ at' = at + 1 /\ UNCHANGED termed
      BY <1>3, <2>3 DEF Join
    <3>2. \A i \in 1 .. at' - 1 : proc[Order[i]] = "dead" \/ Order[i] \in termed
      BY <1>0, <2>1, <2>3, <3>1 DEF Current
    <3> QED BY <2>1, <3>1, <3>2 DEF StopSound, NobodyForgotten
  <2>4. CASE ~ AtEnd /\ proc[Current] = "up"
    <3>1. pc' = "rejoin" /\ at' = at /\ termed' = termed \cup {Order[at]} /\ at <= Len(Order)
      BY <1>0, <1>3, <2>4 DEF Join, AtEnd, Current
    <3> QED BY <2>1, <3>1 DEF StopSound, NobodyForgotten
  <2>5. CASE ~ AtEnd /\ proc[Current] \notin {"dead", "up"}
    <3>1. pc' = "failed"
      BY <1>3, <2>5 DEF Join
    <3> QED BY <3>1 DEF StopSound, NobodyForgotten
  <2> QED BY <2>2, <2>3, <2>4, <2>5
<1>4. CASE Rejoin
  <2>1. pc = "rejoin" /\ pc' = "join" /\ at' = at + 1 /\ UNCHANGED <<proc, told, termed>>
    BY <1>4 DEF Rejoin
  <2>2. \A i \in 1 .. at' - 1 : proc'[Order[i]] = "dead" \/ Order[i] \in termed'
    BY <1>0, <2>1 DEF StopSound
  <2> QED BY <2>1, <2>2 DEF StopSound, NobodyForgotten
<1>5. CASE DbStep \/ (\E n \in Names : Die(n) \/ Leave(n) \/ Terminated(n)) \/ UNCHANGED vars
  <2>1. UNCHANGED <<pc, at, told, termed>>
    BY <1>5 DEF DbStep, PrepareSchema, MigrationFails, Bind, Die, Leave, Terminated, Gone,
                supervisorVars, vars
  <2>2. \A n \in Names : proc[n] = "dead" => proc'[n] = "dead"
    BY <1>5 DEF DbStep, PrepareSchema, MigrationFails, Bind, Die, Leave, Terminated, Gone,
                supervisorVars, vars
  <2>3. \A i \in 1 .. at - 1 : Order[i] \in Names
    BY <1>0
  <2> QED BY <2>1, <2>2, <2>3 DEF StopSound, NobodyForgotten
<1> QED BY <1>1, <1>2, <1>3, <1>4, <1>5 DEF Next, Supervise

-----------------------------------------------------------------------------
LEMMA InvAlways == Spec => []Inv
<1>1. Inv /\ [Next]_vars => Inv'
  BY TypeStep, SchemaStep, StopStep DEF Inv
<1> QED BY InitInv, <1>1, PTL DEF Spec

(* Type correctness: the process manager and the schema never leave the states of
   TypeOK, so an index into the dict of processes or the migrations never runs over. *)
THEOREM TypeCorrect == Spec => []TypeOK
<1>1. Inv => TypeOK
  BY DEF Inv
<1> QED BY InvAlways, <1>1, PTL

(* stop() (process_manager.py): when it is through, every process is gone or had a
   stop event, a SIGTERM and both joins, whatever died or was replaced meanwhile. *)
THEOREM NobodyEverForgotten == Spec => []NobodyForgotten
<1>1. Inv => NobodyForgotten
  BY DEF Inv
<1> QED BY InvAlways, <1>1, PTL

(* ensure_schema before listen: while the DB manager serves, the file has the tables,
   the columns and the version the code expects, whatever an earlier manager left. *)
THEOREM ServedSchemaAlwaysMatches == Spec => []ServedSchemaMatches
<1>1. Inv => ServedSchemaMatches
  <2> SUFFICES ASSUME Inv, socket = "bound" PROVE UpToDate
    BY DEF ServedSchemaMatches
  <2>1. version = SchemaVersion /\ tables = Tables
    BY DEF Inv, SchemaSound, SocketSound
  <2>2. \A i \in 1 .. 6 : Alters(i) => Column(i) \in added
    BY <2>1, StepsKnown DEF Inv, SchemaSound, SchemaVersion
  <2>3. added = AllAdded
    BY <2>2, AddedByStep DEF Inv, TypeOK, SchemaTypeOK
  <2> QED BY <2>1, <2>3 DEF UpToDate
<1> QED BY InvAlways, <1>1, PTL
=============================================================================

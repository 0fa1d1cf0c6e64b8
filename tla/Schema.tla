-------------------------------- MODULE Schema --------------------------------
(***************************************************************************)
(* The schema of the SQLite file and what a DB manager does to it before it  *)
(* listens: create_all, the version row, the migrations.  SQLite's driver    *)
(* begins a transaction at the first INSERT, UPDATE or DELETE only, so that  *)
(* each CREATE TABLE and ALTER TABLE stays, whatever comes after it.         *)
(***************************************************************************)
EXTENDS Naturals, Sequences, SequencesExt

(* The tables in the order of creation, and the columns they were given later. *)
TableOrder == <<"broker_queue_events", "schedules", "schema_version", "task_events",
                "task_relations", "tasks", "worker_events", "workers">>
Tables == Range(TableOrder)

SchemaVersion == 5

Adds(since, table, column) == [since |-> since, table |-> table, column |-> column]

(* The steps of migrate; a step without a column creates its table if there is none. *)
MigrationSteps ==
  <<Adds(2, "schedules", "app"), Adds(3, "worker_events", "broker_url"),
    Adds(3, "workers", "broker_url"), Adds(4, "tasks", "stamps"),
    Adds(4, "task_events", "stamps"), Adds(5, "broker_queue_events", "")>>

AllAdded == {<<m.table, m.column>> : m \in {s \in Range(MigrationSteps) : s.column # ""}}

VARIABLES
  tables,       \* the tables there are
  added,        \* the later columns there are, as <<table, column>>
  version,      \* the row of schema_version; 0 when there is none
  startup,      \* the DB manager: "create", "stamp", "check", "migrate" or "listen"
  migration     \* the next of MigrationSteps

schemaVars == <<tables, added, version, startup, migration>>

SchemaTypeOK ==
  /\ tables \subseteq Tables /\ added \subseteq AllAdded
  /\ version \in 0 .. SchemaVersion
  /\ startup \in {"create", "stamp", "check", "migrate", "listen"}
  /\ migration \in 1 .. Len(MigrationSteps) + 1

(* The file a release with schema version v left; there is none for 0. *)
Left(v) ==
  /\ version = v
  /\ tables = IF v = 0 THEN {} ELSE IF v < 5 THEN Tables \ {"broker_queue_events"} ELSE Tables
  /\ added = {<<m.table, m.column>> :
                m \in {s \in Range(MigrationSteps) : s.column # "" /\ s.since <= v}}

SchemaInit ==
  /\ \E v \in 0 .. SchemaVersion : Left(v)
  /\ startup = "create"
  /\ migration = 1

-----------------------------------------------------------------------------
Missing == {i \in DOMAIN TableOrder : TableOrder[i] \notin tables}

(* create_all, one table after the other: those that exist are left as they are. *)
CreateTable ==
  /\ startup = "create"
  /\ \E i \in Missing :
       /\ \A j \in Missing : i <= j
       /\ tables' = tables \cup {TableOrder[i]}
       /\ added' = added \cup {c \in AllAdded : c[1] = TableOrder[i]}
  /\ UNCHANGED <<version, startup, migration>>

AllCreated ==
  /\ startup = "create" /\ Missing = {}
  /\ startup' = "stamp"
  /\ UNCHANGED <<tables, added, version, migration>>

(* Mutant: the version of an old file is overwritten. *)
StampAlways ==
  /\ startup = "stamp"
  /\ version' = SchemaVersion
  /\ startup' = "check"
  /\ UNCHANGED <<tables, added, migration>>

(* The rest of initialize: only a new file is given the current version. *)
Stamp ==
  /\ startup = "stamp"
  /\ version' = IF version = 0 THEN SchemaVersion ELSE version
  /\ startup' = "check"
  /\ UNCHANGED <<tables, added, migration>>

EnsureSchema ==
  /\ startup = "check"
  /\ startup' = IF version = SchemaVersion THEN "listen" ELSE "migrate"
  /\ migration' = 1
  /\ UNCHANGED <<tables, added, version>>

Step == MigrationSteps[migration]
Migrating == startup = "migrate" /\ migration <= Len(MigrationSteps)

(* An ALTER TABLE that adds a column the table has is an error. *)
Duplicate == Migrating /\ version < Step.since /\ <<Step.table, Step.column>> \in added

Migrate ==
  /\ Migrating /\ ~ Duplicate
  /\ migration' = migration + 1
  /\ tables' = IF version < Step.since THEN tables \cup {Step.table} ELSE tables
  /\ added' = IF version < Step.since /\ Step.column # ""
              THEN added \cup {<<Step.table, Step.column>>} ELSE added
  /\ UNCHANGED <<version, startup>>

(* The version row is replaced in one transaction. *)
Migrated ==
  /\ startup = "migrate" /\ ~ Migrating
  /\ version' = SchemaVersion
  /\ startup' = "listen"
  /\ UNCHANGED <<tables, added, migration>>

StartupStep == CreateTable \/ AllCreated \/ Stamp \/ EnsureSchema \/ Migrate \/ Migrated

UpToDate == version = SchemaVersion /\ tables = Tables /\ added = AllAdded

(* A migration that was cut short: columns of a version the file does not have. *)
HalfMigrated ==
  /\ version \in 1 .. SchemaVersion - 1
  /\ \E m \in Range(MigrationSteps) : m.since > version /\ <<m.table, m.column>> \in added
=============================================================================

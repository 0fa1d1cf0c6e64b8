---------------------------- MODULE BeatScheduler ----------------------------
(***************************************************************************)
(* Periodic tasks: the schedules table, the pages that edit it, and one      *)
(* Celery beat per app whose DatabaseScheduler copies the table from time   *)
(* to time, sends what is due and writes the run state back.  Each access   *)
(* to the table is an RPC of its own, so edits fall between any two of them, *)
(* and any of them may fail.  Time is kept as ages ("how long ago"), cut     *)
(* off at MaxAge, so it may pass for ever.                                  *)
(***************************************************************************)
EXTENDS Integers, FiniteSetsExt, Absent

CONSTANTS
  Schedules,        \* schedule ids
  Apps,             \* Celery apps, each with a beat process
  Defs,             \* definitions a user may give a schedule
  AppOf,            \* definition: the app it is for
  PeriodOf,         \* definition: its interval
  Enabled,          \* the definitions that are enabled
  Malformed,        \* the definitions whose cron fields Celery cannot parse
  RefreshInterval,  \* beat_db_refresh_seconds
  MaxSleep,         \* Celery's longest sleep between two ticks
  MaxAge,           \* ages are exact below it
  MaxEdits,         \* bound: edits by users
  MaxFailures,      \* bound: RPCs of beat that fail
  MaxCrashes,       \* bound: beats killed
  NoRow

ASSUME BeatAssumption ==
  /\ AppOf \in [Defs -> Apps]
  /\ PeriodOf \in [Defs -> Nat \ {0}]
  /\ Enabled \subseteq Defs /\ Malformed \subseteq Defs
  /\ RefreshInterval \in Nat /\ MaxSleep \in Nat \ {0} /\ MaxAge \in Nat
  /\ RefreshInterval + MaxSleep < MaxAge
  /\ \A d \in Defs : PeriodOf[d] < MaxAge
  /\ MaxEdits \in Nat /\ MaxFailures \in Nat /\ MaxCrashes \in Nat
  /\ None \notin Nat \cup Defs

VARIABLES
  schedules,     \* the schedules table
  wanted,        \* history: what the users last made of each schedule
  homes,         \* history: the apps the users have given each schedule to
  pc,            \* beat: "down", "asleep", "tick" or "write"
  entries,       \* beat: its copy of the table and the run state of each entry
  dirty,         \* beat: entries whose run state it is writing back
  polled,        \* beat: age of the last refresh
  sleep,         \* beat: time left to sleep
  sent,          \* age of the last time a schedule was sent
  early,         \* history: schedules sent before their interval was over
  unsaved,       \* history: schedules that lost a run state
  edits, failures, crashes

beatVars == <<pc, entries, dirty, polled, sleep>>
historyVars == <<wanted, homes, sent, early, unsaved>>
bounds == <<edits, failures, crashes>>
vars == <<schedules, beatVars, historyVars, bounds>>

Ages == 0 .. MaxAge
Opt(S) == S \cup {None}

(* "age" is that of last_run_at; an edit resets it, and total_run_count, to NULL. *)
Row == [def : Defs, age : Opt(Ages)]
Entry == [def : Defs, age : Ages, ran : BOOLEAN]

ASSUME NothingAssumption == None \notin Entry /\ NoRow \notin Row

TypeOK ==
  /\ schedules \in [Schedules -> Row \cup {NoRow}]
  /\ wanted \in [Schedules -> Opt(Defs)] /\ homes \in [Schedules -> SUBSET Apps]
  /\ pc \in [Apps -> {"down", "asleep", "tick", "write"}]
  /\ entries \in [Apps -> [Schedules -> Entry \cup {None}]]
  /\ dirty \in [Apps -> SUBSET Schedules]
  /\ polled \in [Apps -> Ages]
  /\ sleep \in [Apps -> 0 .. MaxSleep]
  /\ sent \in [Schedules -> Opt(Ages)]
  /\ early \subseteq Schedules /\ unsaved \subseteq Schedules
  /\ edits \in 0 .. MaxEdits /\ failures \in 0 .. MaxFailures /\ crashes \in 0 .. MaxCrashes

NoEntries == [s \in Schedules |-> None]

Init ==
  /\ schedules = [s \in Schedules |-> NoRow]
  /\ wanted = [s \in Schedules |-> None] /\ homes = [s \in Schedules |-> {}]
  /\ pc = [a \in Apps |-> "down"]
  /\ entries = [a \in Apps |-> NoEntries]
  /\ dirty = [a \in Apps |-> {}]
  /\ polled = [a \in Apps |-> 0]
  /\ sleep = [a \in Apps |-> 0]
  /\ sent = [s \in Schedules |-> None]
  /\ early = {} /\ unsaved = {}
  /\ edits = 0 /\ failures = 0 /\ crashes = 0

-----------------------------------------------------------------------------
(* Users: beat_add and beat_edit upsert a row without run state, beat_delete
   deletes it.  (An edit that moves a schedule to another app deletes it first.) *)

Edit(s, def) ==
  /\ edits < MaxEdits
  /\ edits' = edits + 1
  /\ wanted' = [wanted EXCEPT ![s] = def]
  /\ homes' = IF def = None THEN homes ELSE [homes EXCEPT ![s] = @ \cup {AppOf[def]}]
  /\ UNCHANGED <<beatVars, sent, early, unsaved, failures, crashes>>

Save(s, def) ==
  /\ schedules' = [schedules EXCEPT ![s] = [def |-> def, age |-> None]]
  /\ Edit(s, def)

Delete(s) ==
  /\ schedules[s] # NoRow
  /\ schedules' = [schedules EXCEPT ![s] = NoRow]
  /\ Edit(s, None)

-----------------------------------------------------------------------------
(* A beat: DatabaseScheduler under Celery's Service loop *)

(* Mutant: a beat takes the schedules of every app. *)
LoadedOfAll(a) ==
  {s \in Schedules : schedules[s] # NoRow /\ schedules[s].def \in Enabled}

Loaded(a) ==
  {s \in Schedules : /\ schedules[s] # NoRow
                     /\ AppOf[schedules[s].def] = a
                     /\ schedules[s].def \in Enabled}

(* Mutant: the entry of a schedule that never ran has no last run. *)
BuildEntryNeverRan(row) == [def |-> row.def, age |-> row.age, ran |-> FALSE]

(* Mutant: a schedule that never ran is due. *)
BuildEntryDue(row) ==
  [def |-> row.def, age |-> IF row.age = None THEN MaxAge ELSE row.age, ran |-> FALSE]

(* _build_entry: a schedule that never ran counts as run now. *)
BuildEntry(row) ==
  [def |-> row.def, age |-> IF row.age = None THEN 0 ELSE row.age, ran |-> FALSE]

(* _load_schedules: the whole copy is replaced; a malformed schedule raises. *)
LoadSchedules(a) ==
  IF \E s \in Loaded(a) : schedules[s].def \in Malformed
  THEN /\ entries' = [entries EXCEPT ![a] = NoEntries]
       /\ pc' = [pc EXCEPT ![a] = "down"]
  ELSE /\ entries' = [entries EXCEPT ![a] =
            [s \in Schedules |-> IF s \in Loaded(a) THEN BuildEntry(schedules[s]) ELSE None]]
       /\ pc' = [pc EXCEPT ![a] = "tick"]

FailRpc ==
  /\ failures < MaxFailures
  /\ failures' = failures + 1

(* Mutant: only a refresh that succeeded counts. *)
RefreshSucceeded(a) ==
  /\ sleep' = [sleep EXCEPT ![a] = 0]
  /\ \/ LoadSchedules(a) /\ polled' = [polled EXCEPT ![a] = 0] /\ UNCHANGED failures
     \/ FailRpc /\ pc' = [pc EXCEPT ![a] = "tick"] /\ UNCHANGED <<entries, polled>>
  /\ UNCHANGED <<schedules, historyVars, dirty, edits, crashes>>

(* The RPC fails: the copy stays as it is until the next refresh. *)
Refresh(a) ==
  /\ polled' = [polled EXCEPT ![a] = 0]
  /\ sleep' = [sleep EXCEPT ![a] = 0]
  /\ \/ LoadSchedules(a) /\ UNCHANGED failures
     \/ FailRpc /\ pc' = [pc EXCEPT ![a] = "tick"] /\ UNCHANGED entries
  /\ UNCHANGED <<schedules, historyVars, dirty, edits, crashes>>

(* The process starts, for the first time or again: setup_schedule. *)
Start(a) ==
  /\ pc[a] = "down"
  /\ Refresh(a)

(* Mutant: every tick refreshes. *)
WakeAndRefresh(a) ==
  /\ pc[a] = "asleep" /\ sleep[a] = 0
  /\ Refresh(a)

(* tick, its first line: the refresh, when it is time for one. *)
Wake(a) ==
  /\ pc[a] = "asleep" /\ sleep[a] = 0
  /\ IF polled[a] >= RefreshInterval
     THEN Refresh(a)
     ELSE /\ pc' = [pc EXCEPT ![a] = "tick"]
          /\ UNCHANGED <<schedules, historyVars, entries, dirty, polled, sleep, bounds>>

Due(a) == {s \in Schedules : entries[a][s] # None /\ entries[a][s].age >= PeriodOf[entries[a][s].def]}

(* Celery's own tick: sends one entry that is due, or says how long to sleep. *)
SendDue(a, s) ==
  /\ s \in Due(a)
  /\ entries' = [entries EXCEPT ![a][s].age = 0, ![a][s].ran = TRUE]
  /\ sent' = [sent EXCEPT ![s] = 0]
  /\ early' = IF sent[s] # None /\ sent[s] < PeriodOf[entries[a][s].def]
              THEN early \cup {s} ELSE early
  /\ UNCHANGED sleep

SleepUntilDue(a) ==
  LET left == {PeriodOf[entries[a][s].def] - entries[a][s].age :
                 s \in {x \in Schedules : entries[a][x] # None}}
  IN  /\ Due(a) = {}
      /\ sleep' = [sleep EXCEPT ![a] = Min(left \cup {MaxSleep})]
      /\ UNCHANGED <<entries, sent, early>>

Tick(a) ==
  /\ pc[a] = "tick"
  /\ (\E s \in Schedules : SendDue(a, s)) \/ SleepUntilDue(a)
  /\ pc' = [pc EXCEPT ![a] = "write"]
  /\ UNCHANGED <<schedules, wanted, homes, unsaved, dirty, polled, bounds>>

(* _writeback_run_state: what changed is taken as written before it is written. *)
Writeback(a) ==
  LET changed == {s \in Schedules : entries[a][s] # None /\ entries[a][s].ran}
  IN  /\ pc[a] = "write" /\ dirty[a] = {}
      /\ dirty' = [dirty EXCEPT ![a] = changed]
      /\ entries' = [entries EXCEPT ![a] =
           [s \in Schedules |-> IF s \in changed THEN [@[s] EXCEPT !.ran = FALSE] ELSE @[s]]]
      /\ pc' = IF changed = {} THEN [pc EXCEPT ![a] = "asleep"] ELSE pc
      /\ UNCHANGED <<schedules, historyVars, polled, sleep, bounds>>

(* store_schedule: an upsert of the whole copied row.  A failure is logged. *)
StoreSchedule(a, s) ==
  LET entry == entries[a][s]
  IN  /\ pc[a] = "write" /\ s \in dirty[a]
      /\ \/ /\ schedules' = [schedules EXCEPT ![s] = [def |-> entry.def, age |-> entry.age]]
            /\ UNCHANGED <<failures, unsaved>>
         \/ FailRpc /\ unsaved' = unsaved \cup {s} /\ UNCHANGED schedules
      /\ dirty' = [dirty EXCEPT ![a] = @ \ {s}]
      /\ pc' = IF dirty[a] = {s} THEN [pc EXCEPT ![a] = "asleep"] ELSE pc
      /\ UNCHANGED <<wanted, homes, sent, early, entries, polled, sleep, edits, crashes>>

BeatStep(a) ==
  \/ Start(a)
  \/ Wake(a)
  \/ Tick(a)
  \/ Writeback(a)
  \/ \E s \in Schedules : StoreSchedule(a, s)

(* The process is killed; the supervisor starts it again. *)
Crash(a) ==
  /\ pc[a] # "down"
  /\ crashes < MaxCrashes
  /\ crashes' = crashes + 1
  /\ unsaved' = unsaved \cup dirty[a] \cup
       {s \in Schedules : entries[a][s] # None /\ entries[a][s].ran}
  /\ pc' = [pc EXCEPT ![a] = "down"]
  /\ entries' = [entries EXCEPT ![a] = NoEntries]
  /\ dirty' = [dirty EXCEPT ![a] = {}]
  /\ UNCHANGED <<schedules, wanted, homes, sent, early, polled, sleep, edits, failures>>

(* Time passes while every beat sleeps or is down. *)
Older(age) == IF age = None THEN None ELSE IF age < MaxAge THEN age + 1 ELSE age

Elapse ==
  /\ \A a \in Apps : pc[a] = "down" \/ (pc[a] = "asleep" /\ sleep[a] > 0)
  /\ sleep' = [a \in Apps |-> IF pc[a] = "down" THEN sleep[a] ELSE sleep[a] - 1]
  /\ polled' = [a \in Apps |-> Older(polled[a])]
  /\ sent' = [s \in Schedules |-> Older(sent[s])]
  /\ schedules' = [s \in Schedules |->
       IF schedules[s] = NoRow THEN NoRow ELSE [schedules[s] EXCEPT !.age = Older(@)]]
  /\ entries' = [a \in Apps |-> [s \in Schedules |->
       IF entries[a][s] = None THEN None ELSE [entries[a][s] EXCEPT !.age = Older(@)]]]
  /\ UNCHANGED <<wanted, homes, pc, dirty, early, unsaved, bounds>>

Next ==
  \/ \E s \in Schedules, def \in Defs : Save(s, def)
  \/ \E s \in Schedules : Delete(s)
  \/ \E a \in Apps : BeatStep(a) \/ Crash(a)
  \/ Elapse

(* A beat's loop runs, a dead beat is started again, and time passes. *)
Fairness == (\A a \in Apps : WF_vars(BeatStep(a))) /\ WF_vars(Elapse)

Spec == Init /\ [][Next]_vars
FairSpec == Spec /\ Fairness

-----------------------------------------------------------------------------
(* Properties *)

(* A periodic task is sent before its interval is over only when the run state of
   an earlier sending was lost, or when users have handed it from one app's beat to
   another's, which know nothing of each other's sendings: refreshes, edits,
   deletions, failed reads and the other apps' beats cause no double run. *)
HandedOver == {s \in Schedules : \E a, b \in homes[s] : a # b}

NoDoubleRun == early \subseteq unsaved \cup HandedOver

(* A running beat looks at the table at least every RefreshInterval + MaxSleep. *)
PolledInTime == \A a \in Apps : pc[a] # "down" => polled[a] <= RefreshInterval + MaxSleep

(* A schedule that stays in the table, enabled and well-formed, in an app without
   malformed ones, is sent again and again. *)
Runnable(s) ==
  /\ schedules[s] # NoRow
  /\ s \in Loaded(AppOf[schedules[s].def])
  /\ \A t \in Loaded(AppOf[schedules[s].def]) : schedules[t].def \notin Malformed

EveryScheduleRuns == \A s \in Schedules : <>[]Runnable(s) => []<>(sent[s] = 0)

(* Schedules are managed from the pages: the table holds what the users last
   made of it, whatever a beat writes back. *)
EditsSurvive ==
  \A s \in Schedules :
    wanted[s] = IF schedules[s] = NoRow THEN None ELSE schedules[s].def

=============================================================================

-------------------------- MODULE BeatSchedulerProofs --------------------------
(***************************************************************************)
(* Proofs about schedules: BeatScheduler, for any schedules, apps,          *)
(* definitions, intervals and bounds; and the pages that edit them          *)
(* (SchedulePages), for any apps, users and requests.                       *)
(***************************************************************************)
EXTENDS BeatScheduler, SchedulePages, FiniteSetTheorems, SequenceTheorems,
        WellFoundedInduction, TLAPS

-----------------------------------------------------------------------------
(* The inductive invariant *)

NothingRan(a) == \A s \in Schedules : entries[a][s] # None => ~ entries[a][s].ran

(* What a beat is at: run states are pending only between a tick and the end of its
   write-back, and the age of the last refresh and the sleep left are bounded. *)
PhaseOf(a) ==
  /\ pc[a] # "write" => dirty[a] = {}
  /\ pc[a] # "write" \/ dirty[a] # {} => NothingRan(a)
  /\ \A s \in dirty[a] : entries[a][s] # None
  /\ pc[a] \in {"tick", "write"} => polled[a] <= RefreshInterval
  /\ pc[a] = "asleep" => polled[a] + sleep[a] <= RefreshInterval + MaxSleep

Phases == \A a \in Apps : PhaseOf(a)

(* The run state of s that a beat has yet to write back. *)
Pending(a, s) == s \in dirty[a] \/ (entries[a][s] # None /\ entries[a][s].ran)

(* Unless its run state was lost, no copy of a schedule is older than its last sending,
   and no row is whose run state is not about to be overwritten. *)
EntryKept(a, s) == entries[a][s] # None => entries[a][s].age <= sent[s]

RowKept(s) ==
  schedules[s] # NoRow /\ schedules[s].age # None =>
    schedules[s].age <= sent[s] \/ \E a \in Apps : Pending(a, s)

Kept(s) ==
  \/ s \in unsaved \/ s \in HandedOver \/ sent[s] = None
  \/ RowKept(s) /\ \A a \in Apps : EntryKept(a, s)

RunStatesKept == \A s \in Schedules : Kept(s)

(* A row, and the copies of it, are of apps to which users gave the schedule: of a
   schedule with one home, the other apps' beats have no copy, so they cannot bring
   an older run state back. *)
RowHome(s) == schedules[s] # NoRow => AppOf[schedules[s].def] \in homes[s]
EntryHome(a, s) ==
  entries[a][s] # None => AppOf[entries[a][s].def] = a /\ a \in homes[s]
AtHome == \A s \in Schedules : RowHome(s) /\ \A a \in Apps : EntryHome(a, s)

TypeInv == TypeOK /\ Phases
Inv == TypeInv /\ AtHome /\ RunStatesKept /\ NoDoubleRun

-----------------------------------------------------------------------------
(* The least of some natural numbers *)

LEMMA LeastOfSome ==
  ASSUME NEW S \in SUBSET Nat, S # {}
  PROVE  Min(S) \in S /\ \A y \in S : Min(S) <= y
<1> DEFINE R == OpToRel(<, Nat)
<1>1. IsWellFoundedOn(R, Nat)
  BY NatLessThanWellFounded
<1>2. \A x, y \in Nat : x < y => <<x, y>> \in R
  BY DEF OpToRel
<1> HIDE DEF R
<1>3. PICK x \in S : \A y \in S : ~ (<<y, x>> \in R)
  BY <1>1, WFMin
<1>4. \A y \in S : x <= y
  <2> TAKE y \in S
  <2>1. x \in Nat /\ y \in Nat /\ ~ (y < x)
    BY <1>2, <1>3
  <2> QED BY <2>1
<1> QED BY <1>4 DEF Min

LEMMA OlderAge ==
  ASSUME NEW age \in Opt(Ages)
  PROVE  /\ Older(age) \in Opt(Ages)
         /\ Older(age) = None <=> age = None
         /\ age # None => /\ Older(age) \in Ages /\ Older(age) <= age + 1
                          /\ \A other \in Ages : age <= other => Older(age) <= Older(other)
<1>1. MaxAge \in Nat /\ None \notin Nat
  BY BeatAssumption
<1>2. CASE age = None
  BY <1>1, <1>2 DEF Older, Opt
<1>3. CASE age # None
  <2>1. age \in 0 .. MaxAge
    BY <1>3 DEF Opt, Ages
  <2>2. \A x \in 0 .. MaxAge : x # None
    BY <1>1
  <2>3. \A x \in 0 .. MaxAge : Older(x) = IF x < MaxAge THEN x + 1 ELSE x
    BY <2>2 DEF Older
  <2>4. Older(age) \in 0 .. MaxAge /\ Older(age) <= age + 1
    BY <1>1, <2>1, <2>3
  <2>5. \A other \in 0 .. MaxAge : age <= other => Older(age) <= Older(other)
    BY <1>1, <2>1, <2>3
  <2> QED BY <1>3, <2>2, <2>4, <2>5 DEF Opt, Ages
<1> QED BY <1>2, <1>3

LEMMA ZeroIsAge == 0 \in Ages /\ \A age \in Ages : age # None /\ age \in Nat /\ 0 <= age /\ age <= MaxAge
BY BeatAssumption DEF Ages

-----------------------------------------------------------------------------
(* What a refresh does to the copy of a beat *)

LEMMA BuiltEntry ==
  ASSUME NEW row \in Row
  PROVE  /\ BuildEntry(row) \in Entry
         /\ BuildEntry(row).age = IF row.age = None THEN 0 ELSE row.age
         /\ BuildEntry(row).def = row.def
         /\ ~ BuildEntry(row).ran
BY ZeroIsAge DEF BuildEntry, Row, Entry, Opt

(* An entry that was read is that of its row, and has not run. *)
Read(a, copy) ==
  \A s \in Schedules : copy[s] # None =>
    /\ schedules[s] # NoRow /\ copy[s] = BuildEntry(schedules[s])
    /\ AppOf[schedules[s].def] = a

LEMMA RefreshEffect ==
  ASSUME TypeOK, NEW a \in Apps, Refresh(a)
  PROVE  /\ polled' = [polled EXCEPT ![a] = 0]
         /\ sleep' = [sleep EXCEPT ![a] = 0]
         /\ \E p \in {"down", "tick"} : pc' = [pc EXCEPT ![a] = p]
         /\ \E copy \in [Schedules -> Entry \cup {None}] :
              /\ entries' = [entries EXCEPT ![a] = copy]
              /\ copy = entries[a] \/ Read(a, copy)
         /\ failures' \in 0 .. MaxFailures
         /\ UNCHANGED <<schedules, wanted, homes, sent, early, unsaved, dirty, edits, crashes>>
<1>1. /\ polled' = [polled EXCEPT ![a] = 0] /\ sleep' = [sleep EXCEPT ![a] = 0]
      /\ UNCHANGED <<schedules, wanted, homes, sent, early, unsaved, dirty, edits, crashes>>
  BY DEF Refresh, historyVars
<1>2. CASE LoadSchedules(a) /\ UNCHANGED failures
  <2>1. CASE \E s \in Loaded(a) : schedules[s].def \in Malformed
    <3>1. entries' = [entries EXCEPT ![a] = NoEntries] /\ pc' = [pc EXCEPT ![a] = "down"]
      BY <1>2, <2>1 DEF LoadSchedules
    <3>2. NoEntries \in [Schedules -> Entry \cup {None}] /\ Read(a, NoEntries)
      BY DEF NoEntries, Read
    <3> QED BY <1>1, <1>2, <3>1, <3>2 DEF TypeOK
  <2>2. CASE ~ (\E s \in Loaded(a) : schedules[s].def \in Malformed)
    <3> DEFINE copy == [s \in Schedules |->
                          IF s \in Loaded(a) THEN BuildEntry(schedules[s]) ELSE None]
    <3>1. entries' = [entries EXCEPT ![a] = copy] /\ pc' = [pc EXCEPT ![a] = "tick"]
      BY <1>2, <2>2 DEF LoadSchedules
    <3>2. \A s \in Loaded(a) : /\ schedules[s] # NoRow /\ schedules[s] \in Row
                              /\ AppOf[schedules[s].def] = a
      BY DEF Loaded, TypeOK
    <3>3. copy \in [Schedules -> Entry \cup {None}]
      BY <3>2, BuiltEntry
    <3>4. Read(a, copy)
      BY <3>2 DEF Read
    <3> HIDE DEF copy
    <3> QED BY <1>1, <1>2, <3>1, <3>3, <3>4 DEF TypeOK
  <2> QED BY <2>1, <2>2
<1>3. CASE FailRpc /\ pc' = [pc EXCEPT ![a] = "tick"] /\ UNCHANGED entries
  <2>1. failures' \in 0 .. MaxFailures
    BY <1>3, BeatAssumption DEF FailRpc, TypeOK
  <2>2. entries' = [entries EXCEPT ![a] = entries[a]]
    BY <1>3 DEF TypeOK
  <2>3. entries[a] \in [Schedules -> Entry \cup {None}]
    BY DEF TypeOK
  <2> QED BY <1>1, <1>3, <2>1, <2>2, <2>3
<1> QED BY <1>2, <1>3 DEF Refresh

(* A beat that wakes refreshes its copy, or goes on with the one it has. *)
LEMMA BeginEffect ==
  ASSUME TypeOK, NEW a \in Apps, Start(a) \/ Wake(a)
  PROVE  /\ pc[a] \in {"down", "asleep"}
         /\ \/ Refresh(a)
            \/ /\ polled[a] <= RefreshInterval
               /\ pc' = [pc EXCEPT ![a] = "tick"]
               /\ UNCHANGED <<schedules, wanted, homes, sent, early, unsaved, entries, dirty,
                              polled, sleep, edits, failures, crashes>>
<1>1. polled[a] \in Nat /\ RefreshInterval \in Nat
  BY BeatAssumption DEF TypeOK, Ages
<1>2. CASE Start(a)
  BY <1>2 DEF Start
<1>3. CASE Wake(a)
  <2>1. CASE polled[a] >= RefreshInterval
    BY <1>3, <2>1 DEF Wake
  <2>2. CASE ~ (polled[a] >= RefreshInterval)
    BY <1>1, <1>3, <2>2 DEF Wake, historyVars, bounds
  <2> QED BY <2>1, <2>2
<1> QED BY <1>2, <1>3

-----------------------------------------------------------------------------
(* Types and phases *)

LEMMA InitType == Init => TypeInv
<1> SUFFICES ASSUME Init PROVE TypeInv
  OBVIOUS
<1> USE DEF Init
<1>1. TypeOK
  <2>1. /\ schedules \in [Schedules -> Row \cup {NoRow}] /\ wanted \in [Schedules -> Opt(Defs)]
        /\ homes \in [Schedules -> SUBSET Apps] /\ sent \in [Schedules -> Opt(Ages)]
    BY DEF Opt
  <2>2. /\ pc \in [Apps -> {"down", "asleep", "tick", "write"}]
        /\ entries \in [Apps -> [Schedules -> Entry \cup {None}]]
        /\ dirty \in [Apps -> SUBSET Schedules]
    BY DEF NoEntries
  <2>3. polled \in [Apps -> Ages] /\ sleep \in [Apps -> 0 .. MaxSleep]
    BY BeatAssumption, ZeroIsAge
  <2>4. /\ early \subseteq Schedules /\ unsaved \subseteq Schedules
        /\ edits \in 0 .. MaxEdits /\ failures \in 0 .. MaxFailures
        /\ crashes \in 0 .. MaxCrashes
    BY BeatAssumption
  <2> QED BY <2>1, <2>2, <2>3, <2>4 DEF TypeOK
<1>2. Phases
  BY DEF Phases, PhaseOf, NothingRan, NoEntries
<1> QED BY <1>1, <1>2 DEF TypeInv

(* A step of a beat leaves the others alone. *)
LEMMA OtherPhases ==
  ASSUME TypeInv, NEW a \in Apps,
         \A b \in Apps \ {a} : /\ pc'[b] = pc[b] /\ entries'[b] = entries[b]
                               /\ dirty'[b] = dirty[b] /\ polled'[b] = polled[b]
                               /\ sleep'[b] = sleep[b],
         PhaseOf(a)'
  PROVE  Phases'
<1> SUFFICES ASSUME NEW b \in Apps PROVE PhaseOf(b)'
  BY DEF Phases
<1>1. CASE b = a
  BY <1>1
<1>2. CASE b # a
  <2>1. PhaseOf(b)
    BY DEF TypeInv, Phases
  <2>2. /\ pc'[b] = pc[b] /\ entries'[b] = entries[b] /\ dirty'[b] = dirty[b]
        /\ polled'[b] = polled[b] /\ sleep'[b] = sleep[b]
    BY <1>2
  <2>3. NothingRan(b)' <=> NothingRan(b)
    BY <2>2 DEF NothingRan
  <2> QED BY <2>1, <2>2, <2>3 DEF PhaseOf
<1> QED BY <1>1, <1>2

LEMMA EditType ==
  ASSUME TypeInv, NEW s \in Schedules,
         (\E def \in Defs : Save(s, def)) \/ Delete(s)
  PROVE  TypeInv'
<1>1. /\ UNCHANGED <<pc, entries, dirty, polled, sleep, sent, early, unsaved, failures, crashes>>
      /\ edits < MaxEdits /\ edits' = edits + 1
  BY DEF Save, Delete, Edit, beatVars
<1>2. edits' \in 0 .. MaxEdits
  BY <1>1, BeatAssumption DEF TypeInv, TypeOK
<1>3. /\ schedules' \in [Schedules -> Row \cup {NoRow}]
      /\ wanted' \in [Schedules -> Opt(Defs)] /\ homes' \in [Schedules -> SUBSET Apps]
  <2>1. ASSUME NEW def \in Defs, Save(s, def)
        PROVE  /\ schedules' \in [Schedules -> Row \cup {NoRow}]
               /\ wanted' \in [Schedules -> Opt(Defs)]
               /\ homes' \in [Schedules -> SUBSET Apps]
    <3>1. /\ [def |-> def, age |-> None] \in Row /\ def \in Opt(Defs)
          /\ def # None /\ AppOf[def] \in Apps
      BY BeatAssumption DEF Row, Opt
    <3> QED BY <2>1, <3>1 DEF Save, Edit, TypeInv, TypeOK
  <2>2. ASSUME Delete(s)
        PROVE  /\ schedules' \in [Schedules -> Row \cup {NoRow}]
               /\ wanted' \in [Schedules -> Opt(Defs)]
               /\ homes' \in [Schedules -> SUBSET Apps]
    <3>1. None \in Opt(Defs)
      BY DEF Opt
    <3> QED BY <2>2, <3>1 DEF Delete, Edit, TypeInv, TypeOK
  <2> QED BY <2>1, <2>2
<1>4. TypeOK'
  BY <1>1, <1>2, <1>3 DEF TypeInv, TypeOK
<1>5. Phases'
  BY <1>1 DEF TypeInv, Phases, PhaseOf, NothingRan
<1> QED BY <1>4, <1>5 DEF TypeInv

LEMMA BeginType ==
  ASSUME TypeInv, NEW a \in Apps, Start(a) \/ Wake(a)
  PROVE  TypeInv'
<1>0. TypeOK /\ PhaseOf(a)
  BY DEF TypeInv, Phases
<1>1. pc[a] \in {"down", "asleep"} /\ dirty[a] = {} /\ NothingRan(a)
  BY <1>0, BeginEffect DEF PhaseOf
<1>2. CASE Refresh(a)
  <2>1. /\ polled' = [polled EXCEPT ![a] = 0] /\ sleep' = [sleep EXCEPT ![a] = 0]
        /\ failures' \in 0 .. MaxFailures
        /\ UNCHANGED <<schedules, wanted, homes, sent, early, unsaved, dirty, edits, crashes>>
    BY <1>0, <1>2, RefreshEffect
  <2>2. PICK p \in {"down", "tick"} : pc' = [pc EXCEPT ![a] = p]
    BY <1>0, <1>2, RefreshEffect
  <2>3. PICK copy \in [Schedules -> Entry \cup {None}] :
          entries' = [entries EXCEPT ![a] = copy] /\ (copy = entries[a] \/ Read(a, copy))
    BY <1>0, <1>2, RefreshEffect
  <2>4. TypeOK'
    <3>1. 0 \in Ages /\ 0 \in 0 .. MaxSleep
      BY ZeroIsAge, BeatAssumption
    <3>2. polled' \in [Apps -> Ages] /\ sleep' \in [Apps -> 0 .. MaxSleep]
      BY <1>0, <2>1, <3>1 DEF TypeOK
    <3>3. pc' \in [Apps -> {"down", "asleep", "tick", "write"}]
      BY <1>0, <2>2 DEF TypeOK
    <3>4. entries' \in [Apps -> [Schedules -> Entry \cup {None}]]
      BY <1>0, <2>3 DEF TypeOK
    <3> QED BY <1>0, <2>1, <3>2, <3>3, <3>4 DEF TypeOK
  <2>5. /\ pc'[a] = p /\ entries'[a] = copy /\ polled'[a] = 0 /\ dirty'[a] = {}
        /\ \A b \in Apps \ {a} : /\ pc'[b] = pc[b] /\ entries'[b] = entries[b]
                                 /\ dirty'[b] = dirty[b] /\ polled'[b] = polled[b]
                                 /\ sleep'[b] = sleep[b]
    BY <1>0, <1>1, <2>1, <2>2, <2>3 DEF TypeOK
  <2>6. \A s \in Schedules : copy[s] # None => ~ copy[s].ran
    <3>1. CASE copy = entries[a]
      BY <3>1, <1>1 DEF NothingRan
    <3>2. ASSUME Read(a, copy), NEW s \in Schedules, copy[s] # None PROVE ~ copy[s].ran
      <4>1. schedules[s] \in Row /\ copy[s] = BuildEntry(schedules[s])
        BY <3>2, <1>0 DEF Read, TypeOK
      <4> QED BY <4>1, BuiltEntry
    <3> QED BY <2>3, <3>1, <3>2
  <2>7. PhaseOf(a)'
    <3>1. NothingRan(a)'
      BY <2>5, <2>6 DEF NothingRan
    <3>2. 0 <= RefreshInterval
      BY BeatAssumption
    <3> QED BY <2>5, <3>1, <3>2 DEF PhaseOf
  <2> QED BY <2>4, <2>5, <2>7, OtherPhases DEF TypeInv
<1>3. CASE /\ polled[a] <= RefreshInterval
           /\ pc' = [pc EXCEPT ![a] = "tick"]
           /\ UNCHANGED <<schedules, wanted, homes, sent, early, unsaved, entries, dirty,
                          polled, sleep, edits, failures, crashes>>
  <2>1. TypeOK'
    BY <1>0, <1>3 DEF TypeOK
  <2>2. pc'[a] = "tick" /\ \A b \in Apps \ {a} : pc'[b] = pc[b]
    BY <1>0, <1>3 DEF TypeOK
  <2>3. PhaseOf(a)'
    <3>1. NothingRan(a)'
      BY <1>1, <1>3 DEF NothingRan
    <3> QED BY <1>1, <1>3, <2>2, <3>1 DEF PhaseOf
  <2> QED BY <1>3, <2>1, <2>2, <2>3, OtherPhases DEF TypeInv
<1> QED BY <1>0, <1>2, <1>3, BeginEffect

(* The step of a beat that sends one entry, or none. *)
LEMMA TickEffect ==
  ASSUME TypeInv, NEW a \in Apps, Tick(a)
  PROVE  /\ pc[a] = "tick" /\ pc' = [pc EXCEPT ![a] = "write"]
         /\ UNCHANGED <<schedules, wanted, homes, unsaved, dirty, polled, edits, failures, crashes>>
         /\ \/ \E s \in Schedules :
                 /\ s \in Due(a)
                 /\ \E entry \in Entry :
                      /\ entry.age = 0 /\ entry.ran /\ entry.def = entries[a][s].def
                      /\ entries' = [entries EXCEPT ![a] = [@ EXCEPT ![s] = entry]]
                 /\ sent' = [sent EXCEPT ![s] = 0]
                 /\ early' = IF sent[s] # None /\ sent[s] < PeriodOf[entries[a][s].def]
                             THEN early \cup {s} ELSE early
                 /\ UNCHANGED sleep
            \/ /\ \E n \in 0 .. MaxSleep : sleep' = [sleep EXCEPT ![a] = n]
               /\ UNCHANGED <<entries, sent, early>>
<1>0. TypeOK
  BY DEF TypeInv
<1>1. /\ pc[a] = "tick" /\ pc' = [pc EXCEPT ![a] = "write"]
      /\ UNCHANGED <<schedules, wanted, homes, unsaved, dirty, polled, edits, failures, crashes>>
  BY DEF Tick, bounds
<1>2. ASSUME NEW s \in Schedules, SendDue(a, s)
      PROVE  /\ s \in Due(a)
             /\ \E entry \in Entry :
                  /\ entry.age = 0 /\ entry.ran /\ entry.def = entries[a][s].def
                  /\ entries' = [entries EXCEPT ![a] = [@ EXCEPT ![s] = entry]]
             /\ sent' = [sent EXCEPT ![s] = 0]
             /\ early' = IF sent[s] # None /\ sent[s] < PeriodOf[entries[a][s].def]
                         THEN early \cup {s} ELSE early
             /\ UNCHANGED sleep
  <2>1. /\ s \in Due(a)
        /\ entries' = [entries EXCEPT ![a][s].age = 0, ![a][s].ran = TRUE]
        /\ sent' = [sent EXCEPT ![s] = 0]
        /\ early' = IF sent[s] # None /\ sent[s] < PeriodOf[entries[a][s].def]
                    THEN early \cup {s} ELSE early
        /\ UNCHANGED sleep
    BY <1>2 DEF SendDue
  <2>2. entries[a][s] \in Entry
    BY <2>1, <1>0 DEF Due, TypeOK
  <2>3. PICK entry : entry = [entries[a][s] EXCEPT !.age = 0, !.ran = TRUE]
    OBVIOUS
  <2>4. entry \in Entry /\ entry.age = 0 /\ entry.ran /\ entry.def = entries[a][s].def
    BY <2>2, <2>3, ZeroIsAge DEF Entry
  <2>5. entries' = [entries EXCEPT ![a] = [@ EXCEPT ![s] = entry]]
    BY <2>1, <2>2, <2>3, <1>0 DEF TypeOK, Entry
  <2> QED BY <2>1, <2>4, <2>5
<1>3. ASSUME SleepUntilDue(a)
      PROVE  /\ \E n \in 0 .. MaxSleep : sleep' = [sleep EXCEPT ![a] = n]
             /\ UNCHANGED <<entries, sent, early>>
  <2> DEFINE left == {PeriodOf[entries[a][s].def] - entries[a][s].age :
                        s \in {x \in Schedules : entries[a][x] # None}}
             S == left \cup {MaxSleep}
  <2>1. ASSUME NEW s \in Schedules, entries[a][s] # None
        PROVE  PeriodOf[entries[a][s].def] - entries[a][s].age \in Nat
    <3>1. entries[a][s] \in Entry
      BY <2>1, <1>0 DEF TypeOK
    <3>2. PeriodOf[entries[a][s].def] \in Nat /\ entries[a][s].age \in Nat
      BY <3>1, ZeroIsAge, BeatAssumption DEF Entry
    <3>3. ~ (entries[a][s].age >= PeriodOf[entries[a][s].def])
      BY <1>3, <2>1 DEF SleepUntilDue, Due
    <3> QED BY <3>2, <3>3
  <2>2. S \in SUBSET Nat /\ S # {} /\ MaxSleep \in S /\ MaxSleep \in Nat
    BY <2>1, BeatAssumption
  <2>3. sleep' = [sleep EXCEPT ![a] = Min(S)] /\ UNCHANGED <<entries, sent, early>>
    BY <1>3 DEF SleepUntilDue
  <2> HIDE DEF S
  <2>4. Min(S) \in 0 .. MaxSleep
    <3>1. Min(S) \in S /\ \A y \in S : Min(S) <= y
      BY <2>2, LeastOfSome
    <3>2. Min(S) \in Nat /\ Min(S) <= MaxSleep
      BY <2>2, <3>1
    <3> QED BY <2>2, <3>2
  <2> QED BY <2>3, <2>4
<1> QED BY <1>1, <1>2, <1>3 DEF Tick

LEMMA TickType ==
  ASSUME TypeInv, NEW a \in Apps, Tick(a)
  PROVE  TypeInv'
<1>0. TypeOK /\ PhaseOf(a)
  BY DEF TypeInv, Phases
<1>1. /\ pc[a] = "tick" /\ pc' = [pc EXCEPT ![a] = "write"]
      /\ UNCHANGED <<schedules, wanted, homes, unsaved, dirty, polled, edits, failures, crashes>>
  BY TickEffect
<1>2. /\ pc'[a] = "write" /\ \A b \in Apps \ {a} : pc'[b] = pc[b]
      /\ dirty'[a] = {} /\ polled'[a] <= RefreshInterval
  BY <1>0, <1>1 DEF TypeOK, PhaseOf
<1>3. PhaseOf(a)'
  BY <1>2 DEF PhaseOf
<1>4. ASSUME NEW s \in Schedules, NEW entry \in Entry,
             entries' = [entries EXCEPT ![a] = [@ EXCEPT ![s] = entry]],
             sent' = [sent EXCEPT ![s] = 0],
             early' = early \cup {s} \/ early' = early,
             UNCHANGED sleep
      PROVE  TypeInv'
  <2>1. entries' \in [Apps -> [Schedules -> Entry \cup {None}]]
    BY <1>0, <1>4 DEF TypeOK
  <2>2. sent' \in [Schedules -> Opt(Ages)] /\ early' \subseteq Schedules
    BY <1>0, <1>4, ZeroIsAge DEF TypeOK, Opt
  <2>3. pc' \in [Apps -> {"down", "asleep", "tick", "write"}]
    BY <1>0, <1>1 DEF TypeOK
  <2>4. TypeOK'
    BY <1>0, <1>1, <1>4, <2>1, <2>2, <2>3 DEF TypeOK
  <2>5. \A b \in Apps \ {a} : entries'[b] = entries[b]
    BY <1>0, <1>4 DEF TypeOK
  <2> QED BY <1>1, <1>2, <1>3, <1>4, <2>4, <2>5, OtherPhases DEF TypeInv
<1>5. ASSUME NEW n \in 0 .. MaxSleep, sleep' = [sleep EXCEPT ![a] = n],
             UNCHANGED <<entries, sent, early>>
      PROVE  TypeInv'
  <2>1. sleep' \in [Apps -> 0 .. MaxSleep] /\ \A b \in Apps \ {a} : sleep'[b] = sleep[b]
    BY <1>0, <1>5 DEF TypeOK
  <2>2. pc' \in [Apps -> {"down", "asleep", "tick", "write"}]
    BY <1>0, <1>1 DEF TypeOK
  <2>3. TypeOK'
    BY <1>0, <1>1, <1>5, <2>1, <2>2 DEF TypeOK
  <2> QED BY <1>1, <1>2, <1>3, <1>5, <2>1, <2>3, OtherPhases DEF TypeInv
<1> QED BY <1>4, <1>5, TickEffect

(* The step that takes what changed as written. *)
LEMMA WritebackEffect ==
  ASSUME TypeOK, NEW a \in Apps, Writeback(a)
  PROVE  /\ pc[a] = "write" /\ dirty[a] = {}
         /\ UNCHANGED <<schedules, wanted, homes, sent, early, unsaved, polled, sleep,
                        edits, failures, crashes>>
         /\ \A b \in Apps \ {a} : /\ pc'[b] = pc[b] /\ entries'[b] = entries[b]
                                  /\ dirty'[b] = dirty[b]
         /\ dirty'[a] = {s \in Schedules : entries[a][s] # None /\ entries[a][s].ran}
         /\ pc'[a] = IF dirty'[a] = {} THEN "asleep" ELSE "write"
         /\ \A s \in Schedules :
              IF s \in dirty'[a]
              THEN /\ entries'[a][s] \in Entry /\ ~ entries'[a][s].ran
                   /\ entries'[a][s].age = entries[a][s].age
                   /\ entries'[a][s].def = entries[a][s].def
              ELSE entries'[a][s] = entries[a][s]
         /\ TypeOK'
<1> DEFINE changed == {s \in Schedules : entries[a][s] # None /\ entries[a][s].ran}
           cleared == [s \in Schedules |-> IF s \in changed
                                           THEN [entries[a][s] EXCEPT !.ran = FALSE]
                                           ELSE entries[a][s]]
<1>1. /\ pc[a] = "write" /\ dirty[a] = {} /\ dirty' = [dirty EXCEPT ![a] = changed]
      /\ pc' = IF changed = {} THEN [pc EXCEPT ![a] = "asleep"] ELSE pc
      /\ UNCHANGED <<schedules, wanted, homes, sent, early, unsaved, polled, sleep,
                     edits, failures, crashes>>
  BY DEF Writeback, historyVars, bounds
<1>2. entries' = [entries EXCEPT ![a] = cleared]
  BY DEF Writeback
<1>3. \A s \in changed : /\ cleared[s] \in Entry /\ ~ cleared[s].ran
                         /\ cleared[s].age = entries[a][s].age
                         /\ cleared[s].def = entries[a][s].def
  <2> TAKE s \in changed
  <2>1. entries[a][s] \in Entry
    BY DEF TypeOK
  <2>2. cleared[s] = [entries[a][s] EXCEPT !.ran = FALSE]
    OBVIOUS
  <2> HIDE DEF cleared
  <2> QED BY <2>1, <2>2 DEF Entry
<1>4. cleared \in [Schedules -> Entry \cup {None}]
  <2>1. \A s \in Schedules \ changed : cleared[s] = entries[a][s]
    OBVIOUS
  <2>2. DOMAIN cleared = Schedules /\ cleared = [s \in Schedules |-> cleared[s]]
    OBVIOUS
  <2>3. \A s \in Schedules : cleared[s] \in Entry \cup {None}
    BY <1>3, <2>1 DEF TypeOK
  <2> HIDE DEF cleared
  <2> QED BY <2>2, <2>3
<1>5. \A s \in Schedules \ changed : cleared[s] = entries[a][s]
  OBVIOUS
<1>6. changed \subseteq Schedules
  OBVIOUS
<1> HIDE DEF changed, cleared
<1>7. dirty'[a] = changed /\ entries'[a] = cleared
  BY <1>1, <1>2 DEF TypeOK
<1>8. \A b \in Apps \ {a} : pc'[b] = pc[b] /\ entries'[b] = entries[b] /\ dirty'[b] = dirty[b]
  BY <1>1, <1>2 DEF TypeOK
<1>9. pc'[a] = IF dirty'[a] = {} THEN "asleep" ELSE "write"
  BY <1>1, <1>7 DEF TypeOK
<1>10. TypeOK'
  <2>1. /\ pc' \in [Apps -> {"down", "asleep", "tick", "write"}]
        /\ dirty' \in [Apps -> SUBSET Schedules]
    BY <1>1, <1>6 DEF TypeOK
  <2>2. entries' \in [Apps -> [Schedules -> Entry \cup {None}]]
    BY <1>2, <1>4 DEF TypeOK
  <2> QED BY <1>1, <2>1, <2>2 DEF TypeOK
<1>11. \A s \in Schedules :
         IF s \in dirty'[a]
         THEN /\ entries'[a][s] \in Entry /\ ~ entries'[a][s].ran
              /\ entries'[a][s].age = entries[a][s].age
              /\ entries'[a][s].def = entries[a][s].def
         ELSE entries'[a][s] = entries[a][s]
  BY <1>3, <1>5, <1>7
<1> QED BY <1>1, <1>7, <1>8, <1>9, <1>10, <1>11 DEF changed

LEMMA WritebackType ==
  ASSUME TypeInv, NEW a \in Apps, Writeback(a)
  PROVE  TypeInv'
<1>0. TypeOK /\ PhaseOf(a)
  BY DEF TypeInv, Phases
<1>1. /\ pc[a] = "write" /\ dirty[a] = {} /\ UNCHANGED <<polled, sleep>>
      /\ dirty'[a] = {s \in Schedules : entries[a][s] # None /\ entries[a][s].ran}
      /\ pc'[a] = IF dirty'[a] = {} THEN "asleep" ELSE "write"
      /\ \A s \in Schedules :
           IF s \in dirty'[a]
           THEN /\ entries'[a][s] \in Entry /\ ~ entries'[a][s].ran
                /\ entries'[a][s].age = entries[a][s].age
           ELSE entries'[a][s] = entries[a][s]
  BY <1>0, WritebackEffect
<1>2. /\ TypeOK'
      /\ \A b \in Apps \ {a} : /\ pc'[b] = pc[b] /\ entries'[b] = entries[b]
                               /\ dirty'[b] = dirty[b]
  BY <1>0, WritebackEffect
<1>3. NothingRan(a)'
  BY <1>1 DEF NothingRan
<1>4. \A s \in dirty'[a] : entries'[a][s] # None
  BY <1>1, NothingAssumption
<1>5. polled[a] + sleep[a] <= RefreshInterval + MaxSleep
  <2>1. polled[a] \in Nat /\ sleep[a] \in 0 .. MaxSleep /\ RefreshInterval \in Nat
        /\ MaxSleep \in Nat /\ polled[a] <= RefreshInterval
    BY <1>0, <1>1, BeatAssumption DEF TypeOK, Ages, PhaseOf
  <2> QED BY <2>1
<1>6. PhaseOf(a)'
  BY <1>0, <1>1, <1>3, <1>4, <1>5 DEF PhaseOf
<1> QED BY <1>1, <1>2, <1>6, OtherPhases DEF TypeInv

LEMMA StoreEffect ==
  ASSUME TypeInv, NEW a \in Apps, NEW s \in Schedules, StoreSchedule(a, s)
  PROVE  /\ pc[a] = "write" /\ s \in dirty[a] /\ entries[a][s] \in Entry
         /\ \/ /\ schedules'[s] = [def |-> entries[a][s].def, age |-> entries[a][s].age]
               /\ \A t \in Schedules \ {s} : schedules'[t] = schedules[t]
               /\ UNCHANGED <<failures, unsaved>>
            \/ unsaved' = unsaved \cup {s} /\ UNCHANGED schedules
         /\ dirty'[a] = dirty[a] \ {s}
         /\ pc'[a] = IF dirty'[a] = {} THEN "asleep" ELSE "write"
         /\ \A b \in Apps \ {a} : pc'[b] = pc[b] /\ dirty'[b] = dirty[b]
         /\ UNCHANGED <<wanted, homes, sent, early, entries, polled, sleep, edits, crashes>>
         /\ TypeOK'
<1> DEFINE row == [def |-> entries[a][s].def, age |-> entries[a][s].age]
<1>0. TypeOK /\ PhaseOf(a)
  BY DEF TypeInv, Phases
<1>1. /\ pc[a] = "write" /\ s \in dirty[a]
      /\ dirty' = [dirty EXCEPT ![a] = @ \ {s}]
      /\ pc' = IF dirty[a] = {s} THEN [pc EXCEPT ![a] = "asleep"] ELSE pc
      /\ UNCHANGED <<wanted, homes, sent, early, entries, polled, sleep, edits, crashes>>
  BY DEF StoreSchedule
<1>2. entries[a][s] \in Entry
  <2>1. entries[a][s] # None
    BY <1>0, <1>1 DEF PhaseOf
  <2> QED BY <2>1, <1>0 DEF TypeOK
<1>3. row \in Row
  BY <1>2 DEF Entry, Row, Opt
<1>4. \/ schedules' = [schedules EXCEPT ![s] = row] /\ UNCHANGED <<failures, unsaved>>
      \/ FailRpc /\ unsaved' = unsaved \cup {s} /\ UNCHANGED schedules
  BY DEF StoreSchedule
<1> HIDE DEF row
<1>5. dirty'[a] = dirty[a] \ {s}
  BY <1>0, <1>1 DEF TypeOK
<1>6. pc'[a] = IF dirty'[a] = {} THEN "asleep" ELSE "write"
  <2>1. dirty[a] = {s} <=> dirty'[a] = {}
    BY <1>1, <1>5
  <2> QED BY <2>1, <1>0, <1>1 DEF TypeOK
<1>7. \A b \in Apps \ {a} : pc'[b] = pc[b] /\ dirty'[b] = dirty[b]
  BY <1>0, <1>1 DEF TypeOK
<1>8. TypeOK'
  <2>1. /\ dirty' \in [Apps -> SUBSET Schedules]
        /\ pc' \in [Apps -> {"down", "asleep", "tick", "write"}]
    BY <1>0, <1>1 DEF TypeOK
  <2>2. /\ schedules' \in [Schedules -> Row \cup {NoRow}] /\ unsaved' \subseteq Schedules
        /\ failures' \in 0 .. MaxFailures
    <3>1. CASE schedules' = [schedules EXCEPT ![s] = row] /\ UNCHANGED <<failures, unsaved>>
      BY <3>1, <1>0, <1>3 DEF TypeOK
    <3>2. CASE FailRpc /\ unsaved' = unsaved \cup {s} /\ UNCHANGED schedules
      <4>1. failures' \in 0 .. MaxFailures
        BY <3>2, <1>0, BeatAssumption DEF FailRpc, TypeOK
      <4> QED BY <3>2, <4>1, <1>0 DEF TypeOK
    <3> QED BY <1>4, <3>1, <3>2
  <2> QED BY <1>0, <1>1, <2>1, <2>2 DEF TypeOK
<1>9. \/ /\ schedules'[s] = row /\ \A t \in Schedules \ {s} : schedules'[t] = schedules[t]
         /\ UNCHANGED <<failures, unsaved>>
      \/ unsaved' = unsaved \cup {s} /\ UNCHANGED schedules
  BY <1>0, <1>4 DEF TypeOK
<1> QED BY <1>1, <1>2, <1>5, <1>6, <1>7, <1>8, <1>9 DEF row

LEMMA StoreType ==
  ASSUME TypeInv, NEW a \in Apps, NEW s \in Schedules, StoreSchedule(a, s)
  PROVE  TypeInv'
<1>0. TypeOK /\ PhaseOf(a)
  BY DEF TypeInv, Phases
<1>1. /\ pc[a] = "write" /\ s \in dirty[a] /\ dirty'[a] = dirty[a] \ {s}
      /\ pc'[a] = IF dirty'[a] = {} THEN "asleep" ELSE "write"
      /\ \A b \in Apps \ {a} : pc'[b] = pc[b] /\ dirty'[b] = dirty[b]
      /\ UNCHANGED <<entries, polled, sleep>>
      /\ TypeOK'
  BY StoreEffect
<1>2. NothingRan(a)'
  BY <1>0, <1>1 DEF PhaseOf, NothingRan
<1>3. polled[a] + sleep[a] <= RefreshInterval + MaxSleep
  <2>1. polled[a] \in Nat /\ sleep[a] \in 0 .. MaxSleep /\ RefreshInterval \in Nat
        /\ MaxSleep \in Nat /\ polled[a] <= RefreshInterval
    BY <1>0, <1>1, BeatAssumption DEF TypeOK, Ages, PhaseOf
  <2> QED BY <2>1
<1>4. PhaseOf(a)'
  BY <1>0, <1>1, <1>2, <1>3 DEF PhaseOf
<1> QED BY <1>1, <1>4, OtherPhases DEF TypeInv

LEMMA CrashType ==
  ASSUME TypeInv, NEW a \in Apps, Crash(a)
  PROVE  /\ TypeInv'
         /\ entries'[a] = NoEntries /\ dirty'[a] = {}
         /\ \A b \in Apps \ {a} : entries'[b] = entries[b] /\ dirty'[b] = dirty[b]
<1>0. TypeOK
  BY DEF TypeInv
<1>1. /\ crashes < MaxCrashes /\ crashes' = crashes + 1
      /\ unsaved' = unsaved \cup dirty[a] \cup
                      {s \in Schedules : entries[a][s] # None /\ entries[a][s].ran}
      /\ pc' = [pc EXCEPT ![a] = "down"]
      /\ entries' = [entries EXCEPT ![a] = NoEntries]
      /\ dirty' = [dirty EXCEPT ![a] = {}]
      /\ UNCHANGED <<schedules, wanted, homes, sent, early, polled, sleep, edits, failures>>
  BY DEF Crash
<1>2. TypeOK'
  <2>1. NoEntries \in [Schedules -> Entry \cup {None}]
    BY DEF NoEntries
  <2>2. entries' \in [Apps -> [Schedules -> Entry \cup {None}]]
    BY <1>0, <1>1, <2>1 DEF TypeOK
  <2>3. /\ pc' \in [Apps -> {"down", "asleep", "tick", "write"}]
        /\ dirty' \in [Apps -> SUBSET Schedules] /\ unsaved' \subseteq Schedules
    BY <1>0, <1>1 DEF TypeOK
  <2>4. crashes' \in 0 .. MaxCrashes
    BY <1>0, <1>1, BeatAssumption DEF TypeOK
  <2> QED BY <1>0, <1>1, <2>2, <2>3, <2>4 DEF TypeOK
<1>3. /\ pc'[a] = "down" /\ entries'[a] = NoEntries /\ dirty'[a] = {}
      /\ \A b \in Apps \ {a} : /\ pc'[b] = pc[b] /\ entries'[b] = entries[b]
                               /\ dirty'[b] = dirty[b]
  BY <1>0, <1>1 DEF TypeOK
<1>4. PhaseOf(a)'
  BY <1>3 DEF PhaseOf, NothingRan, NoEntries
<1> QED BY <1>1, <1>2, <1>3, <1>4, OtherPhases DEF TypeInv

(* Time makes everything that has an age older by one, or leaves it at the last age. *)
LEMMA ElapseEffect ==
  ASSUME TypeOK, Elapse
  PROVE  /\ \A a \in Apps : pc[a] = "down" \/ (pc[a] = "asleep" /\ sleep[a] > 0)
         /\ \A a \in Apps : sleep'[a] = IF pc[a] = "down" THEN sleep[a] ELSE sleep[a] - 1
         /\ \A a \in Apps : polled'[a] = Older(polled[a])
         /\ \A s \in Schedules : sent'[s] = Older(sent[s])
         /\ \A s \in Schedules : schedules[s] # NoRow =>
              /\ schedules[s] \in Row
              /\ schedules'[s] = [schedules[s] EXCEPT !.age = Older(@)]
         /\ \A s \in Schedules : schedules[s] = NoRow => schedules'[s] = NoRow
         /\ \A a \in Apps, s \in Schedules : entries[a][s] # None =>
              /\ entries[a][s] \in Entry
              /\ entries'[a][s] = [entries[a][s] EXCEPT !.age = Older(@)]
         /\ \A a \in Apps, s \in Schedules : entries[a][s] = None => entries'[a][s] = None
         /\ UNCHANGED <<wanted, homes, pc, dirty, early, unsaved, edits, failures, crashes>>
<1>1. /\ \A a \in Apps : pc[a] = "down" \/ (pc[a] = "asleep" /\ sleep[a] > 0)
      /\ \A a \in Apps : sleep'[a] = IF pc[a] = "down" THEN sleep[a] ELSE sleep[a] - 1
      /\ \A a \in Apps : polled'[a] = Older(polled[a])
      /\ \A s \in Schedules : sent'[s] = Older(sent[s])
      /\ UNCHANGED <<wanted, homes, pc, dirty, early, unsaved, edits, failures, crashes>>
  BY DEF Elapse, bounds
<1>2. \A s \in Schedules : schedules[s] # NoRow =>
        /\ schedules[s] \in Row
        /\ schedules'[s] = [schedules[s] EXCEPT !.age = Older(@)]
  BY DEF Elapse, TypeOK
<1>3. \A s \in Schedules : schedules[s] = NoRow => schedules'[s] = NoRow
  BY DEF Elapse
<1>4. \A a \in Apps, s \in Schedules : entries[a][s] # None =>
        /\ entries[a][s] \in Entry
        /\ entries'[a][s] = [entries[a][s] EXCEPT !.age = Older(@)]
  BY DEF Elapse, TypeOK
<1>5. \A a \in Apps, s \in Schedules : entries[a][s] = None => entries'[a][s] = None
  BY DEF Elapse
<1> QED BY <1>1, <1>2, <1>3, <1>4, <1>5

LEMMA OlderRow ==
  ASSUME NEW row \in Row
  PROVE  LET older == [row EXCEPT !.age = Older(@)]
         IN  older \in Row /\ older.def = row.def /\ older.age = Older(row.age)
<1>1. row.def \in Defs /\ Older(row.age) \in Opt(Ages)
  BY OlderAge DEF Row
<1> QED BY <1>1 DEF Row

LEMMA OlderEntry ==
  ASSUME NEW entry \in Entry
  PROVE  LET older == [entry EXCEPT !.age = Older(@)]
         IN  /\ older \in Entry /\ older.ran = entry.ran /\ older.def = entry.def
             /\ older.age = Older(entry.age)
<1>1. Older(entry.age) \in Ages
  <2>1. entry.age \in Opt(Ages) /\ entry.age # None
    BY ZeroIsAge DEF Entry, Opt
  <2> QED BY <2>1, OlderAge
<1> QED BY <1>1 DEF Entry

LEMMA ElapseType ==
  ASSUME TypeInv, Elapse
  PROVE  TypeInv'
<1>0. TypeOK /\ Phases
  BY DEF TypeInv
<1>1. /\ \A a \in Apps : pc[a] = "down" \/ (pc[a] = "asleep" /\ sleep[a] > 0)
      /\ \A a \in Apps : sleep'[a] = IF pc[a] = "down" THEN sleep[a] ELSE sleep[a] - 1
      /\ \A a \in Apps : polled'[a] = Older(polled[a])
      /\ UNCHANGED <<wanted, homes, pc, dirty, early, unsaved, edits, failures, crashes>>
  BY <1>0, ElapseEffect
<1>2. \A a \in Apps : polled'[a] \in Ages /\ polled'[a] <= polled[a] + 1
  <2> TAKE a \in Apps
  <2>1. polled[a] \in Opt(Ages) /\ polled[a] # None
    BY <1>0, ZeroIsAge DEF TypeOK, Opt
  <2> QED BY <2>1, <1>1, OlderAge
<1>3. polled' \in [Apps -> Ages]
  <2>1. polled' = [a \in Apps |-> Older(polled[a])]
    BY DEF Elapse
  <2> QED BY <2>1, <1>1, <1>2
<1>4. sleep' \in [Apps -> 0 .. MaxSleep]
  <2>1. sleep' = [a \in Apps |-> sleep'[a]]
    BY DEF Elapse
  <2>2. \A a \in Apps : sleep'[a] \in 0 .. MaxSleep
    <3> TAKE a \in Apps
    <3>1. sleep[a] \in 0 .. MaxSleep /\ MaxSleep \in Nat
      BY <1>0, BeatAssumption DEF TypeOK
    <3> QED BY <3>1, <1>1
  <2> QED BY <2>1, <2>2
<1>5. sent' \in [Schedules -> Opt(Ages)]
  <2>1. \A s \in Schedules : Older(sent[s]) \in Opt(Ages)
    BY <1>0, OlderAge DEF TypeOK
  <2> QED BY <2>1 DEF Elapse
<1>6. schedules' \in [Schedules -> Row \cup {NoRow}]
  <2>1. schedules' = [s \in Schedules |-> schedules'[s]]
    BY DEF Elapse
  <2>2. \A s \in Schedules : schedules'[s] \in Row \cup {NoRow}
    <3> TAKE s \in Schedules
    <3>1. CASE schedules[s] = NoRow
      BY <3>1, <1>0, ElapseEffect
    <3>2. CASE schedules[s] # NoRow
      <4>1. /\ schedules[s] \in Row
            /\ schedules'[s] = [schedules[s] EXCEPT !.age = Older(@)]
        BY <3>2, <1>0, ElapseEffect
      <4> QED BY <4>1, OlderRow
    <3> QED BY <3>1, <3>2
  <2> QED BY <2>1, <2>2
<1>7. entries' \in [Apps -> [Schedules -> Entry \cup {None}]]
  <2>1. entries' = [a \in Apps |-> entries'[a]]
    BY DEF Elapse
  <2>2. \A a \in Apps : entries'[a] = [s \in Schedules |-> entries'[a][s]]
    BY DEF Elapse
  <2>3. ASSUME NEW a \in Apps, NEW s \in Schedules PROVE entries'[a][s] \in Entry \cup {None}
    <3>1. CASE entries[a][s] = None
      BY <3>1, <1>0, ElapseEffect
    <3>2. CASE entries[a][s] # None
      <4>1. /\ entries[a][s] \in Entry
            /\ entries'[a][s] = [entries[a][s] EXCEPT !.age = Older(@)]
        BY <3>2, <1>0, ElapseEffect
      <4> QED BY <4>1, OlderEntry
    <3> QED BY <3>1, <3>2
  <2> QED BY <2>1, <2>2, <2>3
<1>8. TypeOK'
  BY <1>0, <1>1, <1>3, <1>4, <1>5, <1>6, <1>7 DEF TypeOK
<1>9. ASSUME NEW a \in Apps PROVE PhaseOf(a)'
  <2>1. PhaseOf(a) /\ pc[a] \in {"down", "asleep"}
    BY <1>0, <1>1 DEF Phases
  <2>2. \A s \in Schedules : entries'[a][s] # None =>
          entries[a][s] # None /\ entries'[a][s].ran = entries[a][s].ran
    <3> TAKE s \in Schedules
    <3> HAVE entries'[a][s] # None
    <3>1. entries[a][s] # None
      BY <1>0, ElapseEffect
    <3>2. /\ entries[a][s] \in Entry
          /\ entries'[a][s] = [entries[a][s] EXCEPT !.age = Older(@)]
      BY <3>1, <1>0, ElapseEffect
    <3> QED BY <3>1, <3>2, OlderEntry
  <2>3. NothingRan(a)'
    BY <2>1, <2>2 DEF PhaseOf, NothingRan
  <2>4. pc[a] = "asleep" => polled'[a] + sleep'[a] <= RefreshInterval + MaxSleep
    <3> SUFFICES ASSUME pc[a] = "asleep"
                 PROVE  polled'[a] + sleep'[a] <= RefreshInterval + MaxSleep
      OBVIOUS
    <3>1. sleep'[a] = sleep[a] - 1 /\ polled'[a] <= polled[a] + 1
      BY <1>1, <1>2
    <3>2. polled[a] + sleep[a] <= RefreshInterval + MaxSleep
      BY <2>1 DEF PhaseOf
    <3>3. /\ polled[a] \in Nat /\ polled'[a] \in Nat /\ sleep[a] \in Int
          /\ RefreshInterval \in Nat /\ MaxSleep \in Nat
      BY <1>0, <1>2, BeatAssumption, ZeroIsAge DEF TypeOK
    <3> QED BY <3>1, <3>2, <3>3
  <2>5. dirty'[a] = {}
    BY <1>1, <2>1 DEF PhaseOf
  <2> QED BY <1>1, <2>1, <2>3, <2>4, <2>5 DEF PhaseOf
<1> QED BY <1>8, <1>9 DEF TypeInv, Phases

LEMMA NextType == TypeInv /\ [Next]_vars => TypeInv'
<1> SUFFICES ASSUME TypeInv, [Next]_vars PROVE TypeInv'
  OBVIOUS
<1>1. ASSUME NEW s \in Schedules, (\E def \in Defs : Save(s, def)) \/ Delete(s)
      PROVE  TypeInv'
  BY <1>1, EditType
<1>2. ASSUME NEW a \in Apps, Start(a) \/ Wake(a) PROVE TypeInv'
  BY <1>2, BeginType
<1>3. ASSUME NEW a \in Apps, Tick(a) PROVE TypeInv'
  BY <1>3, TickType
<1>4. ASSUME NEW a \in Apps, Writeback(a) PROVE TypeInv'
  BY <1>4, WritebackType
<1>5. ASSUME NEW a \in Apps, NEW s \in Schedules, StoreSchedule(a, s) PROVE TypeInv'
  BY <1>5, StoreType
<1>6. ASSUME NEW a \in Apps, Crash(a) PROVE TypeInv'
  BY <1>6, CrashType
<1>7. CASE Elapse
  BY <1>7, ElapseType
<1>8. CASE UNCHANGED vars
  BY <1>8 DEF TypeInv, TypeOK, Phases, PhaseOf, NothingRan, vars, beatVars, historyVars, bounds
<1> QED BY <1>1, <1>2, <1>3, <1>4, <1>5, <1>6, <1>7, <1>8 DEF Next, BeatStep

LEMMA TypeInvHolds == Spec => []TypeInv
BY InitType, NextType, PTL DEF Spec

-----------------------------------------------------------------------------
(* Rows and copies stay with the apps they were given to.  t is any schedule. *)

LEMMA EditHome ==
  ASSUME TypeInv, AtHome, NEW s \in Schedules,
         (\E def \in Defs : Save(s, def)) \/ Delete(s), NEW t \in Schedules
  PROVE  /\ RowHome(t)' /\ \A a \in Apps : EntryHome(a, t)'
         /\ homes[t] \subseteq homes'[t]
<1>0. TypeOK /\ RowHome(t) /\ \A a \in Apps : EntryHome(a, t)
  BY DEF TypeInv, AtHome
<1>1. entries' = entries
  BY DEF Save, Delete, Edit, beatVars
<1>2. ASSUME NEW def \in Defs, Save(s, def) PROVE homes[t] \subseteq homes'[t] /\ RowHome(t)'
  <2>1. def # None
    BY BeatAssumption
  <2>2. /\ schedules' = [schedules EXCEPT ![s] = [def |-> def, age |-> None]]
        /\ homes' = [homes EXCEPT ![s] = @ \cup {AppOf[def]}]
    BY <1>2, <2>1 DEF Save, Edit
  <2> QED BY <1>0, <2>2 DEF TypeOK, RowHome
<1>3. ASSUME Delete(s) PROVE homes[t] \subseteq homes'[t] /\ RowHome(t)'
  BY <1>0, <1>3 DEF Delete, Edit, TypeOK, RowHome
<1> QED BY <1>0, <1>1, <1>2, <1>3 DEF EntryHome

LEMMA BeginHome ==
  ASSUME TypeInv, AtHome, NEW a \in Apps, Start(a) \/ Wake(a)
  PROVE  AtHome'
<1>0. TypeOK
  BY DEF TypeInv
<1>1. CASE UNCHANGED <<schedules, homes, entries>>
  BY <1>1 DEF AtHome, RowHome, EntryHome
<1>2. CASE Refresh(a)
  <2>1. UNCHANGED <<schedules, homes>>
    BY <1>0, <1>2, RefreshEffect
  <2>2. PICK copy \in [Schedules -> Entry \cup {None}] :
          entries' = [entries EXCEPT ![a] = copy] /\ (copy = entries[a] \/ Read(a, copy))
    BY <1>0, <1>2, RefreshEffect
  <2>3. entries'[a] = copy /\ \A b \in Apps \ {a} : entries'[b] = entries[b]
    BY <1>0, <2>2 DEF TypeOK
  <2>4. ASSUME NEW s \in Schedules, copy[s] # None, Read(a, copy)
        PROVE  AppOf[copy[s].def] = a /\ a \in homes[s]
    <3>1. /\ schedules[s] \in Row /\ copy[s] = BuildEntry(schedules[s])
          /\ schedules[s] # NoRow /\ AppOf[schedules[s].def] = a
      BY <1>0, <2>4 DEF Read, TypeOK
    <3> QED BY <3>1, BuiltEntry DEF AtHome, RowHome
  <2>5. \A s \in Schedules : EntryHome(a, s)'
    BY <2>1, <2>2, <2>3, <2>4 DEF AtHome, EntryHome
  <2> QED BY <2>1, <2>3, <2>5 DEF AtHome, RowHome, EntryHome
<1> QED BY <1>0, <1>1, <1>2, BeginEffect

LEMMA TickHome ==
  ASSUME TypeInv, AtHome, NEW a \in Apps, Tick(a)
  PROVE  AtHome'
<1>0. TypeOK /\ UNCHANGED <<schedules, homes>>
  BY TickEffect DEF TypeInv
<1>1. CASE UNCHANGED entries
  BY <1>0, <1>1 DEF AtHome, RowHome, EntryHome
<1>2. ASSUME NEW s \in Schedules, s \in Due(a), NEW entry, entry.def = entries[a][s].def,
             entries' = [entries EXCEPT ![a] = [@ EXCEPT ![s] = entry]]
      PROVE  AtHome'
  <2>1. /\ entries'[a][s] = entry /\ entries[a][s] # None
        /\ \A b \in Apps, t \in Schedules : b # a \/ t # s => entries'[b][t] = entries[b][t]
    BY <1>0, <1>2 DEF TypeOK, Due
  <2> QED BY <1>0, <1>2, <2>1 DEF AtHome, RowHome, EntryHome
<1> QED BY <1>1, <1>2, TickEffect

LEMMA WritebackHome ==
  ASSUME TypeInv, AtHome, NEW a \in Apps, Writeback(a)
  PROVE  AtHome'
<1>0. TypeOK
  BY DEF TypeInv
<1>1. /\ UNCHANGED <<schedules, homes>>
      /\ \A b \in Apps \ {a} : entries'[b] = entries[b]
      /\ dirty'[a] = {s \in Schedules : entries[a][s] # None /\ entries[a][s].ran}
  BY <1>0, WritebackEffect
<1>2. \A s \in Schedules : IF s \in dirty'[a] THEN entries'[a][s].def = entries[a][s].def
                                                 ELSE entries'[a][s] = entries[a][s]
  BY <1>0, WritebackEffect
<1>3. \A s \in Schedules : EntryHome(a, s)'
  BY <1>1, <1>2 DEF AtHome, EntryHome
<1> QED BY <1>1, <1>3 DEF AtHome, RowHome, EntryHome

LEMMA StoreHome ==
  ASSUME TypeInv, AtHome, NEW a \in Apps, NEW s \in Schedules, StoreSchedule(a, s)
  PROVE  AtHome'
<1>1. entries[a][s] \in Entry /\ UNCHANGED <<homes, entries>>
  BY StoreEffect
<1>2. AppOf[entries[a][s].def] = a /\ a \in homes[s]
  BY <1>1, NothingAssumption DEF AtHome, EntryHome
<1>3. \A t \in Schedules : \/ schedules'[t] = schedules[t]
                           \/ t = s /\ schedules'[t].def = entries[a][s].def
  <2>1. CASE /\ schedules'[s] = [def |-> entries[a][s].def, age |-> entries[a][s].age]
             /\ \A t \in Schedules \ {s} : schedules'[t] = schedules[t]
    <3>1. schedules'[s].def = entries[a][s].def
      BY <2>1
    <3> QED BY <2>1, <3>1
  <2>2. CASE UNCHANGED schedules
    BY <2>2
  <2> QED BY <2>1, <2>2, StoreEffect
<1> QED BY <1>1, <1>2, <1>3 DEF AtHome, RowHome, EntryHome

LEMMA ElapseHome ==
  ASSUME TypeInv, AtHome, Elapse
  PROVE  AtHome'
<1>0. TypeOK /\ homes' = homes
  BY ElapseEffect DEF TypeInv
<1>1. ASSUME NEW s \in Schedules PROVE RowHome(s)'
  <2>1. schedules[s] = NoRow => schedules'[s] = NoRow
    BY <1>0, ElapseEffect
  <2>2. schedules[s] # NoRow => schedules'[s].def = schedules[s].def
    <3>1. schedules[s] # NoRow => /\ schedules[s] \in Row
                                  /\ schedules'[s] = [schedules[s] EXCEPT !.age = Older(@)]
      BY <1>0, ElapseEffect
    <3> QED BY <3>1, OlderRow
  <2> QED BY <1>0, <2>1, <2>2 DEF AtHome, RowHome
<1>2. ASSUME NEW a \in Apps, NEW s \in Schedules PROVE EntryHome(a, s)'
  <2>1. entries[a][s] = None => entries'[a][s] = None
    BY <1>0, ElapseEffect
  <2>2. entries[a][s] # None => entries'[a][s].def = entries[a][s].def
    <3>1. entries[a][s] # None =>
            /\ entries[a][s] \in Entry
            /\ entries'[a][s] = [entries[a][s] EXCEPT !.age = Older(@)]
      BY <1>0, ElapseEffect
    <3> QED BY <3>1, OlderEntry
  <2> QED BY <1>0, <2>1, <2>2 DEF AtHome, EntryHome
<1> QED BY <1>1, <1>2 DEF AtHome

LEMMA NextHome ==
  ASSUME TypeInv, AtHome, [Next]_vars
  PROVE  AtHome'
<1>1. ASSUME NEW s \in Schedules, (\E def \in Defs : Save(s, def)) \/ Delete(s) PROVE AtHome'
  BY <1>1, EditHome DEF AtHome
<1>2. ASSUME NEW a \in Apps, Start(a) \/ Wake(a) PROVE AtHome'
  BY <1>2, BeginHome
<1>3. ASSUME NEW a \in Apps, Tick(a) PROVE AtHome'
  BY <1>3, TickHome
<1>4. ASSUME NEW a \in Apps, Writeback(a) PROVE AtHome'
  BY <1>4, WritebackHome
<1>5. ASSUME NEW a \in Apps, NEW s \in Schedules, StoreSchedule(a, s) PROVE AtHome'
  BY <1>5, StoreHome
<1>6. ASSUME NEW a \in Apps, Crash(a) PROVE AtHome'
  <2>1. entries'[a] = NoEntries /\ \A b \in Apps \ {a} : entries'[b] = entries[b]
    BY <1>6, CrashType
  <2>2. UNCHANGED <<schedules, homes>>
    BY <1>6 DEF Crash
  <2> QED BY <2>1, <2>2 DEF AtHome, RowHome, EntryHome, NoEntries
<1>7. CASE Elapse
  BY <1>7, ElapseHome
<1>8. CASE UNCHANGED vars
  BY <1>8 DEF AtHome, RowHome, EntryHome, vars, beatVars, historyVars
<1> QED BY <1>1, <1>2, <1>3, <1>4, <1>5, <1>6, <1>7, <1>8 DEF Next, BeatStep

(* One beat at most has copies, and run states to write back, of a schedule that was
   never handed over. *)
LEMMA OneHome ==
  ASSUME TypeInv, AtHome, NEW t \in Schedules, t \notin HandedOver,
         NEW a \in Apps, a \in homes[t], NEW b \in Apps, b # a
  PROVE  entries[b][t] = None /\ ~ Pending(b, t)
<1>1. b \notin homes[t]
  BY DEF HandedOver
<1>2. entries[b][t] = None
  BY <1>1 DEF AtHome, EntryHome
<1>3. t \notin dirty[b]
  BY <1>2 DEF TypeInv, Phases, PhaseOf
<1> QED BY <1>2, <1>3 DEF Pending

-----------------------------------------------------------------------------
(* Run states.  In each lemma t is any schedule. *)

LEMMA EditKeeps ==
  ASSUME TypeInv, AtHome, NEW s \in Schedules,
         (\E def \in Defs : Save(s, def)) \/ Delete(s), NEW t \in Schedules, Kept(t)
  PROVE  Kept(t)'
<1>1. UNCHANGED <<entries, dirty, sent, unsaved>>
  BY DEF Save, Delete, Edit, beatVars
<1>2. schedules'[t] = schedules[t] \/ schedules'[t] = NoRow \/ schedules'[t].age = None
  BY DEF Save, Delete, TypeInv, TypeOK
<1>3. t \in HandedOver => t \in HandedOver'
  BY EditHome DEF HandedOver
<1> QED BY <1>1, <1>2, <1>3 DEF Kept, RowKept, EntryKept, Pending

(* A beat that is down or asleep has written back what it could. *)
LEMMA IdleHasNothing ==
  ASSUME TypeInv, NEW a \in Apps, pc[a] \in {"down", "asleep", "tick"}, NEW t \in Schedules
  PROVE  ~ Pending(a, t)
BY DEF TypeInv, Phases, PhaseOf, NothingRan, Pending

LEMMA BeginKeeps ==
  ASSUME TypeInv, AtHome, NEW a \in Apps, Start(a) \/ Wake(a), NEW t \in Schedules, Kept(t)
  PROVE  Kept(t)'
<1>0. TypeOK
  BY DEF TypeInv
<1>1. CASE UNCHANGED <<schedules, homes, sent, unsaved, entries, dirty>>
  BY <1>1 DEF Kept, RowKept, EntryKept, Pending, HandedOver
<1>2. CASE Refresh(a)
  <2>1. UNCHANGED <<schedules, homes, sent, unsaved, dirty>>
    BY <1>0, <1>2, RefreshEffect
  <2>2. PICK copy \in [Schedules -> Entry \cup {None}] :
          entries' = [entries EXCEPT ![a] = copy] /\ (copy = entries[a] \/ Read(a, copy))
    BY <1>0, <1>2, RefreshEffect
  <2>3. SUFFICES ASSUME t \notin unsaved, t \notin HandedOver, sent[t] # None
                 PROVE  RowKept(t)' /\ \A b \in Apps : EntryKept(b, t)'
    BY <2>1 DEF Kept, HandedOver
  <2>4. RowKept(t) /\ \A b \in Apps : EntryKept(b, t)
    BY <2>3 DEF Kept
  <2>5. ~ Pending(a, t)
    BY <1>0, BeginEffect, IdleHasNothing
  <2>6. sent[t] \in Ages /\ 0 <= sent[t]
    BY <1>0, <2>3, ZeroIsAge DEF TypeOK, Opt
  <2>7. copy[t] # None => copy[t].age <= sent[t]
    <3>1. CASE copy = entries[a]
      BY <3>1, <2>4 DEF EntryKept
    <3>2. ASSUME Read(a, copy), copy[t] # None PROVE copy[t].age <= sent[t]
      <4>1. /\ schedules[t] # NoRow /\ schedules[t] \in Row
            /\ copy[t] = BuildEntry(schedules[t]) /\ AppOf[schedules[t].def] = a
        BY <3>2, <1>0 DEF Read, TypeOK
      <4>2. copy[t].age = IF schedules[t].age = None THEN 0 ELSE schedules[t].age
        BY <4>1, BuiltEntry
      <4>3. a \in homes[t]
        BY <4>1 DEF AtHome, RowHome
      <4>4. \A b \in Apps : ~ Pending(b, t)
        BY <2>3, <2>5, <4>3, OneHome
      <4>5. schedules[t].age # None => schedules[t].age <= sent[t]
        BY <2>4, <4>1, <4>4 DEF RowKept
      <4> QED BY <4>2, <4>5, <2>6
    <3> QED BY <2>2, <3>1, <3>2
  <2>8. entries'[a] = copy /\ \A b \in Apps \ {a} : entries'[b] = entries[b]
    BY <1>0, <2>2 DEF TypeOK
  <2>9. \A b \in Apps : EntryKept(b, t)'
    BY <2>1, <2>4, <2>7, <2>8 DEF EntryKept
  <2>10. \A b \in Apps : Pending(b, t) => Pending(b, t)'
    BY <2>1, <2>5, <2>8 DEF Pending
  <2>11. RowKept(t)'
    BY <2>1, <2>4, <2>10 DEF RowKept
  <2> QED BY <2>9, <2>11
<1> QED BY <1>0, <1>1, <1>2, BeginEffect

LEMMA TickKeeps ==
  ASSUME TypeInv, AtHome, RunStatesKept, NoDoubleRun, NEW a \in Apps, Tick(a)
  PROVE  RunStatesKept' /\ NoDoubleRun'
<1>0. TypeOK
  BY DEF TypeInv
<1>1. UNCHANGED <<schedules, unsaved, dirty>> /\ HandedOver' = HandedOver
  BY TickEffect DEF HandedOver
<1>2. CASE UNCHANGED <<entries, sent, early>>
  BY <1>1, <1>2 DEF RunStatesKept, Kept, RowKept, EntryKept, Pending, NoDoubleRun
<1>3. ASSUME NEW s \in Schedules, s \in Due(a),
             \E entry \in Entry :
               /\ entry.age = 0 /\ entry.ran
               /\ entries' = [entries EXCEPT ![a] = [@ EXCEPT ![s] = entry]],
             sent' = [sent EXCEPT ![s] = 0],
             early' = IF sent[s] # None /\ sent[s] < PeriodOf[entries[a][s].def]
                      THEN early \cup {s} ELSE early
      PROVE  RunStatesKept' /\ NoDoubleRun'
  <2>1. PICK entry \in Entry :
          /\ entry.age = 0 /\ entry.ran
          /\ entries' = [entries EXCEPT ![a] = [@ EXCEPT ![s] = entry]]
    BY <1>3
  <2>2. /\ entries'[a][s] = entry /\ sent'[s] = 0
        /\ \A t \in Schedules \ {s} : sent'[t] = sent[t]
        /\ \A b \in Apps, t \in Schedules : b # a \/ t # s => entries'[b][t] = entries[b][t]
    BY <1>0, <1>3, <2>1 DEF TypeOK
  <2>3. entries[a][s] # None /\ a \in homes[s]
    BY <1>3 DEF Due, AtHome, EntryHome
  <2>4. Kept(s)'
    <3> SUFFICES ASSUME s \notin HandedOver PROVE RowKept(s)' /\ \A b \in Apps : EntryKept(b, s)'
      BY <1>1 DEF Kept
    <3>1. EntryKept(a, s)'
      <4>1. 0 <= 0
        OBVIOUS
      <4> QED BY <4>1, <2>1, <2>2 DEF EntryKept
    <3>2. ASSUME NEW b \in Apps, b # a PROVE EntryKept(b, s)'
      <4>1. entries[b][s] = None
        BY <2>3, <3>2, OneHome
      <4> QED BY <4>1, <2>2, <3>2 DEF EntryKept
    <3>3. Pending(a, s)'
      <4>1. entry # None
        BY NothingAssumption
      <4> QED BY <4>1, <2>1, <2>2 DEF Pending
    <3> QED BY <3>1, <3>2, <3>3 DEF RowKept
  <2>5. ASSUME NEW t \in Schedules, t # s PROVE Kept(t)'
    <3>1. Kept(t)
      BY DEF RunStatesKept
    <3>2. (\A b \in Apps : entries'[b][t] = entries[b][t]) /\ sent'[t] = sent[t]
      BY <2>2, <2>5
    <3>3. \A b \in Apps : (EntryKept(b, t)' <=> EntryKept(b, t)) /\ (Pending(b, t)' <=> Pending(b, t))
      BY <1>1, <3>2 DEF EntryKept, Pending
    <3>4. RowKept(t)' <=> RowKept(t)
      BY <1>1, <3>2, <3>3 DEF RowKept
    <3> QED BY <1>1, <3>1, <3>2, <3>3, <3>4 DEF Kept
  <2>6. NoDoubleRun'
    <3> SUFFICES ASSUME s \notin unsaved, s \notin HandedOver, sent[s] # None
                 PROVE  ~ (sent[s] < PeriodOf[entries[a][s].def])
      BY <1>1, <1>3 DEF NoDoubleRun
    <3>1. entries[a][s] \in Entry /\ entries[a][s].age >= PeriodOf[entries[a][s].def]
      BY <1>0, <1>3 DEF Due, TypeOK
    <3>2. entries[a][s].age <= sent[s]
      <4>1. EntryKept(a, s)
        BY DEF RunStatesKept, Kept
      <4> QED BY <2>3, <4>1 DEF EntryKept
    <3>3. sent[s] \in Nat /\ entries[a][s].age \in Nat /\ PeriodOf[entries[a][s].def] \in Nat
      BY <1>0, <3>1, ZeroIsAge, BeatAssumption DEF TypeOK, Opt, Entry
    <3> QED BY <3>1, <3>2, <3>3
  <2> QED BY <2>4, <2>5, <2>6 DEF RunStatesKept
<1> QED BY <1>2, <1>3, TickEffect

LEMMA WritebackKeeps ==
  ASSUME TypeInv, NEW a \in Apps, Writeback(a), NEW t \in Schedules, Kept(t)
  PROVE  Kept(t)'
<1>0. TypeOK
  BY DEF TypeInv
<1>1. /\ dirty[a] = {}
      /\ UNCHANGED <<schedules, homes, sent, unsaved>>
      /\ \A b \in Apps \ {a} : entries'[b] = entries[b] /\ dirty'[b] = dirty[b]
      /\ dirty'[a] = {s \in Schedules : entries[a][s] # None /\ entries[a][s].ran}
  BY <1>0, WritebackEffect
<1>2. IF t \in dirty'[a]
      THEN /\ entries'[a][t] \in Entry /\ ~ entries'[a][t].ran
           /\ entries'[a][t].age = entries[a][t].age
      ELSE entries'[a][t] = entries[a][t]
  BY <1>0, WritebackEffect
<1>3. \A b \in Apps : Pending(b, t) => Pending(b, t)'
  BY <1>1 DEF Pending
<1>4. \A b \in Apps : EntryKept(b, t) => EntryKept(b, t)'
  <2> TAKE b \in Apps
  <2>1. CASE b = a
    <3>1. CASE t \in dirty'[a]
      <4>1. entries[a][t] # None /\ entries'[a][t].age = entries[a][t].age
        BY <1>1, <1>2, <3>1
      <4> QED BY <4>1, <1>1, <2>1 DEF EntryKept
    <3>2. CASE t \notin dirty'[a]
      BY <1>1, <1>2, <2>1, <3>2 DEF EntryKept
    <3> QED BY <3>1, <3>2
  <2>2. CASE b # a
    BY <1>1, <2>2 DEF EntryKept
  <2> QED BY <2>1, <2>2
<1>5. RowKept(t) => RowKept(t)'
  BY <1>1, <1>3 DEF RowKept
<1> QED BY <1>1, <1>4, <1>5 DEF Kept, HandedOver

LEMMA StoreKeeps ==
  ASSUME TypeInv, NEW a \in Apps, NEW s \in Schedules, StoreSchedule(a, s),
         NEW t \in Schedules, Kept(t)
  PROVE  Kept(t)'
<1>1. /\ entries[a][s] \in Entry
      /\ dirty'[a] = dirty[a] \ {s}
      /\ \A b \in Apps \ {a} : dirty'[b] = dirty[b]
      /\ UNCHANGED <<homes, sent, entries>>
  BY StoreEffect
<1>2. \A b \in Apps : EntryKept(b, t)' <=> EntryKept(b, t)
  BY <1>1 DEF EntryKept
<1>3. t # s => \A b \in Apps : Pending(b, t)' <=> Pending(b, t)
  BY <1>1 DEF Pending
<1>4. CASE unsaved' = unsaved \cup {s} /\ UNCHANGED schedules
  <2>1. t # s => (RowKept(t)' <=> RowKept(t))
    BY <1>1, <1>3, <1>4 DEF RowKept
  <2> QED BY <1>1, <1>2, <1>4, <2>1 DEF Kept, HandedOver
<1>5. CASE /\ schedules'[s] = [def |-> entries[a][s].def, age |-> entries[a][s].age]
           /\ \A k \in Schedules \ {s} : schedules'[k] = schedules[k]
           /\ UNCHANGED unsaved
  <2>1. CASE t # s
    <3>1. RowKept(t)' <=> RowKept(t)
      BY <1>1, <1>3, <1>5, <2>1 DEF RowKept
    <3> QED BY <1>1, <1>2, <1>5, <3>1 DEF Kept, HandedOver
  <2>2. CASE t = s
    <3>1. EntryKept(a, s) => RowKept(s)'
      <4>1. entries[a][s] # None /\ schedules'[s].age = entries[a][s].age
        BY <1>1, <1>5, NothingAssumption
      <4> QED BY <4>1, <1>1 DEF EntryKept, RowKept
    <3> QED BY <1>1, <1>2, <1>5, <2>2, <3>1 DEF Kept, HandedOver
  <2> QED BY <2>1, <2>2
<1> QED BY <1>4, <1>5, StoreEffect

LEMMA CrashKeeps ==
  ASSUME TypeInv, NEW a \in Apps, Crash(a), NEW t \in Schedules, Kept(t)
  PROVE  Kept(t)'
<1>1. /\ unsaved' = unsaved \cup dirty[a] \cup
                      {s \in Schedules : entries[a][s] # None /\ entries[a][s].ran}
      /\ UNCHANGED <<schedules, homes, sent>>
  BY DEF Crash
<1>2. /\ entries'[a] = NoEntries
      /\ \A b \in Apps \ {a} : entries'[b] = entries[b] /\ dirty'[b] = dirty[b]
  BY CrashType
<1>3. CASE t \in unsaved'
  BY <1>3 DEF Kept, HandedOver
<1>4. CASE t \notin unsaved'
  <2>1. t \notin unsaved /\ ~ Pending(a, t)
    BY <1>1, <1>4 DEF Pending
  <2>2. \A b \in Apps : EntryKept(b, t) => EntryKept(b, t)'
    BY <1>1, <1>2 DEF EntryKept, NoEntries
  <2>3. \A b \in Apps : Pending(b, t) => Pending(b, t)'
    BY <1>2, <2>1 DEF Pending
  <2>4. RowKept(t) => RowKept(t)'
    BY <1>1, <2>3 DEF RowKept
  <2> QED BY <1>1, <2>1, <2>2, <2>4 DEF Kept, HandedOver
<1> QED BY <1>3, <1>4

LEMMA ElapseKeeps ==
  ASSUME TypeInv, Elapse, NEW t \in Schedules, Kept(t)
  PROVE  Kept(t)'
<1>0. TypeOK
  BY DEF TypeInv
<1>1. sent'[t] = Older(sent[t]) /\ UNCHANGED <<homes, dirty, unsaved>>
  BY <1>0, ElapseEffect
<1>2. SUFFICES ASSUME t \notin unsaved, t \notin HandedOver, sent'[t] # None
               PROVE  RowKept(t)' /\ \A a \in Apps : EntryKept(a, t)'
  BY <1>1 DEF Kept, HandedOver
<1>3. sent[t] # None /\ sent[t] \in Ages
  <2>1. sent[t] \in Opt(Ages)
    BY <1>0 DEF TypeOK
  <2> QED BY <2>1, <1>1, <1>2, OlderAge DEF Opt
<1>4. RowKept(t) /\ \A a \in Apps : EntryKept(a, t)
  BY <1>2, <1>3 DEF Kept, HandedOver
<1>5. \A age \in Ages : age <= sent[t] => Older(age) <= sent'[t]
  <2> TAKE age \in Ages
  <2>1. age \in Opt(Ages) /\ age # None
    BY ZeroIsAge DEF Opt
  <2> QED BY <2>1, <1>1, <1>3, OlderAge
<1>6. ASSUME NEW a \in Apps PROVE EntryKept(a, t)' /\ (Pending(a, t) => Pending(a, t)')
  <2>1. CASE entries[a][t] = None
    <3>1. entries'[a][t] = None
      BY <1>0, <2>1, ElapseEffect
    <3> QED BY <1>1, <2>1, <3>1 DEF EntryKept, Pending
  <2>2. CASE entries[a][t] # None
    <3>1. entries[a][t] \in Entry /\ entries'[a][t] = [entries[a][t] EXCEPT !.age = Older(@)]
      BY <1>0, <2>2, ElapseEffect
    <3>2. /\ entries'[a][t] \in Entry /\ entries'[a][t].ran = entries[a][t].ran
          /\ entries'[a][t].age = Older(entries[a][t].age)
      BY <3>1, OlderEntry
    <3>3. entries[a][t].age \in Ages /\ entries[a][t].age <= sent[t]
      BY <1>4, <2>2, <3>1 DEF EntryKept, Entry
    <3>4. Older(entries[a][t].age) <= sent'[t]
      BY <1>5, <3>3
    <3>5. EntryKept(a, t)'
      BY <3>2, <3>4 DEF EntryKept
    <3>6. Pending(a, t) => Pending(a, t)'
      BY <1>1, <3>2, NothingAssumption DEF Pending
    <3> QED BY <3>5, <3>6
  <2> QED BY <2>1, <2>2
<1>7. RowKept(t)'
  <2>1. CASE schedules[t] = NoRow
    <3>1. schedules'[t] = NoRow
      BY <1>0, <2>1, ElapseEffect
    <3> QED BY <3>1 DEF RowKept
  <2>2. CASE schedules[t] # NoRow
    <3>1. schedules[t] \in Row /\ schedules'[t] = [schedules[t] EXCEPT !.age = Older(@)]
      BY <1>0, <2>2, ElapseEffect
    <3>2. schedules'[t].age = Older(schedules[t].age)
      BY <3>1, OlderRow
    <3>3. schedules[t].age \in Opt(Ages)
      BY <3>1 DEF Row
    <3>4. schedules'[t].age # None => schedules[t].age # None /\ schedules[t].age \in Ages
      BY <3>2, <3>3, OlderAge DEF Opt
    <3>5. schedules[t].age # None =>
            schedules[t].age <= sent[t] \/ \E a \in Apps : Pending(a, t)
      BY <1>4, <2>2 DEF RowKept
    <3>6. schedules'[t].age # None =>
            schedules'[t].age <= sent'[t] \/ \E a \in Apps : Pending(a, t)'
      BY <1>5, <1>6, <3>2, <3>4, <3>5
    <3> QED BY <3>6 DEF RowKept
  <2> QED BY <2>1, <2>2
<1> QED BY <1>6, <1>7

LEMMA NextKeeps ==
  ASSUME TypeInv, AtHome, RunStatesKept, NoDoubleRun, [Next]_vars
  PROVE  RunStatesKept' /\ NoDoubleRun'
<1>1. ASSUME NEW a \in Apps, Tick(a) PROVE RunStatesKept' /\ NoDoubleRun'
  BY <1>1, TickKeeps
<1>2. CASE ~ (\E a \in Apps : Tick(a))
  <2>1. NoDoubleRun'
    <3>1. early' = early /\ unsaved \subseteq unsaved'
      BY <1>2 DEF Next, BeatStep, Save, Delete, Edit, Start, Wake, Refresh, Writeback, StoreSchedule,
                  Crash, Elapse, vars, historyVars, bounds, beatVars
    <3>2. HandedOver \subseteq HandedOver'
      <4>1. CASE homes' = homes
        BY <4>1 DEF HandedOver
      <4>2. ASSUME NEW s \in Schedules, (\E def \in Defs : Save(s, def)) \/ Delete(s)
            PROVE  HandedOver \subseteq HandedOver'
        BY <4>2, EditHome DEF HandedOver
      <4> QED BY <4>1, <4>2 DEF Next, BeatStep, Start, Wake, Refresh, Tick, Writeback,
                              StoreSchedule, Crash, Elapse, vars, historyVars
    <3> QED BY <3>1, <3>2 DEF NoDoubleRun
  <2> SUFFICES ASSUME NEW t \in Schedules PROVE Kept(t)'
    BY <2>1 DEF RunStatesKept
  <2>2. Kept(t)
    BY DEF RunStatesKept
  <2>3. ASSUME NEW s \in Schedules, (\E def \in Defs : Save(s, def)) \/ Delete(s) PROVE Kept(t)'
    BY <2>2, <2>3, EditKeeps
  <2>4. ASSUME NEW a \in Apps, Start(a) \/ Wake(a) PROVE Kept(t)'
    BY <2>2, <2>4, BeginKeeps
  <2>5. ASSUME NEW a \in Apps, Writeback(a) PROVE Kept(t)'
    BY <2>2, <2>5, WritebackKeeps
  <2>6. ASSUME NEW a \in Apps, NEW s \in Schedules, StoreSchedule(a, s) PROVE Kept(t)'
    BY <2>2, <2>6, StoreKeeps
  <2>7. ASSUME NEW a \in Apps, Crash(a) PROVE Kept(t)'
    BY <2>2, <2>7, CrashKeeps
  <2>8. CASE Elapse
    BY <2>2, <2>8, ElapseKeeps
  <2>9. CASE UNCHANGED vars
    BY <2>2, <2>9 DEF Kept, RowKept, EntryKept, Pending, HandedOver, vars, beatVars, historyVars
  <2> QED BY <1>2, <2>3, <2>4, <2>5, <2>6, <2>7, <2>8, <2>9 DEF Next, BeatStep
<1> QED BY <1>1, <1>2

-----------------------------------------------------------------------------
(* Theorems *)

(* Every variable keeps its type, for any number of apps. *)
THEOREM TypeCorrect == Spec => []TypeOK
<1>1. TypeInv => TypeOK
  BY DEF TypeInv
<1> QED BY <1>1, TypeInvHolds, PTL

(* A running beat looks at the table in time, whatever fails or is edited. *)
THEOREM PolledOnTime == Spec => []PolledInTime
<1>1. TypeInv => PolledInTime
  <2> SUFFICES ASSUME TypeInv, NEW a \in Apps, pc[a] # "down"
               PROVE  polled[a] <= RefreshInterval + MaxSleep
    BY DEF PolledInTime
  <2>1. TypeOK /\ PhaseOf(a)
    BY DEF TypeInv, Phases
  <2>2. /\ polled[a] \in Nat /\ sleep[a] \in Nat
        /\ RefreshInterval \in Nat /\ MaxSleep \in Nat
    BY <2>1, ZeroIsAge, BeatAssumption DEF TypeOK
  <2>3. pc[a] \in {"asleep", "tick", "write"}
    BY <2>1 DEF TypeOK
  <2> QED BY <2>1, <2>2, <2>3 DEF PhaseOf
<1> QED BY <1>1, TypeInvHolds, PTL

(* No schedule is sent before its interval is over, however the reads, writes, edits,
   failures and restarts of any number of apps' beats interleave, unless a run state
   of it was lost or users handed it from one app to another. *)
THEOREM NothingRunsTwice == Spec => []NoDoubleRun
<1>1. Init => AtHome /\ RunStatesKept /\ NoDoubleRun
  BY DEF Init, AtHome, RowHome, EntryHome, NoEntries, RunStatesKept, Kept, NoDoubleRun
<1>2. TypeInv /\ AtHome /\ RunStatesKept /\ NoDoubleRun /\ [Next]_vars
      => AtHome' /\ RunStatesKept' /\ NoDoubleRun'
  BY NextHome, NextKeeps
<1> QED BY <1>1, <1>2, TypeInvHolds, PTL DEF Spec

-----------------------------------------------------------------------------
(* Schedule pages: moves keep schedules.  The names of schedules are assumed not
   to be numbers, so that no name is a key of another schedule. *)

NamesAreNoNumbers == Names \cap Keys = {}

KeyNames == [Keys -> Names \cup {None}]

(* What an id stands for: a name for itself, a key for the name of the periodic
   task that has or had it. *)
Fits(nm, id, name) == (id \in Names => name = id) /\ (id \in Keys => nm[id] = name)

CallSound(nm, c) ==
  /\ c \in BeatCall
  /\ c.do # "copy" => c.id \in Ids
  /\ c.do = "copy" => c.app \in BeatApps
  /\ c.do \in {"delete", "drop"} => c.why \in {"move", "delete"}
  /\ c.do \in {"store", "save"} => c.row \in TableRow /\ Fits(nm, c.id, c.row.name)

Takes(c) == c.why = "move" /\ c.do \in {"delete", "drop"}
Puts(c) == c.why = "move" /\ c.do = "store"

(* A request that takes a schedule away has yet to store it under the same id. *)
CallsSound(nm, s) ==
  /\ s \in Seq(BeatCall)
  /\ \A i \in 1 .. Len(s) : CallSound(nm, s[i])
  /\ \A i \in 1 .. Len(s) : Takes(s[i]) =>
       \E j \in 1 .. Len(s) : i < j /\ Puts(s[j]) /\ s[j].id = s[i].id

OnTheWay(name, s) == \E i \in 1 .. Len(s) : Puts(s[i]) /\ s[i].row.name = name

Types ==
  /\ scheduleRows \in [Ids -> TableRow \cup {None}]
  /\ periodicTasks \in [Keys -> Names \cup {None, "gone"}]
  /\ toCall \in [Users -> Seq(BeatCall)]

KeysSound(nm) ==
  \A k \in Keys : /\ periodicTasks[k] \in Names => nm[k] = periodicTasks[k]
                  /\ periodicTasks[k] = None => nm[k] = None
RowsSound(nm) == \A i \in Ids : scheduleRows[i] # None => Fits(nm, i, scheduleRows[i].name)

Sound(nm) == KeysSound(nm) /\ RowsSound(nm) /\ \A u \in Users : CallsSound(nm, toCall[u])

InTable(name) == \E i \in Ids : scheduleRows[i] # None /\ scheduleRows[i].name = name
InDjango(name) == name \in Names /\ \E k \in Keys : periodicTasks[k] = name

KeptSafe ==
  \A name \in kept : \/ InTable(name) \/ InDjango(name) \/ name \in broken
                     \/ \E u \in Users : OnTheWay(name, toCall[u])

ScheduleInv == Types /\ KeptSafe /\ \E nm \in KeyNames : Sound(nm)

-----------------------------------------------------------------------------
LEMMA SetToSeqTyped ==
  ASSUME NEW S, IsFiniteSet(S)
  PROVE  SetToSeq(S) \in Seq(S)
<1>1. ExistsBijection(1 .. Cardinality(S), S) /\ Cardinality(S) \in Nat
  BY FS_CountingElements, FS_CardinalityType
<1>2. \E f \in [1 .. Cardinality(S) -> S] : IsInjective(f)
  BY <1>1 DEF ExistsBijection, Bijection, Injection
<1>3. SetToSeq(S) \in [1 .. Cardinality(S) -> S]
  BY <1>2 DEF SetToSeq
<1> QED BY <1>1, <1>3

LEMMA TailSound ==
  ASSUME NEW nm, NEW s, CallsSound(nm, s), s # <<>>
  PROVE  /\ CallsSound(nm, Tail(s)) /\ CallSound(nm, Head(s))
         /\ Takes(Head(s)) => \E c \in BeatCall :
              /\ c.id = Head(s).id /\ CallSound(nm, c) /\ Puts(c)
              /\ OnTheWay(c.row.name, Tail(s))
         /\ \A name : OnTheWay(name, s) =>
              OnTheWay(name, Tail(s)) \/ (Puts(Head(s)) /\ Head(s).row.name = name)
<1>1. s \in Seq(BeatCall) /\ Len(s) \in Nat /\ Len(s) > 0
  BY DEF CallsSound
<1>2. /\ Tail(s) \in Seq(BeatCall) /\ Len(Tail(s)) = Len(s) - 1
      /\ \A i \in 1 .. Len(Tail(s)) : Tail(s)[i] = s[i + 1]
      /\ Head(s) = s[1] /\ 1 \in 1 .. Len(s)
  BY <1>1
<1>3. \A i \in 1 .. Len(Tail(s)) : i + 1 \in 1 .. Len(s)
  BY <1>1, <1>2
<1>4. \A j \in 1 .. Len(s) : 1 < j => j - 1 \in 1 .. Len(Tail(s)) /\ Tail(s)[j - 1] = s[j]
  BY <1>1, <1>2
<1>5. CallsSound(nm, Tail(s))
  <2>1. \A i \in 1 .. Len(Tail(s)) : CallSound(nm, Tail(s)[i])
    BY <1>2, <1>3 DEF CallsSound
  <2>2. ASSUME NEW i \in 1 .. Len(Tail(s)), Takes(Tail(s)[i])
        PROVE  \E j \in 1 .. Len(Tail(s)) : /\ i < j /\ Puts(Tail(s)[j])
                                            /\ Tail(s)[j].id = Tail(s)[i].id
    <3>1. i + 1 \in 1 .. Len(s) /\ Tail(s)[i] = s[i + 1]
      BY <1>2, <1>3
    <3>2. PICK j \in 1 .. Len(s) : i + 1 < j /\ Puts(s[j]) /\ s[j].id = s[i + 1].id
      BY <2>2, <3>1 DEF CallsSound
    <3>3. 1 < j /\ i < j - 1
      BY <3>2, <1>1, <1>2
    <3>4. j - 1 \in 1 .. Len(Tail(s)) /\ Tail(s)[j - 1] = s[j]
      BY <1>4, <3>3
    <3> QED BY <3>1, <3>2, <3>3, <3>4
  <2> QED BY <1>2, <2>1, <2>2 DEF CallsSound
<1>6. CallSound(nm, Head(s))
  BY <1>1, <1>2 DEF CallsSound
<1>7. ASSUME Takes(Head(s))
      PROVE  \E c \in BeatCall : /\ c.id = Head(s).id /\ CallSound(nm, c) /\ Puts(c)
                                 /\ OnTheWay(c.row.name, Tail(s))
  <2>1. PICK j \in 1 .. Len(s) : 1 < j /\ Puts(s[j]) /\ s[j].id = s[1].id
    BY <1>2, <1>7 DEF CallsSound
  <2>2. s[j] \in BeatCall /\ CallSound(nm, s[j])
    BY <1>1, <2>1 DEF CallsSound
  <2>3. OnTheWay(s[j].row.name, Tail(s))
    BY <1>4, <2>1 DEF OnTheWay
  <2> QED BY <1>2, <2>1, <2>2, <2>3
<1>8. ASSUME NEW name, OnTheWay(name, s)
      PROVE  OnTheWay(name, Tail(s)) \/ (Puts(Head(s)) /\ Head(s).row.name = name)
  <2>1. PICK i \in 1 .. Len(s) : Puts(s[i]) /\ s[i].row.name = name
    BY <1>8 DEF OnTheWay
  <2>2. CASE i = 1
    BY <1>2, <2>1, <2>2
  <2>3. CASE i # 1
    <3>1. i - 1 \in 1 .. Len(Tail(s)) /\ Tail(s)[i - 1] = s[i]
      BY <1>1, <1>4, <2>1, <2>3
    <3> QED BY <2>1, <3>1 DEF OnTheWay
  <2> QED BY <2>2, <2>3
<1> QED BY <1>5, <1>6, <1>7, <1>8

(* Calls that take nothing away, and then a sound rest. *)
LEMMA ConcatSound ==
  ASSUME NEW nm, NEW s \in Seq(BeatCall), NEW r, CallsSound(nm, r),
         \A i \in 1 .. Len(s) : CallSound(nm, s[i]) /\ ~Takes(s[i])
  PROVE  /\ CallsSound(nm, s \o r)
         /\ \A name : OnTheWay(name, r) => OnTheWay(name, s \o r)
<1> DEFINE q == s \o r
<1>1. r \in Seq(BeatCall) /\ Len(s) \in Nat /\ Len(r) \in Nat
  BY DEF CallsSound
<1>2. /\ q \in Seq(BeatCall) /\ Len(q) = Len(s) + Len(r)
      /\ \A i \in 1 .. Len(s) : q[i] = s[i]
      /\ \A i \in 1 .. Len(q) : ~(i <= Len(s)) => q[i] = r[i - Len(s)]
  BY <1>1
<1> HIDE DEF q
<1>3. \A i \in 1 .. Len(r) : i + Len(s) \in 1 .. Len(q) /\ q[i + Len(s)] = r[i]
  BY <1>1, <1>2
<1>4. \A i \in 1 .. Len(q) : i \in 1 .. Len(s) \/ (i - Len(s) \in 1 .. Len(r) /\ q[i] = r[i - Len(s)])
  BY <1>1, <1>2
<1>5. \A i \in 1 .. Len(q) : CallSound(nm, q[i])
  BY <1>2, <1>4 DEF CallsSound
<1>6. ASSUME NEW i \in 1 .. Len(q), Takes(q[i])
      PROVE  \E j \in 1 .. Len(q) : i < j /\ Puts(q[j]) /\ q[j].id = q[i].id
  <2>1. i - Len(s) \in 1 .. Len(r) /\ q[i] = r[i - Len(s)]
    BY <1>2, <1>4, <1>6
  <2>2. PICK j \in 1 .. Len(r) : i - Len(s) < j /\ Puts(r[j]) /\ r[j].id = r[i - Len(s)].id
    BY <1>6, <2>1 DEF CallsSound
  <2>3. i < j + Len(s)
    BY <1>1, <1>6, <2>1, <2>2
  <2> QED BY <1>3, <2>1, <2>2, <2>3
<1>7. \A name : OnTheWay(name, r) => OnTheWay(name, q)
  BY <1>3 DEF OnTheWay
<1> QED BY <1>2, <1>5, <1>6, <1>7 DEF CallsSound, q

(* The calls of a save, and those of a deletion. *)
Saves(nm, id, s) ==
  /\ s \in Seq(BeatCall) /\ Len(s) \in 1 .. 2 /\ s[Len(s)].do = "store"
  /\ \A i \in 1 .. Len(s) : CallSound(nm, s[i]) /\ ~Takes(s[i]) /\ s[i].id = id

LEMMA SaveCalls ==
  ASSUME NEW nm, NEW app \in BeatApps, NEW id \in Ids, NEW row \in TableRow, Fits(nm, id, row.name)
  PROVE  Saves(nm, id, SaveSchedule(app, id, row))
<1> DEFINE own == [row EXCEPT !.app = IF @ = None THEN app ELSE @]
<1>1. own \in TableRow /\ own.name = row.name
  BY DEF TableRow
<1>2. ASSUME NEW r \in TableRow, r.name = row.name, NEW do \in {"store", "save"}
      PROVE  LET c == ACall(do, id, r)
             IN  CallSound(nm, c) /\ ~Takes(c) /\ c.id = id /\ c.do = do /\ c \in BeatCall
  BY <1>2 DEF ACall, CallSound, BeatCall, Takes
<1> HIDE DEF own
<1>3. CASE DetectBackend(app) = "db"
  <2>1. SaveSchedule(app, id, row) = <<ACall("store", id, own)>>
    BY <1>3 DEF SaveSchedule, own
  <2> DEFINE c == ACall("store", id, own)
  <2>2. CallSound(nm, c) /\ ~Takes(c) /\ c.id = id /\ c.do = "store" /\ c \in BeatCall
    BY <1>1, <1>2
  <2> HIDE DEF c
  <2>3. SaveSchedule(app, id, row) = <<c>>
    BY <2>1 DEF c
  <2> QED BY <2>2, <2>3 DEF Saves
<1>4. CASE DetectBackend(app) # "db"
  <2>1. SaveSchedule(app, id, row) = <<ACall("save", id, row), ACall("store", id, row)>>
    BY <1>4 DEF SaveSchedule
  <2> DEFINE a == ACall("save", id, row)
             b == ACall("store", id, row)
  <2>2. /\ CallSound(nm, a) /\ ~Takes(a) /\ a.id = id /\ a \in BeatCall
        /\ CallSound(nm, b) /\ ~Takes(b) /\ b.id = id /\ b.do = "store" /\ b \in BeatCall
    BY <1>2
  <2> HIDE DEF a, b
  <2>3. SaveSchedule(app, id, row) = <<a, b>>
    BY <2>1 DEF a, b
  <2> QED BY <2>2, <2>3 DEF Saves
<1> QED BY <1>3, <1>4

LEMMA DeleteCalls ==
  ASSUME NEW app \in BeatApps, NEW id \in Ids
  PROVE  LET s == DeleteSchedule(app, id)
         IN  /\ s \in Seq(BeatCall) /\ Len(s) \in 1 .. 2
             /\ \A i \in 1 .. Len(s) : s[i].do \in {"delete", "drop"} /\ s[i].id = id
<1> DEFINE a == ACall("drop", id, None)
           b == ACall("delete", id, None)
<1>1. /\ a \in BeatCall /\ a.do = "drop" /\ a.id = id
      /\ b \in BeatCall /\ b.do = "delete" /\ b.id = id
  BY DEF ACall, BeatCall
<1>2. DeleteSchedule(app, id) = IF DetectBackend(app) = "db" THEN <<b>> ELSE <<a, b>>
  BY DEF DeleteSchedule
<1> HIDE DEF a, b
<1> QED BY <1>1, <1>2

LEMMA ForCalls ==
  ASSUME NEW s \in Seq(BeatCall), NEW why \in {"save", "move", "delete"}
  PROVE  /\ For(why, s) \in Seq(BeatCall) /\ Len(For(why, s)) = Len(s)
         /\ \A i \in 1 .. Len(s) : For(why, s)[i] = [s[i] EXCEPT !.why = why]
<1>1. DOMAIN s = 1 .. Len(s) /\ Len(s) \in Nat /\ \A i \in 1 .. Len(s) : s[i] \in BeatCall
  OBVIOUS
<1>2. \A c \in BeatCall : [c EXCEPT !.why = why] \in BeatCall
  BY DEF BeatCall
<1>3. For(why, s) = [i \in 1 .. Len(s) |-> [s[i] EXCEPT !.why = why]]
  BY <1>1 DEF For
<1>4. For(why, s) \in [1 .. Len(s) -> BeatCall]
  BY <1>1, <1>2, <1>3
<1> QED BY <1>1, <1>3, <1>4

LEMMA Rewhy ==
  ASSUME NEW c \in BeatCall, NEW why
  PROVE  /\ [c EXCEPT !.why = why].why = why /\ [c EXCEPT !.why = why].do = c.do
         /\ [c EXCEPT !.why = why].id = c.id /\ [c EXCEPT !.why = why].row = c.row
         /\ [c EXCEPT !.why = why].app = c.app
  BY DEF BeatCall

LEMMA DeletionSound ==
  ASSUME NEW nm, NEW s \in Seq(BeatCall),
         \A i \in 1 .. Len(s) : s[i].do \in {"delete", "drop"} /\ s[i].id \in Ids
  PROVE  CallsSound(nm, For("delete", s))
<1> DEFINE q == For("delete", s)
<1>1. /\ q \in Seq(BeatCall) /\ Len(q) = Len(s)
      /\ \A i \in 1 .. Len(s) : q[i] = [s[i] EXCEPT !.why = "delete"] /\ s[i] \in BeatCall
  BY ForCalls
<1> HIDE DEF q
<1>2. ASSUME NEW i \in 1 .. Len(q) PROVE CallSound(nm, q[i]) /\ ~Takes(q[i])
  <2>1. /\ q[i].why = "delete" /\ q[i].do = s[i].do /\ q[i].id = s[i].id
        /\ s[i].do \in {"delete", "drop"} /\ s[i].id \in Ids /\ q[i] \in BeatCall
    <3> DEFINE c == s[i]
    <3>1. c \in BeatCall /\ q[i] = [c EXCEPT !.why = "delete"] /\ q[i] \in BeatCall
      BY <1>1
    <3>2. c.do \in {"delete", "drop"} /\ c.id \in Ids
      BY <1>1
    <3> HIDE DEF c
    <3>3. q[i].why = "delete" /\ q[i].do = c.do /\ q[i].id = c.id
      BY <3>1, Rewhy
    <3> QED BY <3>1, <3>2, <3>3 DEF c
  <2> QED BY <2>1 DEF CallSound, Takes
<1> QED BY <1>1, <1>2 DEF CallsSound, q

(* A move deletes in the old place what it stores in the new one. *)
LEMMA MovedSound ==
  ASSUME NEW nm, NEW from \in BeatApps, NEW to \in BeatApps, NEW id \in Ids,
         NEW row \in TableRow, Fits(nm, id, row.name)
  PROVE  CallsSound(nm, Moved(from, to, id, row))
<1> DEFINE d == DeleteSchedule(from, id)
           s == SaveSchedule(to, id, row)
           r == d \o s
           q == For("move", r)
           last == Len(r)
<1>1. /\ d \in Seq(BeatCall) /\ Len(d) \in 1 .. 2
      /\ \A i \in 1 .. Len(d) : d[i].do \in {"delete", "drop"} /\ d[i].id = id
  BY DeleteCalls
<1>2. /\ s \in Seq(BeatCall) /\ Len(s) \in 1 .. 2 /\ s[Len(s)].do = "store"
      /\ \A i \in 1 .. Len(s) : CallSound(nm, s[i]) /\ ~Takes(s[i]) /\ s[i].id = id
  <2>1. Saves(nm, id, s)
    BY SaveCalls
  <2> HIDE DEF s
  <2> QED BY <2>1 DEF Saves
<1> HIDE DEF d, s
<1>3. /\ r \in Seq(BeatCall) /\ last = Len(d) + Len(s)
      /\ \A i \in 1 .. Len(d) : r[i] = d[i]
      /\ \A i \in 1 .. last : ~(i <= Len(d)) => r[i] = s[i - Len(d)]
  BY <1>1, <1>2
<1> HIDE DEF r
<1>4. /\ q \in Seq(BeatCall) /\ Len(q) = last
      /\ \A i \in 1 .. last : q[i] = [r[i] EXCEPT !.why = "move"] /\ r[i] \in BeatCall
  <2>1. r \in Seq(BeatCall) /\ \A i \in 1 .. Len(r) : r[i] \in BeatCall
    BY <1>3
  <2>2. /\ q \in Seq(BeatCall) /\ Len(q) = Len(r)
        /\ \A i \in 1 .. Len(r) : q[i] = [r[i] EXCEPT !.why = "move"]
    BY <2>1, ForCalls
  <2> QED BY <2>1, <2>2
<1> HIDE DEF q
<1>5. ASSUME NEW i \in 1 .. last
      PROVE  /\ q[i].why = "move" /\ q[i].id = id /\ CallSound(nm, q[i])
             /\ ~(i <= Len(d)) => q[i].do = s[i - Len(d)].do
  <2> DEFINE c == r[i]
  <2>1. c \in BeatCall /\ q[i] = [c EXCEPT !.why = "move"] /\ q[i] \in BeatCall
    BY <1>4
  <2>2. c = r[i]
    OBVIOUS
  <2> HIDE DEF c
  <2>3. q[i].why = "move" /\ q[i].do = c.do /\ q[i].id = c.id /\ q[i].row = c.row /\ q[i].app = c.app
    BY <2>1, Rewhy
  <2>4. q[i] \in BeatCall
    BY <2>1
  <2>5. CASE i <= Len(d)
    <3>1. c = d[i] /\ c.do \in {"delete", "drop"} /\ c.id = id
      BY <1>1, <1>3, <2>2, <2>5
    <3> QED BY <2>3, <2>4, <2>5, <3>1 DEF CallSound
  <2>6. CASE ~(i <= Len(d))
    <3>1. c = s[i - Len(d)] /\ i - Len(d) \in 1 .. Len(s)
      BY <1>1, <1>2, <1>3, <2>2, <2>6
    <3>2. CallSound(nm, c) /\ ~Takes(c) /\ c.id = id
      BY <1>2, <3>1
    <3>3. q[i].do \in {"delete", "drop"} => q[i].why \in {"move", "delete"}
      BY <2>3
    <3> QED BY <2>3, <2>4, <2>6, <3>1, <3>2, <3>3 DEF CallSound
  <2> QED BY <2>5, <2>6
<1>6. last \in 1 .. last /\ ~(last <= Len(d)) /\ last - Len(d) = Len(s)
  <2> DEFINE m == Len(d)
             n == Len(s)
  <2>1. m \in 1 .. 2
    BY <1>1
  <2>2. n \in 1 .. 2
    BY <1>2
  <2>3. last = m + n
    BY <1>3
  <2> HIDE DEF last, m, n
  <2>4. last \in 1 .. last /\ ~(last <= m) /\ last - m = n
    BY <2>1, <2>2, <2>3
  <2> QED BY <2>4 DEF m, n
<1>7. Puts(q[last]) /\ q[last].id = id
  BY <1>2, <1>5, <1>6 DEF Puts
<1>8. ASSUME NEW i \in 1 .. last, Takes(q[i]) PROVE i < last
  <2>1. CASE i = last
    BY <1>7, <1>8, <2>1 DEF Takes, Puts
  <2> QED BY <2>1, <1>1, <1>2
<1>9. CallsSound(nm, q)
  BY <1>4, <1>5, <1>6, <1>7, <1>8 DEF CallsSound
<1> QED BY <1>9 DEF Moved, q, r, d, s

LEMMA SavedSound ==
  ASSUME NEW nm, NEW app \in BeatApps, NEW id \in Ids, NEW row \in TableRow, Fits(nm, id, row.name)
  PROVE  CallsSound(nm, SaveSchedule(app, id, row))
<1>1. Saves(nm, id, SaveSchedule(app, id, row))
  BY SaveCalls
<1> QED BY <1>1 DEF Saves, CallsSound

-----------------------------------------------------------------------------
(* A request that comes is turned into calls that are sound. *)
LEMMA BeginInv ==
  ASSUME ScheduleInv, NEW u \in Users, NEW calls, BeginRequest(u, calls),
         \A nm \in KeyNames : Sound(nm) => CallsSound(nm, calls)
  PROVE  ScheduleInv'
<1>1. /\ toCall[u] = <<>> /\ toCall' = [toCall EXCEPT ![u] = calls]
      /\ UNCHANGED <<scheduleRows, periodicTasks, kept, broken>>
  BY DEF BeginRequest
<1>2. PICK nm \in KeyNames : Sound(nm)
  BY DEF ScheduleInv
<1>3. CallsSound(nm, calls)
  BY <1>2
<1>4. /\ toCall' \in [Users -> Seq(BeatCall)] /\ toCall'[u] = calls
      /\ \A v \in Users \ {u} : toCall'[v] = toCall[v]
  BY <1>1, <1>3 DEF ScheduleInv, Types, CallsSound
<1>5. Types'
  BY <1>1, <1>4 DEF ScheduleInv, Types
<1>6. Sound(nm)'
  BY <1>1, <1>2, <1>3, <1>4 DEF Sound, KeysSound, RowsSound
<1>7. KeptSafe'
  <2>1. \A name : ~OnTheWay(name, toCall[u])
    BY <1>1 DEF OnTheWay
  <2> QED BY <1>1, <1>4, <2>1 DEF ScheduleInv, KeptSafe, InTable, InDjango
<1> QED BY <1>5, <1>6, <1>7 DEF ScheduleInv

LEMMA EditInv ==
  ASSUME NamesAreNoNumbers, ScheduleInv, NEW u \in Users, NEW from \in BeatApps, NEW to \in BeatApps,
         NEW id \in Ids, BeatEdit(u, from, id, to)
  PROVE  ScheduleInv'
<1> DEFINE row == ParseForm(NameOf(from, id), to)
           calls == IF from = to THEN SaveSchedule(to, id, row) ELSE Moved(from, to, id, row)
<1>1. id \in ListSchedules(from) /\ BeginRequest(u, calls)
  BY DEF BeatEdit
<1>2. ASSUME NEW nm \in KeyNames, Sound(nm) PROVE CallsSound(nm, calls)
  <2>1. row \in TableRow /\ Fits(nm, id, row.name)
    <3>1. CASE DetectBackend(from) = "db"
      <4>1. scheduleRows[id] # None /\ NameOf(from, id) = scheduleRows[id].name
        BY <1>1, <3>1 DEF ListSchedules, ListDb, NameOf
      <4>2. scheduleRows[id] \in TableRow
        BY <4>1 DEF ScheduleInv, Types
      <4> QED BY <1>2, <4>1, <4>2 DEF Sound, RowsSound, ParseForm, TableRow
    <3>2. CASE DetectBackend(from) # "db"
      <4>1. id \in Keys /\ periodicTasks[id] \in Names /\ NameOf(from, id) = periodicTasks[id]
        BY <1>1, <3>2 DEF ListSchedules, ListDjango, NameOf
      <4> QED
        BY <1>2, <4>1 DEF Sound, KeysSound, Fits, ParseForm, TableRow, NamesAreNoNumbers
    <3> QED BY <3>1, <3>2
  <2> HIDE DEF row
  <2> QED BY <2>1, SavedSound, MovedSound
<1> HIDE DEF calls
<1> QED BY <1>1, <1>2, BeginInv

LEMMA DeleteInv ==
  ASSUME ScheduleInv, NEW u \in Users, NEW app \in BeatApps, NEW id \in Ids, BeatDelete(u, app, id)
  PROVE  ScheduleInv'
<1> DEFINE calls == For("delete", DeleteSchedule(app, id))
<1>1. BeginRequest(u, calls)
  BY DEF BeatDelete
<1>2. \A nm : CallsSound(nm, calls)
  BY DeleteCalls, DeletionSound
<1> HIDE DEF calls
<1> QED BY <1>1, <1>2, BeginInv

LEMMA AddInv ==
  ASSUME NamesAreNoNumbers, ScheduleInv, NEW u \in Users, NEW name \in Names,
         (\E app \in BeatApps : BeatAdd(u, name, app)) \/ LibrarySave(u, name)
  PROVE  ScheduleInv'
<1>1. \A nm : Fits(nm, name, name) /\ name \in Ids
  BY DEF Fits, NamesAreNoNumbers, Ids
<1>2. ASSUME NEW app \in BeatApps, BeatAdd(u, name, app) PROVE ScheduleInv'
  <2> DEFINE row == ParseForm(name, app)
             calls == SaveSchedule(app, name, row)
  <2>1. row \in TableRow /\ row.name = name
    BY DEF ParseForm, TableRow
  <2>2. BeginRequest(u, calls)
    BY <1>2 DEF BeatAdd
  <2> HIDE DEF row
  <2>3. \A nm : CallsSound(nm, calls)
    BY <1>1, <2>1, SavedSound
  <2> HIDE DEF calls
  <2> QED BY <2>2, <2>3, BeginInv
<1>3. CASE LibrarySave(u, name)
  <2> DEFINE c == ACall("store", name, ParseForm(name, None))
  <2>1. BeginRequest(u, <<c>>)
    BY <1>3 DEF LibrarySave
  <2>2. \A nm : CallSound(nm, c) /\ ~Takes(c) /\ c \in BeatCall
    BY <1>1 DEF ACall, ParseForm, CallSound, Takes, BeatCall, TableRow
  <2> HIDE DEF c
  <2>3. \A nm : CallsSound(nm, <<c>>)
    BY <2>2 DEF CallsSound
  <2> QED BY <2>1, <2>3, BeginInv
<1> QED BY <1>2, <1>3

LEMMA LibraryDeleteInv ==
  ASSUME ScheduleInv, NEW u \in Users, NEW id \in Ids, LibraryDelete(u, id)
  PROVE  ScheduleInv'
<1> DEFINE c == ACall("delete", id, None)
           calls == For("delete", <<c>>)
<1>1. BeginRequest(u, calls)
  BY DEF LibraryDelete
<1>2. c \in BeatCall /\ c.do = "delete" /\ c.id = id
  BY DEF ACall, BeatCall
<1> HIDE DEF c
<1>3. <<c>> \in Seq(BeatCall) /\ \A i \in 1 .. Len(<<c>>) : <<c>>[i] = c
  BY <1>2
<1>4. \A nm : CallsSound(nm, calls)
  BY <1>2, <1>3, DeletionSound
<1> HIDE DEF calls
<1> QED BY <1>1, <1>4, BeginInv

LEMMA SyncInv ==
  ASSUME ScheduleInv, NEW u \in Users, BeatSync(u)
  PROVE  ScheduleInv'
<1> DEFINE apps == SetToSeq(BeatApps)
           calls == [i \in DOMAIN apps |-> [ACall("copy", None, None) EXCEPT !.app = apps[i]]]
<1>1. BeginRequest(u, calls)
  BY DEF BeatSync
<1>2. apps \in Seq(BeatApps)
  BY SchedulesAssumption, SetToSeqTyped
<1> HIDE DEF apps
<1>3. DOMAIN apps = 1 .. Len(apps) /\ Len(apps) \in Nat
  BY <1>2
<1>4. ASSUME NEW app \in BeatApps
      PROVE  LET c == [ACall("copy", None, None) EXCEPT !.app = app]
             IN  c \in BeatCall /\ ~Takes(c) /\ \A nm : CallSound(nm, c)
  BY DEF ACall, BeatCall, CallSound, Takes
<1>5. \A i \in 1 .. Len(apps) : apps[i] \in BeatApps
  BY <1>2
<1>6. calls \in [1 .. Len(apps) -> BeatCall]
  BY <1>3, <1>4, <1>5
<1>7. calls \in Seq(BeatCall) /\ Len(calls) = Len(apps)
  BY <1>3, <1>6
<1>8. \A i \in 1 .. Len(calls) : ~Takes(calls[i]) /\ \A nm : CallSound(nm, calls[i])
  BY <1>3, <1>4, <1>5, <1>7
<1> HIDE DEF calls
<1>9. \A nm : CallsSound(nm, calls)
  BY <1>7, <1>8 DEF CallsSound
<1> QED BY <1>1, <1>9, BeginInv

-----------------------------------------------------------------------------
(* A call that is made: the other requests and what is left of this one. *)
LEMMA CallMade ==
  ASSUME ScheduleInv, NEW u \in Users, toCall[u] # <<>>, NEW nm, Sound(nm), toCall' = Without(u)
  PROVE  /\ toCall' \in [Users -> Seq(BeatCall)]
         /\ \A v \in Users : CallsSound(nm, toCall'[v])
         /\ CallSound(nm, Head(toCall[u])) /\ Head(toCall[u]) \in BeatCall
         /\ Takes(Head(toCall[u])) => \E c \in BeatCall :
              /\ c.id = Head(toCall[u]).id /\ CallSound(nm, c) /\ Puts(c)
              /\ OnTheWay(c.row.name, toCall'[u])
         /\ \A v \in Users : \A name : OnTheWay(name, toCall[v]) =>
              \/ OnTheWay(name, toCall'[v])
              \/ Puts(Head(toCall[u])) /\ Head(toCall[u]).row.name = name
<1> DEFINE s == toCall[u]
<1>1. CallsSound(nm, s) /\ s # <<>> /\ toCall \in [Users -> Seq(BeatCall)]
  BY DEF Sound, ScheduleInv, Types
<1>2. toCall' = [toCall EXCEPT ![u] = Tail(s)]
  BY DEF Without
<1>3. /\ toCall'[u] = Tail(s) /\ \A v \in Users \ {u} : toCall'[v] = toCall[v]
      /\ toCall[u] = s
  BY <1>1, <1>2
<1> HIDE DEF s
<1>4. /\ CallsSound(nm, Tail(s)) /\ CallSound(nm, Head(s))
      /\ Takes(Head(s)) => \E c \in BeatCall :
           /\ c.id = Head(s).id /\ CallSound(nm, c) /\ Puts(c)
           /\ OnTheWay(c.row.name, Tail(s))
      /\ \A name : OnTheWay(name, s) =>
           OnTheWay(name, Tail(s)) \/ (Puts(Head(s)) /\ Head(s).row.name = name)
  BY <1>1, TailSound
<1>5. toCall' \in [Users -> Seq(BeatCall)]
  BY <1>1, <1>2, <1>4 DEF CallsSound
<1>6. \A v \in Users : CallsSound(nm, toCall'[v])
  BY <1>3, <1>4 DEF Sound
<1>7. Head(s) \in BeatCall
  BY <1>4 DEF CallSound
<1> QED BY <1>3, <1>4, <1>5, <1>6, <1>7

LEMMA StoreCallInv ==
  ASSUME ScheduleInv, NEW u \in Users, toCall[u] # <<>>, StoreCall(u, Head(toCall[u]))
  PROVE  ScheduleInv'
<1> DEFINE call == Head(toCall[u])
<1>1. PICK nm \in KeyNames : Sound(nm)
  BY DEF ScheduleInv
<1>2. /\ call.do = "store" /\ scheduleRows' = [scheduleRows EXCEPT ![call.id] = call.row]
      /\ kept' = (kept \ NamesAt({call.id})) \cup {call.row.name}
      /\ broken' = broken \ {call.row.name}
      /\ toCall' = Without(u) /\ UNCHANGED periodicTasks
  BY DEF StoreCall
<1>3. /\ toCall' \in [Users -> Seq(BeatCall)]
      /\ \A v \in Users : CallsSound(nm, toCall'[v])
      /\ CallSound(nm, call)
      /\ \A v \in Users : \A name : OnTheWay(name, toCall[v]) =>
           OnTheWay(name, toCall'[v]) \/ call.row.name = name
  BY <1>1, <1>2, CallMade
<1> HIDE DEF call
<1>4. /\ call.id \in Ids /\ call.row \in TableRow /\ Fits(nm, call.id, call.row.name)
      /\ call.row # None
  BY <1>2, <1>3, SchedulesAssumption DEF CallSound
<1>5. /\ scheduleRows \in [Ids -> TableRow \cup {None}]
      /\ scheduleRows' \in [Ids -> TableRow \cup {None}] /\ scheduleRows'[call.id] = call.row
      /\ \A i \in Ids \ {call.id} : scheduleRows'[i] = scheduleRows[i]
  BY <1>2, <1>4 DEF ScheduleInv, Types
<1>6. Types'
  BY <1>2, <1>3, <1>5 DEF ScheduleInv, Types
<1>7. Sound(nm)'
  BY <1>1, <1>2, <1>3, <1>4, <1>5 DEF Sound, KeysSound, RowsSound
<1>8. KeptSafe'
  <2> SUFFICES ASSUME NEW name \in kept'
               PROVE  \/ InTable(name)' \/ InDjango(name)' \/ name \in broken'
                      \/ \E v \in Users : OnTheWay(name, toCall'[v])
    BY DEF KeptSafe
  <2>1. CASE name = call.row.name
    BY <1>4, <1>5, <2>1 DEF InTable
  <2>2. CASE name # call.row.name
    <3>1. name \in kept /\ ~(scheduleRows[call.id] # None /\ scheduleRows[call.id].name = name)
      BY <1>2, <2>2 DEF NamesAt
    <3>2. InTable(name) => InTable(name)'
      BY <1>5, <3>1 DEF InTable
    <3>3. InDjango(name) => InDjango(name)'
      BY <1>2 DEF InDjango
    <3> QED BY <1>2, <1>3, <2>2, <3>1, <3>2, <3>3 DEF ScheduleInv, KeptSafe
  <2> QED BY <2>1, <2>2
<1> QED BY <1>6, <1>7, <1>8 DEF ScheduleInv

(* What a move takes from the table it has yet to put back. *)
LEMMA DeleteCallInv ==
  ASSUME ScheduleInv, NEW u \in Users, toCall[u] # <<>>, DeleteCall(u, Head(toCall[u]))
  PROVE  ScheduleInv'
<1> DEFINE call == Head(toCall[u])
<1>1. PICK nm \in KeyNames : Sound(nm)
  BY DEF ScheduleInv
<1>2. /\ call.do = "delete" /\ scheduleRows' = [scheduleRows EXCEPT ![call.id] = None]
      /\ kept' = IF call.why = "delete" THEN kept \ NamesAt({call.id}) ELSE kept
      /\ toCall' = Without(u) /\ UNCHANGED <<periodicTasks, broken>>
  BY DEF DeleteCall
<1>3. /\ toCall' \in [Users -> Seq(BeatCall)]
      /\ \A v \in Users : CallsSound(nm, toCall'[v])
      /\ CallSound(nm, call)
      /\ Takes(call) => \E c \in BeatCall :
           c.id = call.id /\ CallSound(nm, c) /\ Puts(c) /\ OnTheWay(c.row.name, toCall'[u])
      /\ \A v \in Users : \A name : OnTheWay(name, toCall[v]) =>
           OnTheWay(name, toCall'[v]) \/ Puts(call)
  BY <1>1, <1>2, CallMade
<1> HIDE DEF call
<1>4. call.id \in Ids /\ call.why \in {"move", "delete"} /\ ~Puts(call)
  BY <1>2, <1>3 DEF CallSound, Puts
<1>5. /\ scheduleRows \in [Ids -> TableRow \cup {None}]
      /\ scheduleRows' \in [Ids -> TableRow \cup {None}] /\ scheduleRows'[call.id] = None
      /\ \A i \in Ids \ {call.id} : scheduleRows'[i] = scheduleRows[i]
  BY <1>2, <1>4 DEF ScheduleInv, Types
<1>6. Types'
  BY <1>2, <1>3, <1>5 DEF ScheduleInv, Types
<1>7. Sound(nm)'
  BY <1>1, <1>2, <1>3, <1>4, <1>5 DEF Sound, KeysSound, RowsSound
<1>8. KeptSafe'
  <2> SUFFICES ASSUME NEW name \in kept'
               PROVE  \/ InTable(name)' \/ InDjango(name)' \/ name \in broken'
                      \/ \E v \in Users : OnTheWay(name, toCall'[v])
    BY DEF KeptSafe
  <2> DEFINE lost == scheduleRows[call.id] # None /\ scheduleRows[call.id].name = name
  <2>1. name \in kept /\ (lost => call.why = "move")
    BY <1>2, <1>4 DEF NamesAt
  <2>2. CASE lost
    <3>1. PICK c \in BeatCall :
            c.id = call.id /\ CallSound(nm, c) /\ Puts(c) /\ OnTheWay(c.row.name, toCall'[u])
      BY <1>2, <1>3, <2>1, <2>2 DEF Takes
    <3>2. Fits(nm, call.id, c.row.name) /\ Fits(nm, call.id, name)
      BY <1>1, <1>4, <2>2, <3>1 DEF CallSound, Puts, Sound, RowsSound
    <3>3. c.row.name = name
      BY <1>4, <3>2 DEF Fits, Ids
    <3> QED BY <3>1, <3>3
  <2>3. CASE ~lost
    <3>1. InTable(name) => InTable(name)'
      BY <1>5, <2>3 DEF InTable
    <3>2. InDjango(name) => InDjango(name)'
      BY <1>2 DEF InDjango
    <3> QED BY <1>2, <1>3, <1>4, <2>1, <3>1, <3>2 DEF ScheduleInv, KeptSafe
  <2> QED BY <2>2, <2>3
<1> QED BY <1>6, <1>7, <1>8 DEF ScheduleInv

(* A periodic task is saved under its key, under the key that has its name, or
   under a key that no row and no call can name yet. *)
LEMMA SaveCallInv ==
  ASSUME NamesAreNoNumbers, ScheduleInv, NEW u \in Users, toCall[u] # <<>>,
         SaveCall(u, Head(toCall[u]))
  PROVE  ScheduleInv'
<1> DEFINE call == Head(toCall[u])
           name == call.row.name
<1>1. PICK nm \in KeyNames : Sound(nm)
  BY DEF ScheduleInv
<1>2. /\ call.do = "save" /\ SaveDjango(call.id, name)
      /\ toCall' = Without(u) /\ UNCHANGED <<scheduleRows, kept, broken>>
  BY DEF SaveCall
<1>3. /\ toCall' \in [Users -> Seq(BeatCall)]
      /\ \A v \in Users : CallsSound(nm, toCall'[v])
      /\ CallSound(nm, call)
      /\ \A v \in Users : \A n : OnTheWay(n, toCall[v]) => OnTheWay(n, toCall'[v]) \/ Puts(call)
  BY <1>1, <1>2, CallMade
<1> HIDE DEF call
<1>4. name \in Names /\ ~Puts(call)
  BY <1>2, <1>3 DEF CallSound, TableRow, Puts
<1> HIDE DEF name
<1>5. PICK k \in GetPeriodicTask(call.id, name) :
        periodicTasks' = [periodicTasks EXCEPT ![k] = IF @ = None THEN name ELSE @]
  BY <1>2 DEF SaveDjango
<1>6. periodicTasks \in [Keys -> Names \cup {None, "gone"}]
  BY DEF ScheduleInv, Types
<1>7. k \in Keys
  BY <1>5 DEF GetPeriodicTask, ListDjango
<1>8. CASE periodicTasks[k] # None
  <2>1. periodicTasks' = periodicTasks
    BY <1>5, <1>6, <1>7, <1>8
  <2>2. Types' /\ Sound(nm)'
    BY <1>1, <1>2, <1>3, <2>1 DEF ScheduleInv, Types, Sound, KeysSound, RowsSound
  <2>3. KeptSafe'
    BY <1>2, <1>3, <1>4, <2>1 DEF ScheduleInv, KeptSafe, InTable, InDjango
  <2> QED BY <2>2, <2>3 DEF ScheduleInv
<1>9. CASE periodicTasks[k] = None
  <2>1. /\ periodicTasks' \in [Keys -> Names \cup {None, "gone"}] /\ periodicTasks'[k] = name
        /\ \A l \in Keys \ {k} : periodicTasks'[l] = periodicTasks[l]
    BY <1>4, <1>5, <1>6, <1>7, <1>9
  <2>2. nm[k] = None /\ None \notin Names
    BY <1>1, <1>7, <1>9, SchedulesAssumption DEF Sound, KeysSound
  <2>3. PICK nn \in KeyNames : nn[k] = name /\ \A l \in Keys \ {k} : nn[l] = nm[l]
    <3>1. [nm EXCEPT ![k] = name] \in KeyNames
      BY <1>1, <1>4, <1>7 DEF KeyNames
    <3> QED BY <1>1, <1>7, <3>1 DEF KeyNames
  <2>4. \A i, n : n \in Names /\ Fits(nm, i, n) => Fits(nn, i, n)
    BY <2>2, <2>3 DEF Fits
  <2>5. KeysSound(nn)'
    BY <1>1, <1>4, <2>1, <2>2, <2>3 DEF Sound, KeysSound
  <2>6. RowsSound(nn)'
    <3>1. \A i \in Ids : scheduleRows[i] # None => scheduleRows[i].name \in Names
      <4>1. \A r \in TableRow : r.name \in Names
        BY DEF TableRow
      <4> QED BY <4>1 DEF ScheduleInv, Types
    <3> QED BY <1>1, <1>2, <2>4, <3>1 DEF Sound, RowsSound
  <2>7. \A c : CallSound(nm, c) => CallSound(nn, c)
    <3>1. \A r \in TableRow : r.name \in Names
      BY DEF TableRow
    <3> QED BY <2>4, <3>1 DEF CallSound
  <2>8. \A v \in Users : CallsSound(nn, toCall'[v])
    BY <1>3, <2>7 DEF CallsSound
  <2>9. Sound(nn)'
    BY <2>5, <2>6, <2>8 DEF Sound
  <2>10. Types'
    BY <1>2, <1>3, <2>1 DEF ScheduleInv, Types
  <2>11. \A n : InDjango(n) => InDjango(n)'
    BY <1>9, <2>1, <2>2 DEF InDjango
  <2>12. KeptSafe'
    BY <1>2, <1>3, <1>4, <2>11 DEF ScheduleInv, KeptSafe, InTable
  <2> QED BY <2>3, <2>9, <2>10, <2>12 DEF ScheduleInv
<1> QED BY <1>8, <1>9

(* What a move drops from Django it has yet to put back. *)
LEMMA DropCallInv ==
  ASSUME NamesAreNoNumbers, ScheduleInv, NEW u \in Users, toCall[u] # <<>>,
         DropCall(u, Head(toCall[u]))
  PROVE  ScheduleInv'
<1> DEFINE call == Head(toCall[u])
<1>1. PICK nm \in KeyNames : Sound(nm)
  BY DEF ScheduleInv
<1>2. /\ call.do = "drop"
      /\ periodicTasks' = [k \in Keys |->
           IF k \in Dropped(call.id) THEN "gone" ELSE periodicTasks[k]]
      /\ kept' = IF call.why = "delete" THEN kept \ {periodicTasks[k] : k \in Dropped(call.id)}
                 ELSE kept
      /\ toCall' = Without(u) /\ UNCHANGED <<scheduleRows, broken>>
  BY DEF DropCall
<1>3. /\ toCall' \in [Users -> Seq(BeatCall)]
      /\ \A v \in Users : CallsSound(nm, toCall'[v])
      /\ CallSound(nm, call)
      /\ Takes(call) => \E c \in BeatCall :
           c.id = call.id /\ CallSound(nm, c) /\ Puts(c) /\ OnTheWay(c.row.name, toCall'[u])
      /\ \A v \in Users : \A name : OnTheWay(name, toCall[v]) =>
           OnTheWay(name, toCall'[v]) \/ Puts(call)
  BY <1>1, <1>2, CallMade
<1> HIDE DEF call
<1>4. call.id \in Ids /\ call.why \in {"move", "delete"} /\ ~Puts(call)
  BY <1>2, <1>3 DEF CallSound, Puts
<1>5. periodicTasks \in [Keys -> Names \cup {None, "gone"}]
      /\ periodicTasks' \in [Keys -> Names \cup {None, "gone"}]
  BY <1>2 DEF ScheduleInv, Types
<1>6. Types'
  BY <1>2, <1>3, <1>5 DEF ScheduleInv, Types
<1>7. "gone" \notin Names /\ "gone" # None
  BY SchedulesAssumption
<1>8. KeysSound(nm)'
  BY <1>1, <1>2, <1>7 DEF Sound, KeysSound
<1>9. Sound(nm)'
  BY <1>1, <1>2, <1>3, <1>8 DEF Sound, RowsSound
<1>10. KeptSafe'
  <2> SUFFICES ASSUME NEW name \in kept'
               PROVE  \/ InTable(name)' \/ InDjango(name)' \/ name \in broken'
                      \/ \E v \in Users : OnTheWay(name, toCall'[v])
    BY DEF KeptSafe
  <2> DEFINE lost == name \in Names /\ \E k \in Dropped(call.id) : k \in Keys /\ periodicTasks[k] = name
  <2>1. name \in kept /\ (lost => call.why = "move")
    BY <1>2, <1>4
  <2>2. CASE lost
    <3>1. PICK c \in BeatCall :
            c.id = call.id /\ CallSound(nm, c) /\ Puts(c) /\ OnTheWay(c.row.name, toCall'[u])
      BY <1>2, <1>3, <2>1, <2>2 DEF Takes
    <3>2. Fits(nm, call.id, c.row.name)
      BY <3>1 DEF CallSound, Puts
    <3>3. PICK k \in Dropped(call.id) : k \in Keys /\ periodicTasks[k] = name
      BY <2>2
    <3>4. (k = call.id /\ name \in Names) \/ (call.id = name /\ name \in Names)
      BY <2>2, <3>3 DEF Dropped
    <3>5. k = call.id => nm[k] = name
      BY <1>1, <3>3, <3>4 DEF Sound, KeysSound
    <3>6. c.row.name = name
      BY <3>2, <3>3, <3>4, <3>5 DEF Fits
    <3> QED BY <3>1, <3>6
  <2>3. CASE ~lost
    <3>1. InDjango(name) => InDjango(name)'
      BY <1>2, <2>3 DEF InDjango
    <3>2. InTable(name) => InTable(name)'
      BY <1>2 DEF InTable
    <3> QED BY <1>2, <1>3, <1>4, <2>1, <3>1, <3>2 DEF ScheduleInv, KeptSafe
  <2> QED BY <2>2, <2>3
<1> QED BY <1>1, <1>6, <1>9, <1>10 DEF ScheduleInv

(* The copies of what Django has are stored under keys, with their names. *)
LEMMA CopyCallInv ==
  ASSUME NamesAreNoNumbers, ScheduleInv, NEW u \in Users, toCall[u] # <<>>,
         CopyCall(u, Head(toCall[u]))
  PROVE  ScheduleInv'
<1> DEFINE call == Head(toCall[u])
           rest == Tail(toCall[u])
           apart == SetToSeq(ListDjango)
           copies == IF DetectBackend(call.app) = "db" THEN <<>>
                     ELSE [i \in DOMAIN apart |->
                             ACall("store", apart[i], ParseForm(periodicTasks[apart[i]], call.app))]
<1>1. PICK nm \in KeyNames : Sound(nm)
  BY DEF ScheduleInv
<1>2. /\ call.do = "copy" /\ toCall' = [toCall EXCEPT ![u] = copies \o rest]
      /\ UNCHANGED <<scheduleRows, periodicTasks, kept, broken>>
  BY DEF CopyCall
<1>3. toCall \in [Users -> Seq(BeatCall)] /\ CallsSound(nm, toCall[u])
  BY <1>1 DEF Sound, ScheduleInv, Types
<1>4. /\ CallsSound(nm, rest) /\ CallSound(nm, call)
      /\ \A name : OnTheWay(name, toCall[u]) => OnTheWay(name, rest) \/ Puts(call)
  BY <1>3, TailSound
<1>5. apart \in Seq(ListDjango)
  <2>1. IsFiniteSet(ListDjango)
    BY SchedulesAssumption, FS_Subset DEF ListDjango
  <2> QED BY <2>1, SetToSeqTyped
<1> HIDE DEF call, rest, apart
<1>6. call.app \in BeatApps /\ ~Puts(call)
  BY <1>2, <1>4 DEF CallSound, Puts
<1>7. ASSUME NEW k \in ListDjango
      PROVE  LET c == ACall("store", k, ParseForm(periodicTasks[k], call.app))
             IN  c \in BeatCall /\ CallSound(nm, c) /\ ~Takes(c)
  <2> DEFINE row == ParseForm(periodicTasks[k], call.app)
  <2>1. k \in Keys /\ k \in Ids /\ periodicTasks[k] \in Names
    BY DEF ListDjango, Ids
  <2>2. row \in TableRow /\ row.name = periodicTasks[k]
    BY <1>6, <2>1 DEF ParseForm, TableRow
  <2>3. Fits(nm, k, row.name)
    BY <1>1, <2>1, <2>2 DEF Fits, Sound, KeysSound, NamesAreNoNumbers
  <2> HIDE DEF row
  <2>4. LET c == ACall("store", k, row) IN c \in BeatCall /\ CallSound(nm, c) /\ ~Takes(c)
    BY <2>1, <2>2, <2>3 DEF ACall, BeatCall, CallSound, Takes
  <2> QED BY <2>4 DEF row
<1>8. copies \in Seq(BeatCall) /\ \A i \in 1 .. Len(copies) : CallSound(nm, copies[i]) /\ ~Takes(copies[i])
  <2>1. CASE DetectBackend(call.app) = "db"
    <3>1. copies = <<>>
      BY <2>1
    <3> HIDE DEF copies
    <3> QED BY <3>1
  <2>2. CASE DetectBackend(call.app) # "db"
    <3>1. DOMAIN apart = 1 .. Len(apart) /\ Len(apart) \in Nat
          /\ \A i \in 1 .. Len(apart) : apart[i] \in ListDjango
      BY <1>5
    <3>2. copies = [i \in 1 .. Len(apart) |->
                      ACall("store", apart[i], ParseForm(periodicTasks[apart[i]], call.app))]
      BY <2>2, <3>1
    <3>3. copies \in [1 .. Len(apart) -> BeatCall]
      BY <1>7, <3>1, <3>2
    <3>4. \A i \in 1 .. Len(apart) : CallSound(nm, copies[i]) /\ ~Takes(copies[i])
      BY <1>7, <3>1, <3>2
    <3> HIDE DEF copies
    <3>5. copies \in Seq(BeatCall) /\ Len(copies) = Len(apart)
      BY <3>1, <3>3
    <3> QED BY <3>4, <3>5
  <2> QED BY <2>1, <2>2
<1> HIDE DEF copies
<1>9. /\ CallsSound(nm, copies \o rest)
      /\ \A name : OnTheWay(name, rest) => OnTheWay(name, copies \o rest)
  BY <1>4, <1>8, ConcatSound
<1>10. /\ toCall' \in [Users -> Seq(BeatCall)] /\ toCall'[u] = copies \o rest
       /\ \A v \in Users \ {u} : toCall'[v] = toCall[v]
  BY <1>2, <1>3, <1>9 DEF CallsSound
<1>11. Types'
  BY <1>2, <1>10 DEF ScheduleInv, Types
<1>12. Sound(nm)'
  BY <1>1, <1>2, <1>9, <1>10 DEF Sound, KeysSound, RowsSound
<1>13. \A v \in Users : \A name : OnTheWay(name, toCall[v]) => OnTheWay(name, toCall'[v])
  BY <1>4, <1>6, <1>9, <1>10
<1>14. KeptSafe'
  BY <1>2, <1>13 DEF ScheduleInv, KeptSafe, InTable, InDjango
<1> QED BY <1>11, <1>12, <1>14 DEF ScheduleInv

LEMMA RaisesInv ==
  ASSUME ScheduleInv, NEW u \in Users, NEW call, CallRaises(u, call)
  PROVE  ScheduleInv'
<1>1. PICK nm \in KeyNames : Sound(nm)
  BY DEF ScheduleInv
<1>2. /\ broken' = broken \cup Moving(u) /\ toCall' = [toCall EXCEPT ![u] = <<>>]
      /\ UNCHANGED <<scheduleRows, periodicTasks, kept>>
  BY DEF CallRaises
<1>3. /\ toCall' \in [Users -> Seq(BeatCall)] /\ toCall'[u] = <<>>
      /\ \A v \in Users \ {u} : toCall'[v] = toCall[v]
      /\ toCall[u] \in Seq(BeatCall)
  BY <1>2 DEF ScheduleInv, Types
<1>4. CallsSound(nm, <<>>)
  BY DEF CallsSound
<1>5. \A name : OnTheWay(name, toCall[u]) => name \in Moving(u)
  BY <1>3 DEF OnTheWay, Moving, Puts, Range
<1>6. Types'
  BY <1>2, <1>3 DEF ScheduleInv, Types
<1>7. Sound(nm)'
  BY <1>1, <1>2, <1>3, <1>4 DEF Sound, KeysSound, RowsSound
<1>8. KeptSafe'
  BY <1>2, <1>3, <1>5 DEF ScheduleInv, KeptSafe, InTable, InDjango
<1> QED BY <1>1, <1>6, <1>7, <1>8 DEF ScheduleInv

LEMMA ScheduleStep ==
  ASSUME NamesAreNoNumbers, ScheduleInv, [SchedulesNext]_scheduleVars
  PROVE  ScheduleInv'
<1>1. CASE UNCHANGED <<scheduleRows, periodicTasks, toCall, kept, broken>>
  BY <1>1 DEF ScheduleInv, Types, KeptSafe, InTable, InDjango, Sound, KeysSound, RowsSound
<1>2. CASE UNCHANGED scheduleVars
  BY <1>1, <1>2 DEF scheduleVars
<1>3. ASSUME NEW u \in Users, BeatPage(u) PROVE ScheduleInv'
  BY <1>1, <1>3 DEF BeatPage
<1>4. ASSUME NEW u \in Users, BeatPageCall(u) PROVE ScheduleInv'
  <2> DEFINE call == Head(toCall[u])
  <2>1. /\ toCall[u] # <<>>
        /\ \/ StoreCall(u, call) \/ DeleteCall(u, call) \/ SaveCall(u, call)
           \/ DropCall(u, call) \/ CopyCall(u, call) \/ CallRaises(u, call)
    BY <1>4 DEF BeatPageCall
  <2> QED
    BY <2>1, StoreCallInv, DeleteCallInv, SaveCallInv, DropCallInv, CopyCallInv, RaisesInv
<1> QED
  BY <1>2, <1>3, <1>4, AddInv, EditInv, DeleteInv, SyncInv, LibraryDeleteInv DEF SchedulesNext

(* No schedule is lost that somebody saved and nobody deleted, but for moves cut
   short by a failed call: each request that takes one away holds the call that
   puts it back under the same id, and an id means the same name to all requests. *)
THEOREM MovesLoseNothing ==
  NamesAreNoNumbers => (SchedulesSpec => []MovesKeepSchedules)
<1> SUFFICES ASSUME NamesAreNoNumbers PROVE SchedulesSpec => []MovesKeepSchedules
  OBVIOUS
<1>1. SchedulesInit => ScheduleInv
  <2> SUFFICES ASSUME SchedulesInit PROVE ScheduleInv
    OBVIOUS
  <2> DEFINE nm == [k \in Keys |-> None]
  <2>1. /\ scheduleRows = [i \in Ids |-> None] /\ periodicTasks = [k \in Keys |-> None]
        /\ toCall = [u \in Users |-> <<>>] /\ kept = {}
    BY DEF SchedulesInit
  <2>2. nm \in KeyNames /\ \A k \in Keys : nm[k] = None
    BY DEF KeyNames
  <2> HIDE DEF nm
  <2>3. KeysSound(nm) /\ RowsSound(nm)
    BY <2>1, <2>2, SchedulesAssumption DEF KeysSound, RowsSound
  <2>4. CallsSound(nm, <<>>)
    BY DEF CallsSound
  <2>5. Types /\ KeptSafe
    BY <2>1 DEF Types, KeptSafe
  <2> QED BY <2>1, <2>2, <2>3, <2>4, <2>5 DEF ScheduleInv, Sound
<1>2. ScheduleInv => MovesKeepSchedules
  <2> SUFFICES ASSUME ScheduleInv, NEW name \in kept
               PROVE  name \in NamesAt(Ids) \cup {periodicTasks[k] : k \in ListDjango}
                                \cup broken \cup (UNION {Moving(u) : u \in Users})
    BY DEF MovesKeepSchedules
  <2>1. InTable(name) => name \in NamesAt(Ids)
    BY DEF InTable, NamesAt
  <2>2. InDjango(name) => name \in {periodicTasks[k] : k \in ListDjango}
    BY DEF InDjango, ListDjango
  <2>3. ASSUME NEW u \in Users, OnTheWay(name, toCall[u]) PROVE name \in Moving(u)
    <3>1. toCall[u] \in Seq(BeatCall)
      BY DEF ScheduleInv, Types
    <3>2. PICK i \in 1 .. Len(toCall[u]) : Puts(toCall[u][i]) /\ toCall[u][i].row.name = name
      BY <2>3 DEF OnTheWay
    <3>3. toCall[u][i] \in Range(toCall[u])
      BY <3>1, <3>2 DEF Range
    <3>4. toCall[u][i] \in {d \in Range(toCall[u]) : d.why = "move" /\ d.do = "store"}
      BY <3>2, <3>3 DEF Puts
    <3> QED BY <3>2, <3>4 DEF Moving
  <2> QED BY <2>1, <2>2, <2>3 DEF ScheduleInv, KeptSafe
<1> QED BY <1>1, <1>2, ScheduleStep, PTL DEF SchedulesSpec

=============================================================================

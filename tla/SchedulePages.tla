---------------------------- MODULE SchedulePages ----------------------------
(***************************************************************************)
(* The pages that edit schedules (views/beat.py), the library's helpers      *)
(* (engine/beat.py) and the BeatController under both.  An app's schedules    *)
(* are kept in Root's table or, under django-celery-beat, as periodic tasks   *)
(* of the Django database with a copy in the table.  A request is several     *)
(* calls, each of which may fail and end it, and others go on in between.     *)
(* A schedule is known by its name; what else it holds is left out.           *)
(***************************************************************************)
EXTENDS Absent, Naturals, Sequences, FiniteSets, SequencesExt

CONSTANTS
  BeatApps,          \* the registered apps
  DjangoApps,        \* those whose beat_scheduler is django-celery-beat's
  Names,             \* names of schedules, which serve as ids in the table
  Keys,              \* primary keys of periodic tasks, as ids
  Users,
  MaxRequests,       \* bound: requests
  MaxCallFailures    \* bound: calls that fail

VARIABLES
  scheduleRows,     \* id -> row of the table
  periodicTasks, \* primary key -> name of a periodic task
  usable,        \* django-celery-beat's models can be loaded in this process
  listed,        \* user: what the page of schedules showed, as <<app, id>>
  toCall,        \* user: the calls its request has yet to make
  kept,          \* history: the names the users have saved and not deleted
  broken,        \* history: names whose move was cut short by a failed call
  requests, callFailures

scheduleVars == <<scheduleRows, periodicTasks, usable, listed, toCall, kept, broken,
                  requests, callFailures>>

Ids == Names \cup Keys
TableRow == [name : Names, app : BeatApps \cup {None}]

(* A call: "store" and "delete" go to the table, "save" and "drop" to Django, "copy"
   lists a backend.  "why" is what the user asked for. *)
BeatCall == [do : {"store", "delete", "save", "drop", "copy"}, id : Ids \cup {None},
             row : TableRow \cup {None}, app : BeatApps \cup {None}, why : {"save", "move", "delete"}]

ASSUME SchedulesAssumption ==
  /\ IsFiniteSet(BeatApps) /\ IsFiniteSet(Keys)
  /\ None \notin Names \cup BeatApps \cup TableRow \cup {"gone"}
  /\ "gone" \notin Names
  /\ MaxRequests \in Nat /\ MaxCallFailures \in Nat

SchedulesTypeOK ==
  /\ scheduleRows \in [Ids -> TableRow \cup {None}]
  /\ periodicTasks \in [Keys -> Names \cup {None, "gone"}]
  /\ usable \in BOOLEAN
  /\ listed \in [Users -> SUBSET (BeatApps \X Ids)]
  /\ toCall \in [Users -> Seq(BeatCall)]
  /\ kept \subseteq Names /\ broken \subseteq Names
  /\ requests \in 0 .. MaxRequests /\ callFailures \in 0 .. MaxCallFailures

SchedulesInit ==
  /\ scheduleRows = [i \in Ids |-> None]
  /\ periodicTasks = [k \in Keys |-> None]
  /\ usable \in BOOLEAN
  /\ listed = [u \in Users |-> {}]
  /\ toCall = [u \in Users |-> <<>>]
  /\ kept = {} /\ broken = {}
  /\ requests = 0 /\ callFailures = 0

-----------------------------------------------------------------------------
(* BeatController *)

ACall(do, id, row) == [do |-> do, id |-> id, row |-> row, app |-> None, why |-> "save"]

DetectBackend(app) == IF app \in DjangoApps THEN "django_celery_beat" ELSE "db"

SaveSchedule(app, id, row) ==
  IF DetectBackend(app) = "db"
  THEN <<ACall("store", id, [row EXCEPT !.app = IF @ = None THEN app ELSE @])>>
  ELSE <<ACall("save", id, row), ACall("store", id, row)>>

DeleteSchedule(app, id) ==
  IF DetectBackend(app) = "db"
  THEN <<ACall("delete", id, None)>>
  ELSE <<ACall("drop", id, None), ACall("delete", id, None)>>

(* What an app lists.  The pages show nothing for a backend that cannot be loaded. *)
ListDb(app) == {i \in Ids : scheduleRows[i] # None /\ scheduleRows[i].app = app}
ListDjango == {k \in Keys : periodicTasks[k] \in Names}

ListSchedules(app) ==
  IF DetectBackend(app) = "db" THEN ListDb(app) ELSE IF usable THEN ListDjango ELSE {}

NameOf(app, id) == IF DetectBackend(app) = "db" THEN scheduleRows[id].name ELSE periodicTasks[id]

(* Looked up by key, then by name; else a new periodic task.  Keys are not used again. *)
GetPeriodicTask(id, name) ==
  LET named == {k \in Keys : periodicTasks[k] = name}
      unused == {k \in Keys : periodicTasks[k] = None}
  IN  IF id \in ListDjango THEN {id}
      ELSE IF named # {} THEN named ELSE unused

SaveDjango(id, name) ==
  \E k \in GetPeriodicTask(id, name) :
    periodicTasks' = [periodicTasks EXCEPT ![k] = IF @ = None THEN name ELSE @]

(* Deleted by key, or by name when there was none. *)
Dropped(id) ==
  IF id \in ListDjango THEN {id} ELSE {k \in Keys : periodicTasks[k] = id}

-----------------------------------------------------------------------------
(* Requests: each is turned into its calls when it comes. *)

For(why, calls) == [i \in DOMAIN calls |-> [calls[i] EXCEPT !.why = why]]

BeginRequest(u, calls) ==
  /\ toCall[u] = <<>>
  /\ requests < MaxRequests
  /\ requests' = requests + 1
  /\ toCall' = [toCall EXCEPT ![u] = calls]
  /\ UNCHANGED <<scheduleRows, periodicTasks, usable, listed, kept, broken, callFailures>>

BeatPage(u) ==
  /\ toCall[u] = <<>>
  /\ listed' = [listed EXCEPT ![u] =
                 UNION {{app} \X ListSchedules(app) : app \in BeatApps}]
  /\ UNCHANGED <<scheduleRows, periodicTasks, usable, toCall, kept, broken, requests, callFailures>>

(* The form of a new schedule names the app; its id is its name. *)
ParseForm(name, app) == [name |-> name, app |-> app]

BeatAdd(u, name, app) == BeginRequest(u, SaveSchedule(app, name, ParseForm(name, app)))

(* Mutant: saved in the new place first. *)
MovedSaveFirst(from, to, id, row) ==
  For("move", SaveSchedule(to, id, row) \o DeleteSchedule(from, id))

(* An edit that names another app takes the schedule from the old one first. *)
Moved(from, to, id, row) ==
  For("move", DeleteSchedule(from, id) \o SaveSchedule(to, id, row))

(* The list is read again for the edit. *)
BeatEdit(u, from, id, to) ==
  /\ <<from, id>> \in listed[u] /\ id \in ListSchedules(from)
  /\ LET row == ParseForm(NameOf(from, id), to)
     IN BeginRequest(u, IF from = to THEN SaveSchedule(to, id, row) ELSE Moved(from, to, id, row))

(* It is not for a deletion. *)
BeatDelete(u, app, id) ==
  /\ <<app, id>> \in listed[u]
  /\ BeginRequest(u, For("delete", DeleteSchedule(app, id)))

BeatSync(u) ==
  LET apps == SetToSeq(BeatApps)
  IN BeginRequest(u, [i \in DOMAIN apps |-> [ACall("copy", None, None) EXCEPT !.app = apps[i]]])

(* The library without an app: the table only, and the row is nobody's. *)
LibrarySave(u, name) == BeginRequest(u, <<ACall("store", name, ParseForm(name, None))>>)
LibraryDelete(u, id) == BeginRequest(u, For("delete", <<ACall("delete", id, None)>>))

-----------------------------------------------------------------------------
(* The calls *)

(* The schedules a request has yet to save where it moves them. *)
Moving(u) ==
  {c.row.name : c \in {d \in Range(toCall[u]) : d.why = "move" /\ d.do = "store"}}

Without(u) == [toCall EXCEPT ![u] = Tail(@)]
NamesAt(ids) == {scheduleRows[i].name : i \in {j \in ids : scheduleRows[j] # None}}

StoreCall(u, call) ==
  /\ call.do = "store"
  /\ scheduleRows' = [scheduleRows EXCEPT ![call.id] = call.row]
  /\ kept' = (kept \ NamesAt({call.id})) \cup {call.row.name}
  /\ broken' = broken \ {call.row.name}
  /\ toCall' = Without(u)
  /\ UNCHANGED periodicTasks

DeleteCall(u, call) ==
  /\ call.do = "delete"
  /\ scheduleRows' = [scheduleRows EXCEPT ![call.id] = None]
  /\ kept' = IF call.why = "delete" THEN kept \ NamesAt({call.id}) ELSE kept
  /\ toCall' = Without(u)
  /\ UNCHANGED <<periodicTasks, broken>>

SaveCall(u, call) ==
  /\ call.do = "save" /\ usable
  /\ SaveDjango(call.id, call.row.name)
  /\ toCall' = Without(u)
  /\ UNCHANGED <<scheduleRows, kept, broken>>

DropCall(u, call) ==
  /\ call.do = "drop" /\ usable
  /\ periodicTasks' = [k \in Keys |-> IF k \in Dropped(call.id) THEN "gone" ELSE periodicTasks[k]]
  /\ kept' = IF call.why = "delete" THEN kept \ {periodicTasks[k] : k \in Dropped(call.id)} ELSE kept
  /\ toCall' = Without(u)
  /\ UNCHANGED <<scheduleRows, broken>>

(* sync_to_db: what django-celery-beat has is stored, each in a call. *)
CopyCall(u, call) ==
  LET found == SetToSeq(ListDjango)
  IN  /\ call.do = "copy"
      /\ DetectBackend(call.app) = "db" \/ usable
      /\ toCall' = [toCall EXCEPT ![u] =
           (IF DetectBackend(call.app) = "db" THEN <<>>
            ELSE [i \in DOMAIN found |->
                    ACall("store", found[i], ParseForm(periodicTasks[found[i]], call.app))])
             \o Tail(@)]
      /\ UNCHANGED <<scheduleRows, periodicTasks, kept, broken>>

(* An RPC that fails, or django-celery-beat's models that cannot be loaded: the
   exception ends the request. *)
CallRaises(u, call) ==
  /\ IF ~ usable /\ (call.do \in {"save", "drop"} \/ call.app \in DjangoApps)
     THEN UNCHANGED callFailures
     ELSE callFailures < MaxCallFailures /\ callFailures' = callFailures + 1
  /\ broken' = broken \cup Moving(u)
  /\ toCall' = [toCall EXCEPT ![u] = <<>>]
  /\ UNCHANGED <<scheduleRows, periodicTasks, kept>>

BeatPageCall(u) ==
  /\ toCall[u] # <<>>
  /\ LET call == Head(toCall[u])
     IN \/ /\ \/ StoreCall(u, call) \/ DeleteCall(u, call)
              \/ SaveCall(u, call) \/ DropCall(u, call) \/ CopyCall(u, call)
           /\ UNCHANGED callFailures
        \/ CallRaises(u, call)
  /\ UNCHANGED <<usable, listed, requests>>

SchedulesNext ==
  \E u \in Users :
    \/ BeatPage(u)
    \/ \E name \in Names, app \in BeatApps : BeatAdd(u, name, app)
    \/ \E from, to \in BeatApps, id \in Ids : BeatEdit(u, from, id, to)
    \/ \E app \in BeatApps, id \in Ids : BeatDelete(u, app, id)
    \/ BeatSync(u)
    \/ \E name \in Names : LibrarySave(u, name)
    \/ \E id \in Ids : LibraryDelete(u, id)
    \/ BeatPageCall(u)

SchedulesSpec == SchedulesInit /\ [][SchedulesNext]_scheduleVars

-----------------------------------------------------------------------------
(* Whatever the pages, other users and failed calls do, a schedule somebody saved
   and nobody deleted is in the table or in Django, except while a request that
   moves it is under way and after one was cut short. *)
MovesKeepSchedules ==
  kept \subseteq NamesAt(Ids) \cup {periodicTasks[k] : k \in ListDjango}
                   \cup broken \cup (UNION {Moving(u) : u \in Users})
=============================================================================

----------------------------- MODULE MCTaskStore -----------------------------
(* Instances of TaskStore for TLC. *)
EXTENDS TaskStore

CONSTANTS t1, t2, v1

NoCols == [c \in Columns |-> None]
Event(task, state, ts, retries, cols) ==
  [task |-> task, state |-> state, ts |-> ts, retries |-> retries, cols |-> cols]

(* The received event of a child names its parent and its group, as Celery sends
   it; the rejected one reports a nested chord as well. *)
Linked(chord) ==
  [NoCols EXCEPT !["parent"] = t1, !["group"] = "g1", !["chord"] = chord,
                 !["root"] = t1, !["info"] = v1]

Cols(state) ==
  IF state = "RECEIVED" THEN Linked(None)
  ELSE IF state = "REJECTED" THEN Linked("h1") ELSE NoCols

Counts(state) == IF state \in {"RECEIVED", "RETRY"} THEN {0, 1} ELSE {None}

(* Every state of a child task, early and late, with and without a retry count
   and links. *)
ChildEvents ==
  UNION {{Event(t2, s, ts, n, Cols(s)) : ts \in {0, MaxTime}, n \in Counts(s)} : s \in States}

(* The parent only finishes. *)
Events == ChildEvents \cup {Event(t1, "SUCCESS", 1, None, NoCols)}

AllNodes == {t1, t2, "g1", "h1"}

AnnouncedEdges ==
  {[root |-> t1, parent |-> None, child |-> t2, relation |-> "group"]}

ASSUME LinkedRoots == RootsAreStable
=============================================================================

----------------------------- MODULE SmartRetry -----------------------------
(***************************************************************************)
(* smart_retry: re-sends a failed task and everything downstream of it.  It *)
(* walks the relations stored for the task's root breadth-first and then    *)
(* reads each task again and sends it.  The relation table may hold a       *)
(* relation twice, in any order, and even cycles (a task that retries        *)
(* itself); a task may be gone by the time it is read; a send may raise.    *)
(***************************************************************************)
EXTENDS Integers, SequencesExt

CONSTANTS
  GraphIds,          \* ids in the relations of one root: tasks, groups, chords
  FailedTask,       \* failed_task_id
  Possible      \* the relations that may be stored, as pairs <<parent, child>>

ASSUME RetryAssumption ==
  /\ IsFiniteSet(GraphIds) /\ FailedTask \in GraphIds
  /\ Possible \subseteq GraphIds \X GraphIds

VARIABLES
  rootRelations,  \* the relations stored for the root, as a set of pairs
  doubled,      \* the ones stored twice
  queue,        \* _descendants_bfs
  visited,
  order,
  phase,        \* "walk", "send", "done" or "raised"
  results,      \* the tasks sent so far
  skipped       \* history: the tasks that could not be sent

linkVars == <<rootRelations, doubled>>
retryVars == <<rootRelations, doubled, queue, visited, order, phase, results, skipped>>

RetryTypeOK ==
  /\ rootRelations \subseteq GraphIds \X GraphIds
  /\ doubled \subseteq rootRelations
  /\ queue \in Seq(GraphIds)
  /\ visited \subseteq GraphIds
  /\ order \in Seq(GraphIds)
  /\ phase \in {"walk", "send", "done", "raised"}
  /\ results \in Seq(GraphIds)
  /\ skipped \subseteq GraphIds

Children(id) == {child \in GraphIds : <<id, child>> \in rootRelations}

(* The orders in which _build_adjacency may list the children of an id, without
   those the walk passes over as visited. *)
Adjacency(id, seen) ==
  LET new == Children(id) \ seen
  IN  {s \o t : s \in SetToSeqs(new), t \in SetToSeqs({c \in new : <<id, c>> \in doubled})}

RetryInit ==
  /\ rootRelations \in SUBSET Possible
  /\ doubled \in {{}, rootRelations}
  /\ queue = <<FailedTask>>
  /\ visited = {}
  /\ order = <<>>
  /\ phase = "walk"
  /\ results = <<>>
  /\ skipped = {}

-----------------------------------------------------------------------------
(* Mutant: the last id queued goes first. *)
VisitDeepest ==
  /\ phase = "walk" /\ queue # <<>>
  /\ LET node == Last(queue)
     IN  IF node \in visited
         THEN queue' = Front(queue) /\ UNCHANGED <<visited, order>>
         ELSE /\ visited' = visited \cup {node}
              /\ order' = Append(order, node)
              /\ \E children \in Adjacency(node, visited') : queue' = Front(queue) \o children
  /\ UNCHANGED <<linkVars, phase, results, skipped>>

(* Mutant: an id met again is put off. *)
VisitPutsOff ==
  /\ phase = "walk" /\ queue # <<>>
  /\ LET node == Head(queue)
     IN  IF node \in visited
         THEN queue' = Append(Tail(queue), node) /\ UNCHANGED <<visited, order>>
         ELSE /\ visited' = visited \cup {node}
              /\ order' = Append(order, node)
              /\ \E children \in Adjacency(node, visited') : queue' = Tail(queue) \o children
  /\ UNCHANGED <<linkVars, phase, results, skipped>>

(* One turn of the loop of _descendants_bfs. *)
Visit ==
  /\ phase = "walk" /\ queue # <<>>
  /\ LET node == Head(queue)
     IN  IF node \in visited
         THEN queue' = Tail(queue) /\ UNCHANGED <<visited, order>>
         ELSE /\ visited' = visited \cup {node}
              /\ order' = Append(order, node)
              /\ \E children \in Adjacency(node, visited') : queue' = Tail(queue) \o children
  /\ UNCHANGED <<linkVars, phase, results, skipped>>

EndWalk ==
  /\ phase = "walk" /\ queue = <<>>
  /\ phase' = "send"
  /\ UNCHANGED <<linkVars, queue, visited, order, results, skipped>>

(* Mutant: a task that cannot be sent ends the sending. *)
NextTaskStops ==
  /\ phase = "send" /\ order # <<>>
  /\ order' = Tail(order)
  /\ \/ results' = Append(results, Head(order)) /\ UNCHANGED <<skipped, phase>>
     \/ skipped' = skipped \cup {Head(order)} /\ phase' = "done" /\ UNCHANGED results
     \/ phase' = "raised" /\ UNCHANGED <<results, skipped>>
  /\ UNCHANGED <<linkVars, queue, visited>>

(* The next id: it is sent, or has no row, no name or no worker, or send raises. *)
NextTask ==
  /\ phase = "send" /\ order # <<>>
  /\ order' = Tail(order)
  /\ \/ results' = Append(results, Head(order)) /\ UNCHANGED <<skipped, phase>>
     \/ skipped' = skipped \cup {Head(order)} /\ UNCHANGED <<results, phase>>
     \/ phase' = "raised" /\ UNCHANGED <<results, skipped>>
  /\ UNCHANGED <<linkVars, queue, visited>>

EndRetry ==
  /\ phase = "send" /\ order = <<>>
  /\ phase' = "done"
  /\ UNCHANGED <<linkVars, queue, visited, order, results, skipped>>

RetryNext == Visit \/ EndWalk \/ NextTask \/ EndRetry

RetrySpec == RetryInit /\ [][RetryNext]_retryVars

-----------------------------------------------------------------------------
(* The ids at most n relations away from the failed task. *)
DownTo[n \in 0 .. Cardinality(GraphIds)] ==
  IF n = 0 THEN {FailedTask} ELSE DownTo[n - 1] \cup UNION {Children(id) : id \in DownTo[n - 1]}

Downstream == DownTo[Cardinality(GraphIds)]

Distance(id) == CHOOSE n \in DOMAIN DownTo : id \in DownTo[n] /\ \A m \in 0 .. n - 1 : id \notin DownTo[m]

(* A retry that returns has sent every task downstream of the failed one exactly
   once, save those it could not send, however often relations are stored and
   whatever cycles they form. *)
RetriesAllOnce ==
  /\ \A i, j \in DOMAIN results : i # j => results[i] # results[j]
  /\ phase = "done" => ToSet(results) = Downstream \ skipped

(* Tasks go in the order of their distance from the failed task. *)
NearestFirst ==
  \A i, j \in DOMAIN results : i < j => Distance(results[i]) <= Distance(results[j])

(* A retry comes to its end: a turn of the walk visits an id not visited before or
   leaves fewer on the queue, a turn of the sending leaves fewer to send, and
   neither begins again. *)
RetryEnds ==
  [][\/ /\ phase = "walk" /\ phase' = "walk"
        /\ visited \subseteq visited'
        /\ visited' # visited \/ Len(queue') < Len(queue)
     \/ phase = "walk" /\ phase' = "send"
     \/ phase = "send" /\ phase' = "send" /\ Len(order') < Len(order)
     \/ phase = "send" /\ phase' \in {"done", "raised"}]_retryVars
=============================================================================

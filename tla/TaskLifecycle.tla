---------------------------- MODULE TaskLifecycle ----------------------------
(***************************************************************************)
(* What the task table promises to its readers (the web pages, the API, the *)
(* reconciler): a task is absent, open or closed with an outcome; a closed  *)
(* task never reopens, the retries counted for a task never drop, and the   *)
(* only way back is to be forgotten by the retention.                       *)
(***************************************************************************)
EXTENDS Integers

CONSTANTS TaskIds, None

Outcomes == {"SUCCESS", "FAILURE", "REVOKED"}
Phases == Outcomes \cup {"absent", "open"}

VARIABLES phase, tries

vars == <<phase, tries>>

Init ==
  /\ phase = [t \in TaskIds |-> "absent"]
  /\ tries = [t \in TaskIds |-> None]

(* new is a count no smaller than the one known so far. *)
AtLeast(new, known) ==
  IF known = None THEN new = None \/ new \in Nat ELSE new \in Nat /\ new >= known

SetTries(t) ==
  /\ tries' = [tries EXCEPT ![t] = tries'[t]]
  /\ AtLeast(tries'[t], tries[t])

(* A report of progress: opens an absent task, leaves a closed one closed. *)
Report(t) ==
  /\ phase' = [phase EXCEPT ![t] = IF @ = "absent" THEN "open" ELSE @]
  /\ SetTries(t)

(* A report of an outcome; a later one replaces an earlier one. *)
Close(t, outcome) ==
  /\ phase' = [phase EXCEPT ![t] = outcome]
  /\ SetTries(t)

(* The retention forgets any number of tasks at once. *)
Forget(old) ==
  /\ phase' = [t \in TaskIds |-> IF t \in old THEN "absent" ELSE phase[t]]
  /\ tries' = [t \in TaskIds |-> IF t \in old THEN None ELSE tries[t]]

Next ==
  \/ \E t \in TaskIds : Report(t)
  \/ \E t \in TaskIds, outcome \in Outcomes : Close(t, outcome)
  \/ \E old \in SUBSET TaskIds : Forget(old)

Spec == Init /\ [][Next]_vars
=============================================================================

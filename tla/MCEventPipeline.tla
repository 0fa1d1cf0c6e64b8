--------------------------- MODULE MCEventPipeline ---------------------------
(* Instances of EventPipeline for TLC. *)
EXTENDS EventPipeline

CONSTANTS t1, t2, w1, w2

(* Each task is delivered to one worker, t1 twice; w2 sends events of its own. *)
OneEach == [t \in Tasks |-> IF t = t1 THEN {w1} ELSE {w2}]
FirstTwice == [t \in Tasks |-> IF t = t1 THEN 2 ELSE 1]
Once == [t \in Tasks |-> 1]
SecondSpeaks == [w \in Workers |-> IF w = w2 THEN {1} ELSE {}]
=============================================================================

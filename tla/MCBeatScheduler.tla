--------------------------- MODULE MCBeatScheduler ---------------------------
(* Instances of BeatScheduler for TLC. *)
EXTENDS BeatScheduler

CONSTANTS a1, a2

(* One app; a definition is its interval, 0 stands for a disabled one and 9 for
   a cron expression that Celery does not parse. *)
OneApp == [d \in Defs |-> a1]
Intervals == [d \in Defs |-> IF d \in {0, 9} THEN 1 ELSE d]
(* The definitions 0, 2 and 9 are for the second app. *)
TwoApps == [d \in Defs |-> IF d \in {0, 2, 9} THEN a2 ELSE a1]
AllButZero == Defs \ {0}
Nines == Defs \cap {9}
=============================================================================

----------------------------- MODULE MCConsole -----------------------------
(* The autoscale button of the worker page, against what its handler says of it:
   one app, a worker, and what inspections told of its pool. *)
EXTENDS Console

VARIABLE told   \* worker: the pool size its last snapshot told, or None

MCAppNames == <<"A">>
MCBrokerOf == [A |-> "redis"]
MCTasksOf == [A |-> {"x"}]
MCTaskQueues == [A |-> {}]
MCTaskQueue == [A |-> "celery"]
MCAppOf == [w \in Workers |-> "A"]
MCConsumes == [w \in Workers |-> {"celery"}]
MCSubmissions == {[name |-> "x", queue |-> None]}

HistoryInit ==
  /\ ConsoleInit
  /\ told = [w \in Workers |-> None]

HistoryNext ==
  /\ ConsoleNext
  /\ told' = [w \in Workers |->
       IF rows'[w] # rows[w] /\ rows'[w].pool # None THEN rows'[w].pool ELSE told[w]]

HistorySpec == HistoryInit /\ [][HistoryNext]_<<consoleVars, told>>

(* "Enable autoscale on a worker using current pool size as max": the limit is the
   size of the pool when the last snapshot told the size the pool still has.  The
   heartbeat after it has written NULL over that size, and the limit is 1. *)
AutoscaleAtPoolSize ==
  [][\A w \in Workers : AutoscaleRead(w) /\ told[w] = pool[w] => command'.limit = pool[w]]_consoleVars
=============================================================================

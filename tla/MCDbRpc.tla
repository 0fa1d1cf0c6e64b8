------------------------------- MODULE MCDbRpc -------------------------------
(* Instances of DbRpc for TLC.  Two writes of one client beside a read of another,
   none of them retried, as every caller in the code does; a retried ingest beside
   a write; a retried read beside a write. *)
EXTENDS DbRpc

CONSTANTS c1, c2

Plain(name) == [name |-> name, retries |-> 0]
Retried(name) == [name |-> name, retries |-> 1]

TwoBesideOne(first, second, other) ==
  [r \in {<<c1, 1>>, <<c1, 2>>, <<c2, 1>>} |->
     Plain(IF r[1] = c2 THEN other ELSE IF r[2] = 1 THEN first ELSE second)]
RetriedBesideOne(name, other) ==
  [r \in {<<c1, 1>>, <<c2, 1>>} |-> IF r[1] = c1 THEN Retried(name) ELSE Plain(other)]

MCWorkloads ==
  {TwoBesideOne("schedules.store", "schedules.delete", "tasks.page"),
   RetriedBesideOne("events.task.ingest", "events.worker.ingest"),
   RetriedBesideOne("stats.task", "db.cleanup")}
=============================================================================

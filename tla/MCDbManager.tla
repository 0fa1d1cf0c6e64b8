---------------------------- MODULE MCDbManager ----------------------------
(* The DB manager, from its two sides: the calls of its clients (DbRpc), and what
   its handlers do to the tables (TaskStore).  They share no state here, since a
   handler is one step of either, so each behaviour is one of the one or of the
   other. *)
EXTENDS MCDbRpc, MCTaskStore

VARIABLE part

managerVars == <<vars, taskVars, part>>

ManagerInit ==
  /\ Init /\ TasksInit /\ part \in {"calls", "tables"}
  /\ part # "calls" => op = CHOOSE workload \in Workloads : TRUE

CallsPart(Step) == part = "calls" /\ Step /\ UNCHANGED <<taskVars, part>>
TablesPart == part = "tables" /\ TasksNext /\ UNCHANGED <<vars, part>>

ManagerNext == CallsPart(Next) \/ TablesPart

ManagerSpec ==
  /\ ManagerInit /\ [][ManagerNext]_managerVars
  /\ \A c \in Clients : WF_managerVars(CallsPart(ClientStep(c) /\ UNCHANGED op))
=============================================================================

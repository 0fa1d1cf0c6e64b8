---------------------------- MODULE MCReconciler ----------------------------
(* What the reconciler stores: the backfill of task events (Reconciler), and the
   snapshots of workers beside their own events (WorkerFleet).  They share no
   state, so each behaviour is one of the one or of the other. *)
EXTENDS Reconciler, WorkerFleet

VARIABLE part

reconcilerVars == <<vars, fleetVars, part>>

ReconcilerInit == Init /\ FleetInit /\ part \in {"backfill", "workers"}

BackfillPart(Step) == part = "backfill" /\ Step /\ UNCHANGED <<fleetVars, part>>
WorkersPart == part = "workers" /\ FleetNext /\ UNCHANGED <<vars, part>>

ReconcilerNext == BackfillPart(Next) \/ WorkersPart

ReconcilerSpec ==
  /\ ReconcilerInit /\ [][ReconcilerNext]_reconcilerVars
  /\ WF_reconcilerVars(BackfillPart(Reconcile))
=============================================================================

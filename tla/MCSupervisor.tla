----------------------------- MODULE MCSupervisor -----------------------------
(* Instances of Supervisor for TLC. *)
EXTENDS Supervisor

CONSTANTS db, listener, beat, web

Two == <<db, web>>
Four == <<db, listener, beat, web>>
=============================================================================

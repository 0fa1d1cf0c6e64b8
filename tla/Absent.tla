------------------------------- MODULE Absent -------------------------------
(* SQL NULL and Python None, shared by the modules that are checked together. *)
CONSTANT None
=============================================================================

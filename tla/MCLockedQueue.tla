--------------------------- MODULE MCLockedQueue ---------------------------
(* Three threads, the GUI thread among them, on a ring of two slots: both  *)
(* the empty and the full queue are met at every alignment of the indices. *)
EXTENDS LockedQueue
=============================================================================

---------------------------- MODULE MCEventQueue ----------------------------
(* EventQueue on a ring of three slots: every alignment of r and w, wrap   *)
(* around included, empty and full.                                        *)
EXTENDS EventQueue
=============================================================================

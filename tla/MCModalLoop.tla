---------------------------- MODULE MCModalLoop ----------------------------
(* Two dialogs: nested in each other, one after the other in the same      *)
(* handler, and quit from each other's handlers, in any phase of a loop    *)
(* and during animations of one frame before the last.                     *)
EXTENDS ModalLoop
=============================================================================

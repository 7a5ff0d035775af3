-------------------------- MODULE MCInputPipeline --------------------------
(* A request from another thread and a queue of two slots: the queue fills *)
(* up, refuses pointer events and requests, and drains again, in the outer *)
(* loop or in the loop of a dialog.                                        *)
EXTENDS InputPipeline
=============================================================================

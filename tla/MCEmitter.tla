----------------------------- MODULE MCEmitter -----------------------------
(* Three or four handlers for two types of events, with each discipline of *)
(* use that handlers may follow.                                           *)
EXTENDS Emitter
=============================================================================

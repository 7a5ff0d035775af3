--------------------------- MODULE MCTimerManager ---------------------------
(* Three timers and a clock of a few ticks, with Wrap out of the clock's   *)
(* reach.                                                                  *)
EXTENDS TimerManager
=============================================================================

--------------------------- MODULE MCWidgetTimers ---------------------------
(* One widget of each kind; WidgetTimers.cfg gives the values.             *)
EXTENDS WidgetTimers
=============================================================================

--------------------------- MODULE MCIdleManager ---------------------------
(* Four idles at a time, and dispatches nested three deep (main loop,      *)
(* modal dialog, dialog opened from that dialog).                          *)
EXTENDS IdleManager
=============================================================================

-------------------------- MODULE MCWindowManager --------------------------
(* A home window, a page that slides in and a popup: openings and closings *)
(* that overlap in every order, from event handlers too.                   *)
EXTENDS WindowManager
=============================================================================

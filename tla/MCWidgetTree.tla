---------------------------- MODULE MCWidgetTree ----------------------------
(* A window with a box that holds a button, and a scroll view beside it    *)
(* that the application may move widgets into.                             *)
EXTENDS WidgetTree, TLC

CONSTANTS win, box, item, view

MCParent == (win :> NoWidget) @@ (box :> win) @@ (item :> box) @@ (view :> win)
=============================================================================

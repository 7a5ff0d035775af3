--------------------------- MODULE MCInputMethod ---------------------------
(* Two text and two number fields, one of each below the keyboard.         *)
EXTENDS InputMethod
=============================================================================

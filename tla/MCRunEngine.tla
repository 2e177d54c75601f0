---------------------------- MODULE MCRunEngine -----------------------------
(* Calls as model values: i1 interactive, b1 background.                   *)
EXTENDS RunEngine

CONSTANTS i1, b1
=============================================================================

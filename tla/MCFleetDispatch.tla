-------------------------- MODULE MCFleetDispatch ---------------------------
(* Task a is dispatched by id, w as a whole definition. *)
EXTENDS FleetDispatch

CONSTANTS a, w
=============================================================================

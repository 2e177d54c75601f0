----------------------------- MODULE MCGovernor -----------------------------
(* Governor for TLC: callers are model values of either lane.              *)
EXTENDS Governor
=============================================================================

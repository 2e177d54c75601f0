----------------------------- MODULE MCMonitor -----------------------------
(* The monitor runner on one page and one host.                            *)
EXTENDS Monitor
=============================================================================

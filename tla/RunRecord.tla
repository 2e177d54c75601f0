----------------------------- MODULE RunRecord ------------------------------
(***************************************************************************)
(* What a row of the `runs` table promises its readers (the runs feed, the *)
(* live-activity views, boot reconciliation): it is opened once, may move  *)
(* between the two in-flight statuses, is closed once with a terminal      *)
(* status, and a closed record never changes again.                        *)
(***************************************************************************)
CONSTANT Calls

VARIABLE row

InFlight == {"running", "repairing"}
Terminal == {"success", "failed", "captcha_required", "twofa_required",
             "timeout", "cancelled", "interrupted"}
Status == {"none"} \cup InFlight \cup Terminal

RecordInit == row = [c \in Calls |-> "none"]

Open(c) ==
    /\ row[c] = "none"
    /\ row' = [row EXCEPT ![c] = "running"]

Note(c) ==
    /\ row[c] \in InFlight
    /\ \E s \in InFlight : row' = [row EXCEPT ![c] = s]

Close(c) ==
    /\ row[c] \in InFlight
    /\ \E s \in Terminal \ {"interrupted"} : row' = [row EXCEPT ![c] = s]

\* Boot reconciliation closes every record the dead process left open.
Reconcile ==
    row' = [c \in Calls |-> IF row[c] \in InFlight THEN "interrupted" ELSE row[c]]

RecordNext == Reconcile \/ \E c \in Calls : Open(c) \/ Note(c) \/ Close(c)

RecordSpec == RecordInit /\ [][RecordNext]_row
=============================================================================

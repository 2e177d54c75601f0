----------------------------- MODULE MCScheduler -----------------------------
(* Days of three hours and weeks of two days.  Every clock change inside the *)
(* covered span that does not skip the last hour of a day.                  *)
EXTENDS Scheduler

MCPlans ==
    {[kind |-> "interval", every |-> 2]}
    \cup {[kind |-> "daily", hour |-> h] : h \in 0..(DayLen - 1)}
    \cup {[kind |-> "weekly", hour |-> DayLen - 1, days |-> {0}]}

MCZones ==
    {z \in [base : {-1}, at : Start..(End - 1), shift : {-1, 1}] :
        z.shift = 1 => (z.at + z.base) % DayLen # DayLen - 1}
=============================================================================

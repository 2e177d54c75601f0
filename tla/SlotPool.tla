------------------------------ MODULE SlotPool ------------------------------
(***************************************************************************)
(* What admission promises its callers, whatever happens inside it: a set  *)
(* of running callers that never exceeds the global ceiling and whose      *)
(* background part never exceeds the sub-ceiling.  A slot is granted, given *)
(* back, or handed straight to a waiting interactive caller.               *)
(***************************************************************************)
EXTENDS Integers, FiniteSets

CONSTANTS Interactive, Background, Ceiling, BackgroundLimit

VARIABLE running

Within(s) ==
    /\ Cardinality(s) <= Ceiling
    /\ Cardinality(s \cap Background) <= BackgroundLimit

PoolInit == running = {}

Grant(c) ==
    /\ c \notin running
    /\ Within(running \cup {c})
    /\ running' = running \cup {c}

GiveBack(c) ==
    /\ c \in running
    /\ running' = running \ {c}

HandOver(c, i) ==
    /\ c \in running
    /\ i \in Interactive \ running
    /\ running' = (running \ {c}) \cup {i}

PoolNext ==
    \/ \E c \in Interactive \cup Background : Grant(c) \/ GiveBack(c)
    \/ \E c \in Interactive \cup Background, i \in Interactive : HandOver(c, i)

PoolSpec == PoolInit /\ [][PoolNext]_running
=============================================================================

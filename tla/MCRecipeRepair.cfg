SPECIFICATION FairSpec
CONSTANTS
    Runs = {r1, r2}
    Steps = 2
    NoRun = NoRun
INVARIANTS OneRepairer
PROPERTIES GuardHeldToEnd RunsEnd
CHECK_DEADLOCK FALSE

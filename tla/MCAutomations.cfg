SPECIFICATION FairSpec
CONSTANTS
    hook = hook
    followup = followup
    begun = begun
    over = over
    Autos <- MCAutos
    Config <- MCConfig
    Runs = {1}
    Flows = {1, 2, 3}
    Faults = {"crash", "hangup", "busy"}
    MaxTriggers = 2
    MaxFaults = 1
    None = None
INVARIANTS OneHop ReportIsTrue MaxFiresHeld
PROPERTIES WatcherEnds
CHECK_DEADLOCK FALSE

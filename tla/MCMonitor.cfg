SPECIFICATION FairSpec
CONSTANTS
    Targets = {t1}
    Selectors = {s1}
    Cadence = 4
    Period = 1
    Faults = {"crash", "hangup", "panic", "busy", "missing"}
    MaxEdits = 1
    MaxOutages = 1
    MaxFaults = 1
    MaxLag = 0
    None = None
INVARIANTS HealthTold NoRenotify
PROPERTIES CaughtUp
CHECK_DEADLOCK FALSE

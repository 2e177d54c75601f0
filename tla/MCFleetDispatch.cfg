SPECIFICATION FairSpec
CONSTANTS
    a = a
    w = w
    ById = {a}
    Wire = {w}
    Limit = 1
    LedgerCap = 1
    MaxQueue = 1
    MaxFaults = 1
    MaxCrashes = 1
INVARIANTS ClaimMatchesHandler CancelReachesOwnRun ExecutedOnce
PROPERTIES TasksAnswered

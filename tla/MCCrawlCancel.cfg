SPECIFICATION Spec
CONSTANTS
    u1 = u1
    u2 = u2
    u3 = u3
    u4 = u4
    u5 = u5
    Urls = {u1, u2, u3, u4, u5}
    Batch <- MCBatch
    Seeds <- MCSeeds
    Links <- MCLinks
    Site <- MCSite
    Disallowed = {u4}
    MaxDepth = 2
    Budget = 3
    VisitedCap = 4
    Window = 2
    RenderSlots = 1
    BlockAbort = 2
    PollEvery = 4
    FlushBatch = 2
    Faults = {}
    MaxFaults = 0
INVARIANTS CancelHonoured
CHECK_DEADLOCK FALSE

SPECIFICATION FairSpec
CONSTANTS
    u1 = u1
    u2 = u2
    u3 = u3
    u4 = u4
    u5 = u5
    Urls = {u1, u2, u3, u4, u5}
    Batch <- MCBatch
    Seeds <- MCSeeds
    Links <- MCLinks
    Site <- MCSite
    Disallowed = {u4}
    MaxDepth = 2
    Budget = 3
    VisitedCap = 4
    Window = 2
    RenderSlots = 1
    BlockAbort = 2
    PollEvery = 2
    FlushBatch = 2
    Faults = {"panic", "db", "crash"}
    MaxFaults = 1
INVARIANTS BatchAccounted FrontierSound ResultComplete
PROPERTIES ShardAnswers TallyFramed RowSettles
CHECK_DEADLOCK FALSE

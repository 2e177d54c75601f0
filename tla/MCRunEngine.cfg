SPECIFICATION FairSpec
CONSTANTS
    i1 = i1
    b1 = b1
    Interactive = {i1}
    Background = {b1}
    Ceiling = 1
    BackgroundLimit = 1
    Droppable = {}
    Spawned = {b1}
    Metered = {b1}
    Ephemeral = {i1}
    AiRepair = FALSE
    MaxCrashes = 1
INVARIANTS RowMatchesRun TasksWithinCeiling ChargedForSuccess
PROPERTIES ImplementsRecord RowsSettle
CHECK_DEADLOCK FALSE

SPECIFICATION FairSpec
CONSTANTS
    i1 = i1
    b1 = b1
    Interactive = {i1}
    Background = {b1}
    Ceiling = 2
    BackgroundLimit = 1
    Droppable = {i1}
    Spawned = {b1}
    Metered = {}
    Ephemeral = {}
    AiRepair = TRUE
    MaxCrashes = 0
PROPERTIES PermitsReturn
CHECK_DEADLOCK FALSE

SPECIFICATION FairSpec
CONSTANTS
    r1 = r1
    r2 = r2
    None = None
    Rows = {r1, r2}
    Faults = {"crash"}
    MaxRotations = 2
    MaxFaults = 4
INVARIANTS SurvivesCrash UpReadsAll
PROPERTIES RotationCompletes
CHECK_DEADLOCK FALSE

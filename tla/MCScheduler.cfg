SPECIFICATION FairSpec
CONSTANTS
    DayLen = 3
    WeekLen = 2
    SearchDays = 3
    Null = Null
    Plans <- MCPlans
    Zones <- MCZones
    Start = 3
    End = 7
    MaxFaults = 1
PROPERTIES OncePerOccurrence NextIsNextOccurrence AutomationNotForgotten DueIsLaunched ShutdownCompletes
CHECK_DEADLOCK FALSE

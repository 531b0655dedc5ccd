CONSTANTS
    DayLength = 2
    WeekLength = 2
    Masks <- MCMasks
    Dates = {0}
    Modes = {"Simple"}
    DebugDelay = 1
    MaxAlarms = 2
    MaxId = 2
    MaxTime = 3
    MaxStops = 0
SPECIFICATION Spec
INVARIANTS
    EditStillNamed

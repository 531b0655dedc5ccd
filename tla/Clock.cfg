CONSTANTS
    DayLength = 2
    WeekLength = 2
    Masks <- MCMasks
    Dates = {0}
    Modes = {"Simple"}
    DebugDelay = 1
    MaxAlarms = 2
    MaxId = 2
    MaxTime = 2
    MaxStops = 2
SPECIFICATION Spec
INVARIANTS
    ClockInv
    TriggeredStillNamed
    RestartKeepsAlarms
PROPERTIES
    DismissedDoesNotRingAgain
    DismissalLoggedFirst
    DueAlarmsRing

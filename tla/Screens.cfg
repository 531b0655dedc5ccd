SPECIFICATION Spec
CONSTANTS
    HalfDay = 2
    MinuteCount = 1
    Weekdays = {w}
    LastMonth = 2
    FirstYear = 1
    LastYear = 2
    DaysIn <- MCDaysIn
    LastDay = 2
    MonthLength = 1
    Quick = 1
    Slow = 2
    Delays = {1, 3}
    MaxRecords = 2
    Addresses = {a1, a2}
    NoAddress = none
    MaxFrames = 3
SYMMETRY AddressSymmetry
INVARIANTS
    AlarmDialogInv
    StatDialogInv
    ScreensInv
PROPERTIES
    OnlyAddAdds

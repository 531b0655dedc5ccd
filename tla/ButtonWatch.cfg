CONSTANTS
    Others = {"alarm_test"}
    Callers = {"apptest", "second apptest"}
    MaxPresses = 3
    MaxSignals = 1
    MaxDepth = 1
SPECIFICATION WatchSpec
INVARIANTS
    WatchInv
PROPERTIES
    PressIsRead
    ExitCompletes

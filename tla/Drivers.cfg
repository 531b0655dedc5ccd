SPECIFICATION Spec
CONSTANTS
    Players = {"app", "test"}
    Notes = 3
    Observers = {"camera", "apptest"}
INVARIANTS
    DriversInv
    StopEndsTetris
PROPERTIES
    OpensReturn

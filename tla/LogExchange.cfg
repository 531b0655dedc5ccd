CONSTANTS
    Clocks = {"mine", "friend"}
    MaxRecords = 1
SPECIFICATION Spec
INVARIANTS
    ExchangeInv
PROPERTIES
    FetchEnds

CONSTANTS
    Count = 2
    Others = {"apptest"}
    MaxPosted = 2
SPECIFICATION Spec
INVARIANTS
    UltrasonicInv
PROPERTIES
    StepsTakeHolding
    StillHandRecognised
    ExitCompletes
    MeetsChallenge

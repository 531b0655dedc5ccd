CONSTANTS
    GameDuration = 5
    TargetMin = 2
    TargetMax = 5
SPECIFICATION Spec
INVARIANTS
    DialogInv
PROPERTIES
    HitIsLostOnlyByPressing
    DialogKeepsMoving
    MeetsChallenge

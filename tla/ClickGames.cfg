CONSTANTS
    LastNumber = 4
    Colors = {"RED", "BLUE", "GREEN"}
    RoundLength = 3
    Rounds = 3
    MaxFlashes = 2
SPECIFICATION Spec
INVARIANTS
    GamesInv
PROPERTIES
    PlayerGetsATurn
    MeetsChallenge

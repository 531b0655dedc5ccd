CONSTANTS
    SoundFiles = {"ring", "melody", "voice", "bell"}
SPECIFICATION SoundSpec
INVARIANTS
    SoundInv
PROPERTIES
    NoSoundWithoutAlarm
    RingingIsHeard
    BecomesSilent

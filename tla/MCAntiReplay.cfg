CONSTANTS
    WordBits = 3
    Words = 3
    RejectAfter = 12
    LegWidth = 4
    Turn = 8
SPECIFICATION ReplaySpec
INVARIANTS
    EngineRemembers
    ReplayIsNamed
    LegRemembers

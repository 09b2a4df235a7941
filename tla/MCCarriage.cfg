CONSTANTS
    WordBits = 1
    Words = 2
    RejectAfter = 3
    LegWidth = 2
    Turn = 4
    MaxAttempts = 2
    MaxKeys = 2
    MaxLegCounter = 5
    MaxInFlight = 2
SPECIFICATION Spec
INVARIANTS
    OpenedOnce
    LegCountersAgree
CHECK_DEADLOCK FALSE

CONSTANTS
    MaxLog = 4
    Sizes = {1, 3}
    MaxBytes = 5
    MaxEvents = 4
    Batch = 3
    MaxFaults = 2
SPECIFICATION StreamSpec
INVARIANTS
    NoSilentGap
PROPERTIES
    CatchesUp
CHECK_DEADLOCK FALSE

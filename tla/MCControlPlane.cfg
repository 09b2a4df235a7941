CONSTANTS
    d1 = d1
    d2 = d2
    p1 = p1
    x = x
    y = y
    Devices = {d1, d2}
    Pairings = {p1}
    Digests = {x, y}
    Versions = {1, 2}
    Epochs = {1}
    Ceremonies <- MCCeremonies
    MaxCounter = 2
    MaxPositions = 5
SPECIFICATION Spec
INVARIANTS
    OneOutcome LoggedOnce LogTellsState
CHECK_DEADLOCK FALSE

CONSTANTS
    Peer = {p1, p2}
    Duration <- ShortDuration
    Refusal <- Refusals
    HostEvent <- LinkLoss
    MaxOrphans = 1

SPECIFICATION Spec

INVARIANTS
    PumpHasInterface
    ConnectDecides

CHECK_DEADLOCK FALSE

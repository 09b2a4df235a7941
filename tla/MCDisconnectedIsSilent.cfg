CONSTANTS
    Peer = {p1}
    Duration <- ShortDuration
    Refusal <- Refusals
    HostEvent <- AllHostEvents
    MaxOrphans = 1

SPECIFICATION Spec

INVARIANT
    DisconnectedIsSilent

CHECK_DEADLOCK FALSE

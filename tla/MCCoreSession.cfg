CONSTANTS
    Peer = {p1}
    Duration <- ShortDuration
    Refusal <- Refusals
    HostEvent <- AllHostEvents
    MaxOrphans = 1

SPECIFICATION FairSpec

INVARIANTS
    TypeOK
    CarryingHasTunnel

PROPERTIES
    KeysComeBack
    SubmissionReturns

CHECK_DEADLOCK FALSE

CONSTANTS
    Peer = {p1}
    Value = {v1, v2}
    Damage <- BothDamages
    MaxEpoch = 2
    MaxSeq = 2
    MaxQueue = 3

SPECIFICATION Spec

INVARIANTS
    TypeOK
    EpochUnderFloor
    AnchorLeads
    AcknowledgedSurvives
    NothingSlips

PROPERTY
    FloorNeverFalls

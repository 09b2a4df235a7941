CONSTANTS
    a = a
    b = b
    t = t
    u = u
    Peer = {a, b}
    Watched = {a}
    Tag = {t, u}
    Subject <- Devices
    SubjectOf <- DeviceOf
    Prefix <- Devices
    PrefixOf <- DeviceOf
    OtherKey = k0
    Key = {k0, k1, k2, k3}
    MaxLegs = 2
    MaxPerPrefix = 2
    MaxSubjects = 2
    MaxFlows = 2
    MaxHalfFlows = 2
    LastFlowId = 2
    PendingTtl = 0
    IdleTtl = 0
    LegIdle = 0
    Token = {first, second}
    TokensOf <- Issued
    TagOf <- AlwaysT
    DeviceBucket = 0
    RelayBuckets = {0, 2}
    Skew = 1
    Faults = TRUE
    MaxToRelay = 2
    MaxToDevice = 1
SYMMETRY Symmetry
SPECIFICATION Spec
INVARIANT CarriesOnItsTag
PROPERTY LiveLegStands
CHECK_DEADLOCK FALSE

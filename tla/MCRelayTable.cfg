CONSTANTS
    a = a
    b = b
    c = c
    Peer = {a, b, c}
    Tag = {t, u}
    Subject = {a, b, c}
    SubjectOf <- Self
    Prefix <- Streets
    PrefixOf <- Street
    Key = {k}
    MaxLegs = 2
    MaxPerPrefix = 1
    MaxSubjects = 2
    MaxFlows = 2
    MaxHalfFlows = 3
    LastFlowId = 3
    PendingTtl = 0
    IdleTtl = 1
    LegIdle = 0
SYMMETRY TableSymmetry
SPECIFICATION TableSpec
INVARIANTS
    FlowIndexAgrees
    PrefixCountsLegs
    EveryFlowCharged
    DrainReachesEveryFlow
CHECK_DEADLOCK FALSE

CONSTANTS
    Duration <- ShortDuration
    CtxTransport <- TransportCodes
    CtxTerminal <- TerminalCodes
    CtxAuth <- AuthCodes

SPECIFICATION Spec

INVARIANTS
    TypeOK
    ReasonAgrees
    DeadlinesOwned

PROPERTIES
    StayUndisturbed
    KeepsLifecycle

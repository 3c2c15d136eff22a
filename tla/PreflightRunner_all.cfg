SPECIFICATION Spec
INVARIANTS
    TypeOK
    VerdictIsTruth
    TrueSeverity
    SkippedOnlyBehindRed
    NoClusterNoGo
PROPERTIES
    AlwaysPrints
    ImplementsGate
CHECK_DEADLOCK FALSE

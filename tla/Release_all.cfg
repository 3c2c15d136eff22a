SPECIFICATION ReleaseSpec
CONSTANTS
    Runs = {r1, r2}
    Versions = {"v1", "1"}
    Trim <- MCTrim
    Digests = {"d1", "d2"}
    Invocations <- MCInvocations
    MaxFailures = 2
INVARIANTS
    ReleaseTypeOK
    BomIsWhole
PROPERTY
    BomIsTrue
CHECK_DEADLOCK FALSE

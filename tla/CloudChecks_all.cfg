SPECIFICATION CloudSpec
CONSTANTS
    Secrets = {"s1", "s2"}
    Configs <- SomeEnvironments
    Given <- GivenFacts
    Varying <- VaryingFacts
    KubeConfigs = {"ok"}
    ClusterResults = {"green"}
    MaxIncidents = 1
INVARIANTS
    CloudTypeOK
    GreenIsFounded
    RedIsFounded
    EveryStageSpeaks
    CloudGoIsFounded
CHECK_DEADLOCK FALSE

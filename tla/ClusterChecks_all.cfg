SPECIFICATION ClusterSpec
CONSTANTS
    Given <- GivenFacts
    Varying <- VaryingFacts
    Versions <- AroundTheFloor
    Unparsable = Unparsable
    NoVersion = NoVersion
    CloudStages = {0}
    CloudResults = {"red"}
    MaxIncidents = 1
INVARIANTS
    ClusterTypeOK
    NoFalseGo
    NoFalseAlarm
    CanaryIsHonest
CHECK_DEADLOCK FALSE

SPECIFICATION DeploySpec
CONSTANTS
    Given <- BesideRights
    Varying <- RightsAndPolicy
    Versions <- NewEnough
    Unparsable = Unparsable
    NoVersion = NoVersion
    CloudStages = {0, 3}
    CloudResults = {"red"}
    MaxIncidents = 2
INVARIANTS
    DeployTypeOK
    TierIsHonest
    RedNeverDeploys
    PlannedTierWasHeld
CHECK_DEADLOCK FALSE

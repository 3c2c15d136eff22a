SPECIFICATION Spec
CONSTANTS
    m1 = m1
    m2 = m2
    Deployment = "Deployment"
    Rewritten = {"Deployment"}
    Render <- MCRender
    Canary = {"b"}
    Contents <- MCContents
    Nothing = Nothing
    Edited = Edited
    Held = {1, 2}
    Assigned <- MCAssigned
    Counts = {0, 1}
    NoObject = NoObject
    Managers = {m1}
    Kinds = {"Deployment", "HPA"}
    Specs = {"a", "b"}
    Unrenderable = {}
    MaxUid = 1
    MaxGen = 3
    Disturbances = {}
INVARIANTS
    ReadyMeansAllApplied
CHECK_DEADLOCK FALSE

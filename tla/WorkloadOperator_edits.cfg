SPECIFICATION Spec
CONSTANTS
    m1 = m1
    m2 = m2
    Deployment = "Deployment"
    Rewritten = {"Deployment", "Service"}
    Render <- MCRender
    Canary = {"b"}
    Contents <- MCContents
    Nothing = Nothing
    Edited = Edited
    Held = {1, 2}
    Assigned <- MCAssigned
    Counts = {0, 1}
    NoObject = NoObject
    Managers = {m1}
    Kinds = {"Deployment", "Service"}
    Specs = {"a", "b", "bad"}
    Unrenderable = {"bad"}
    MaxUid = 1
    MaxGen = 3
    Disturbances = {"lost", "crash"}
INVARIANTS
    ReadyMeansApplied
    CanaryIsVisible
PROPERTIES
    ObservedIsMonotone
CHECK_DEADLOCK FALSE

SPECIFICATION Spec
CONSTANTS
    m1 = m1
    m2 = m2
    Deployment = "Deployment"
    Rewritten = {"Deployment"}
    Render <- MCRender
    Canary = {}
    Contents <- MCContents
    Nothing = Nothing
    Edited = Edited
    Held = {1, 2}
    Assigned <- MCAssigned
    Counts = {0, 1}
    NoObject = NoObject
    Managers = {m1}
    Kinds = {"Deployment", "Ingress"}
    Specs = {"a", "b"}
    Unrenderable = {}
    MaxUid = 2
    MaxGen = 1
    Disturbances = {"remove", "lost", "crash", "end"}
INVARIANTS
    TypeOK
PROPERTIES
    Converges
CHECK_DEADLOCK FALSE

SPECIFICATION Spec
CONSTANTS
    m1 = m1
    m2 = m2
    Deployment = "Deployment"
    Rewritten = {"Deployment"}
    Render <- MCRender
    Canary = {}
    Contents <- MCContents
    Nothing = Nothing
    Edited = Edited
    Held = {1, 2}
    Assigned <- MCAssigned
    Counts = {0, 1}
    NoObject = NoObject
    Managers = {m1}
    Kinds = {"Deployment"}
    Specs = {"a"}
    Unrenderable = {}
    MaxUid = 1
    MaxGen = 1
    Disturbances = {"scale", "delete", "plant", "lost", "crash", "remove"}
PROPERTIES
    KeepsHeldFields
    RespectsForeignOwner
    ImplementsAtomicApply
CHECK_DEADLOCK FALSE

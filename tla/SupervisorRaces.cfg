SPECIFICATION Spec
CONSTANTS
    TurnIds = {t1}
    ProviderIds = {p1}
    Titles = {n1}
    Absent = Absent
    Handlers = {h1, h2}
    Operations = {"start", "send", "stop", "rename", "delete", "pin", "env"}
    StartKinds = {"structured", "pure"}
    StartEnvs = {"default"}
    MaxOps = 4
    MaxGens = 1
    MaxLines = 1
    MaxCrashes = 0
    SpawnMayFail = TRUE
SYMMETRY Symmetry
INVARIANTS LogIsLawful DecisionsAreCurrent LockstepUnlessTorn
CHECK_DEADLOCK FALSE

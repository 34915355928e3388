SPECIFICATION Spec
CONSTANTS
    TurnIds = {t1}
    ProviderIds = {p1}
    Titles = {}
    Absent = Absent
    Handlers = {h1, h2}
    Operations = {"start", "send", "stop", "resume"}
    StartKinds = {"structured"}
    StartEnvs = {"default"}
    MaxOps = 4
    MaxGens = 3
    MaxLines = 1
    MaxCrashes = 2
    SpawnMayFail = FALSE
SYMMETRY Symmetry
INVARIANTS RunningHasProvider SpawnsArePersisted
CHECK_DEADLOCK FALSE

SPECIFICATION FairSpec
CONSTANTS
    TurnIds = {t1}
    ProviderIds = {p1}
    Titles = {n1}
    Absent = Absent
    Handlers = {h1}
    Operations = {"start", "send", "interrupt", "approve", "stop"}
    StartKinds = {"structured"}
    StartEnvs = {"default"}
    MaxOps = 4
    MaxGens = 1
    MaxLines = 2
    MaxCrashes = 0
    SpawnMayFail = TRUE
INVARIANT TextIsCoalesced
PROPERTIES StopEndsProvider PumpDrains
CHECK_DEADLOCK FALSE

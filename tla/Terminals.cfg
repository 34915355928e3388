SPECIFICATION FairSpec
CONSTANTS
    Terms = {t1, t2}
    Phones = {p1, p2}
    Pilots = {e1, e2}
    Loads <- AllLoads
    Capacity = 1
    TailLines = 2
    RecentLines = 1
    MaxTurns = 2
    MaxRetries = 1
    Window = 3
    RepeatLimit = 2
    MaxSteps = 2
    None = None
INVARIANTS MirrorIsInOrder QuietSizeIsDesktops OneAnswerPerScreen
PROPERTIES BusySettles
CHECK_DEADLOCK FALSE

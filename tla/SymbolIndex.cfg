SPECIFICATION Spec
CONSTANTS
    top = top
    inner = inner
    Roots = {r1}
    KeyOf <- OwnKey
    Paths = {inner}
    DirOf <- TwoDirs
    Contents = {v1, v2}
    Huge = huge
    Tasks = {t1, t2}
    Watchers = {x1, x2}
    Listings = {l1, l2}
    MaxEdits = 2
    MaxTime = 2
    MaxRestarts = 1
    MaxWalks = 2
    None = None
SYMMETRY Symmetry
INVARIANTS SettledIndexIsCurrent OneWatcherPerKey
CHECK_DEADLOCK FALSE

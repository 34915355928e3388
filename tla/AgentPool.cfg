SPECIFICATION FairSpec
CONSTANTS
    d1 = d1
    Calls = {c1, c2}
    Distros = {d1}
    Agents = {a1, a2}
    Worktrees = {w1}
    DistroOf <- OneDistro
    None = None
    Capacity = 1
    MaxEvents = 1
    MaxDeaths = 2
INVARIANTS WaiterIsRegistered StreamIsComplete
PROPERTIES CallsAreAnswered ReplacedAgentsEnd
CHECK_DEADLOCK FALSE

SPECIFICATION Spec
CONSTANTS
    Names = {a, b}
    MaxDepth = 2
    Hidden <- HiddenFiles
    Results = 1
    Clients = {c1, c2}
    MaxOps = 3
PROPERTIES CopyIsComplete UncutSearchIsComplete
CHECK_DEADLOCK FALSE
SYMMETRY Symmetry

SPECIFICATION Spec
CONSTANTS
    Paths = {"f", "g"}
    Branches = {"main", "topic", "side"}
    Elsewhere = {}
    None = None
    Plans <- TwoPlans
    Slots = {s1, s2}
    Turns = {t1}
    MaxEdits = 1
SYMMETRY Symm
PROPERTIES EditsSurvive FinishedMergeKeepsParents QuietRebaseLosesNothing PopKeepsUnapplied RevertRestoresTracked
CHECK_DEADLOCK FALSE

SPECIFICATION EnvSpec
CONSTANTS
    Projects = {p1}
    Worktrees <- Stamps
    Actions = {a1}
    Aggregates <- AllAggregates
    Events <- WorkspaceEvents
    Writers = {w1, w2}
    MaxVersion = 3
    Names = {feat, fix}
    Outside = outside
    Labels = {x}
    Fields = {"logo", "sort"}
    Blank = blank
    Epoch = epoch
    None = none
    Unset = unset
    Window = 65536
    BaseFiles <- SomeBases
    Templates <- SomeTemplates
    MaxSpent = 5
    MaxOutside = 1
    MaxCrashes = 1
SYMMETRY Symm
INVARIANTS LogsAreLawful RowsMatchLog RenderedTemplateWins
PROPERTIES ImportIsComplete
CHECK_DEADLOCK FALSE

SPECIFICATION Spec
CONSTANTS
    None = None
    Path <- Paths
    Above <- Aboves
    max_snapshot = 2
    Inverses <- OrderInverse
    Tools = {"fs", "db", "http", "sh", "email"}
    Calls <- ToolCalls
    Starts <- ToolStarts
    MaxCalls = 3
    MaxOthers = 1
INVARIANTS
    PredictionHolds
    ReplayReproduces
PROPERTIES
    UndoKeepsNewer
    RollbackRestores
CHECK_DEADLOCK FALSE

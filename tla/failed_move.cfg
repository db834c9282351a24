SPECIFICATION Spec
CONSTANTS
    None = None
    Path <- Paths
    Above <- Aboves
    max_snapshot = 2
    Inverses <- OrderInverse
    Tools = {"fs"}
    Calls <- ToolCalls
    Starts <- ToolStarts
    MaxCalls = 2
    MaxOthers = 0
INVARIANT FailedUndoRestores
CHECK_DEADLOCK FALSE

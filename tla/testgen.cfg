SPECIFICATION CliSpec
CONSTANTS
    None = None
    NoDir = NoDir
    LoopThreshold = 3
    Call <- Calls
    GlobOf <- Globs
    Slack = 1
    Sessions <- SomeSessions
    Judges = {"heuristic", "both"}
    CallMax = 3
    Size = 4
INVARIANTS
    ExpectedIffEmbedded
    DecidesItsRecording
    ServedAsRecorded
    TroubleIsTested
    Minimized
PROPERTIES
    MinimizeEnds
CHECK_DEADLOCK FALSE

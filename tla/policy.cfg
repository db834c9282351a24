SPECIFICATION Spec
CONSTANTS
    f = f
    g = g
    Name = {f, g}
    NoLimit = NoLimit
    Policies <- SomePolicies
    LimitMax = 1
    CommitMax = 2
INVARIANTS
    FirstMatchWins
    LimitIsEnforced
PROPERTIES
    NeverLaxer
CHECK_DEADLOCK FALSE

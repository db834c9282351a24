SPECIFICATION TurnsSpec
CONSTANTS
    agent = agent
    second = second
    operator = operator
    other = other
    s1 = s1
    s2 = s2
    a1 = a1
    a2 = a2
    a3 = a3
    r1 = r1
    v0 = v0
    v1 = v1
    v2 = v2
    v3 = v3
    odd = odd
    None = None
    NoLimit = NoLimit
    ObsError = ObsError
    Proc = {agent, second}
    Session = {s1}
    Action = {a1, a2}
    Resource = {r1}
    Value <- Values
    Op <- TurnOps
    policy <- Permissive
    approver = FALSE
    Initial <- World0
    Ambient = {v0}
    Budget <- TurnBudget
    May <- TurnRoles
PROPERTIES
    NoSilentOverwrite
    OrderKeepsPrecondition
SYMMETRY MirrorImages
CHECK_DEADLOCK FALSE

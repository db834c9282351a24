SPECIFICATION Spec
CONSTANTS
    agent = agent
    second = second
    operator = operator
    other = other
    s1 = s1
    s2 = s2
    a1 = a1
    a2 = a2
    a3 = a3
    r1 = r1
    v0 = v0
    v1 = v1
    v2 = v2
    v3 = v3
    odd = odd
    None = None
    NoLimit = NoLimit
    ObsError = ObsError
    Proc = {agent, operator}
    Session = {s1}
    Action = {a1, a2, a3}
    Resource = {r1}
    Value <- Values
    Op <- OutboxOps
    policy <- Supervised
    approver = TRUE
    Initial <- World0
    Ambient = {v0}
    Budget <- OutboxBudget
    May <- Roles
INVARIANTS
    Sanctioned
    HappenedAuthorized
    ConsentForIrreversible
    NoSilentDeviation
CHECK_DEADLOCK FALSE

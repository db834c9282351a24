SPECIFICATION Spec
CONSTANTS
    None = None
    Empty = Empty
    Process = {p1, p2}
    Ref = {"snap"}
    RefOf <- Refs
    Algorithms = {"ed25519"}
    CrashMax = 1
    EditMax = 1
SYMMETRY Alike
INVARIANTS
    OneKey
    RefsResolve
    HonestProofAccepted
    AcceptedIsHistory
CHECK_DEADLOCK FALSE

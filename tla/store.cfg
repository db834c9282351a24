SPECIFICATION FairSpec
CONSTANTS
    gateway = gateway
    console = console
    t1 = t1
    t2 = t2
    c1 = c1
    Process = {gateway, console}
    Thread = {t1, t2, c1}
    Home <- Homes
    Owner = gateway
    Backends = {"sqlite", "jsonl"}
    Payload = {"a", "b", "c"}
    None = None
    Garbage = Garbage
    Budget <- Faults
INVARIANTS
    ChainNeverForks
    DamageIsLast
    NoSilentLoss
    ReadsStay
    TamperingShows
PROPERTIES
    ImplementsLog
    LocksComeBack
CHECK_DEADLOCK FALSE

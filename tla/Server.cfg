SPECIFICATION MCSpec
CONSTANTS
    p1 = p1
    p2 = p2
    NoPid = NoPid
    Pid = {p1, p2}
    Faults = {"fork", "exec", "build", "timeout", "crash", "operator", "sigint"}
    c1 = c1
    c2 = c2
    Conn = {c1, c2}
    Asked <- MCAsked
    Cap = 4
    Chunk = 2
    MaxUpload = 5
    MaxFds = 1
    Failures = {"threads", "memory", "tls", "network", "files"}
INVARIANTS
    ChildTracked
    KillsOwnChild
    ServerNeverKillsCore
    FileIsBody
    WholeRequestsWork
PROPERTIES
    ImplementsSlot
    ReloadHonoured
    DowntimeEnds
    EveryClientServed
CHECK_DEADLOCK FALSE

SPECIFICATION DeployFairSpec
CONSTANTS
    p1 = p1
    u1 = u1
    u2 = u2
    r1 = r1
    NoPid = NoPid
    Pid = {p1}
    Faults = {"build", "timeout", "fork", "crash", "sigint"}
    Upload = {u1, u2}
    Broken = {u2}
    Delete = {r1}
    Restart = {r1}
    Original = Original
    Torn = Torn
    Gone = Gone
    None = None
INVARIANTS
    NewCodeRuns
    ProgramLostOnlyTorn
PROPERTIES
    ImplementsOrchestrator
    NewCodeGoesLive
CHECK_DEADLOCK FALSE

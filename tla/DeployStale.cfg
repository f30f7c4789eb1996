SPECIFICATION DeploySpec
CONSTANTS
    p1 = p1
    u1 = u1
    u2 = u2
    r1 = r1
    NoPid = NoPid
    Pid = {p1}
    Faults = {"build"}
    Upload = {u1, u2}
    Broken = {}
    Delete = {r1}
    Restart = {r1}
    Original = Original
    Torn = Torn
    Gone = Gone
    None = None
INVARIANT UploadedCodeRuns
CHECK_DEADLOCK FALSE

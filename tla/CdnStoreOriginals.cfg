SPECIFICATION Spec
CONSTANTS
    p1 = p1
    p2 = p2
    o1 = o1
    r1 = r1
    Path = {p1, p2}
    Original = {o1}
    Req = {r1}
    Id = {i1, i2}
    i1 = i1
    i2 = i2
    None = None
    Faults = {"db", "io"}
INVARIANT OriginalsKept

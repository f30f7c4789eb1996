SPECIFICATION GateSpec
CONSTANTS
    root = root
    any = any
    below = below
    home = home
    www = www
    cdn = cdn
    get = get
    post = post
    h1 = h1
    h2 = h2
    NoHost = NoHost
    NotFound = NotFound
    Path = {root, any, below}
    Method = {get, post}
    Host = {home, www, cdn}
    Www <- MCWww
    Covers <- MCCovers
    Handler = {h1, h2}
    Buckets = 2
    Hashes <- MCHashes
    MaxRoutes = 3
    a1 = a1
    a2 = a2
    a3 = a3
    NoIP = NoIP
    IP = {a1, a2, a3}
    Watched = a1
    MAX_IPS = 2
    Window = 2
    Quota <- MCQuota
    MaxTime = 2
    MaxRefused = 1
SYMMETRY Alike
INVARIANTS
    PreferredRouteServes
    OneSlotPerIP
    TwiceQuota
    NoFalseRefusal
CHECK_DEADLOCK FALSE

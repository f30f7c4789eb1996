SPECIFICATION MCSpec
CONSTANTS
    Focus = {"accounts"}
    User = {admin, ana, bob}
    Master = admin
    AdminReq = {q1, q2}
    Absent = absent
    Unsaid = unsaid
    Role <- MCRole
    NoRole = {2}
    MaxAdmin = 3
    MAX_LOG_ENTRIES = 3
    MaxLines = 7
    Url = {"/a", "/b", "/cx", "/cy"}
    Cut <- MCCut
    MAX_ROUTE_STATS = 3
    MaxHits = 5
    Prober = {p1, p2}
    MaxClock = 3
    Word = 16
    Uploader = {u1, u2}
    Remover = {r1, r2}
    Downloader = {d1}
    Blocks = 2
    MaxVersion = 3
    MaxChange = 3
    MaxDownload = 1
    Part = {"", ".", "..", "main.c", "home", "manager"}
    Odd = {".."}
    MaxParts = 3
    Dir <- MCDir
    File <- MCFile
    Tab = {"home"}
    RankOf <- MCRankOf
    Path <- SitePath
    Method = {"GET", "POST"}
    Host <- SiteHost
    Www <- MCWww
    NoHost = ""
    Covers <- MCCovers
    Handler <- SiteHandler
    NotFound = "server_send_404"
    Buckets = 1
    Hashes <- SiteHashes
    MaxRoutes = 37
SYMMETRY Alike
INVARIANT AdminsManageUsers
CHECK_DEADLOCK FALSE

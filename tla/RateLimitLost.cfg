SPECIFICATION PlatformSpec
CONSTANTS
    Projects = {p1, p2}
    Users = {dispatcher, checker}
    MaxConcurrent = 1
    Mishaps = {}
    MaxMishaps = 0
    Dispatches = {d1, d2}
    SettingsRows <- MCSettingsRows
    Forwarded = {d1}
    MaxSaves = 0
    Servers = {s1, s2}
    Clients = {c1}
    Paths <- MCPaths
    ExemptPaths <- MCExemptPaths
    RateLimits <- MCRateLimits
    RedisMishaps = {"outage", "restart"}
    Sessions = {n1, n2, n3}
    Digests = {1, 2}
    HalfRange = 2
    MaxTries = 1
    MaxEvents = 4
    MaxConnects = 2
    MaxHiccups = 1
    BatchSize = 2
INVARIANT LimitIsEnforced
CHECK_DEADLOCK FALSE

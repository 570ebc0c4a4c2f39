SPECIFICATION PlatformSpec
CONSTANTS
    Projects = {p1, p2}
    Users = {dispatcher, checker}
    MaxConcurrent = 1
    Mishaps = {"timeout", "spawn", "death", "restart"}
    MaxMishaps = 2
    Dispatches = {d1, d2}
    SettingsRows <- MCSettingsRows
    Forwarded = {d1}
    MaxSaves = 1
    Servers = {s1, s2}
    Clients = {c1}
    Paths <- MCPaths
    ExemptPaths <- MCExemptPaths
    RateLimits <- MCRateLimits
    RedisMishaps = {"outage", "restart"}
    Sessions = {n1, n2, n3}
    Digests = {1, 3}
    HalfRange = 2
    MaxTries = 2
    MaxEvents = 4
    MaxConnects = 2
    MaxHiccups = 1
    BatchSize = 2
INVARIANTS
    PlatformTypeOK
    PermitsAccounted
    LiveBounded
    ClosedMeansAudited
    LimitHolds
    
    NoGapAfterTheFirst
PROPERTIES
    OnlyReaperTearsDownInUse
    
    SettingsTakeEffect
CHECK_DEADLOCK FALSE

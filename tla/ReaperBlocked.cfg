SPECIFICATION SandboxFairSpec
CONSTANTS
    Projects = {p1, p2}
    Users = {dispatcher, checker}
    MaxConcurrent = 1
    Mishaps = {"death"}
    MaxMishaps = 1
PROPERTY IdleIsReaped
CHECK_DEADLOCK FALSE

SPECIFICATION FairSpec
CONSTANTS
    MaxSteps = 1
    MaxContinuations = 1
    Outcomes = {"converged", "exhausted", "failed"}
    Handlers = {h1}
    MayBeUnconfigured = FALSE
    EagerFounder = TRUE
    MaxResolves = 1
    MaxReresolves = 0
    MaxVerifies = 0
    MaxPosts = 0
    MaxCrashes = 1
    MaxFaults = 0
INVARIANTS
    NoZombieAttempt
PROPERTIES
    InterruptedWorkAsks
CHECK_DEADLOCK FALSE

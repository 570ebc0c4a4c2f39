SPECIFICATION Spec
CONSTANTS
    MaxSteps = 2
    MaxContinuations = 1
    Outcomes = {"converged", "failed"}
    Handlers = {h1}
    MayBeUnconfigured = FALSE
    EagerFounder = FALSE
    MaxResolves = 2
    MaxReresolves = 0
    MaxVerifies = 0
    MaxPosts = 0
    MaxCrashes = 0
    MaxFaults = 0
INVARIANT NoDeadEnd
CHECK_DEADLOCK FALSE

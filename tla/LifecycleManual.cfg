SPECIFICATION Spec
CONSTANTS
    MaxSteps = 1
    MaxContinuations = 0
    Outcomes = {"converged", "exhausted", "failed"}
    Handlers = {h1}
    MayBeUnconfigured = FALSE
    EagerFounder = TRUE
    MaxResolves = 1
    MaxReresolves = 1
    MaxVerifies = 1
    MaxPosts = 1
    MaxCrashes = 0
    MaxFaults = 1
PROPERTIES
    StepTransitionsLegal
    
CHECK_DEADLOCK FALSE

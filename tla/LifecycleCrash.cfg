SPECIFICATION Spec
CONSTANTS
    MaxSteps = 2
    MaxContinuations = 1
    Outcomes = {"converged", "exhausted", "failed"}
    Handlers = {h1}
    MayBeUnconfigured = TRUE
    EagerFounder = FALSE
    MaxResolves = 2
    MaxReresolves = 0
    MaxVerifies = 0
    MaxPosts = 0
    MaxCrashes = 2
    MaxFaults = 1
INVARIANTS
    ShippedIsProven
    VerdictsAreApart
PROPERTIES
    VerdictIsFinal
    ImplementsContract
CHECK_DEADLOCK FALSE

SPECIFICATION FairSpec
CONSTANTS
    MaxSteps = 1
    MaxContinuations = 1
    Outcomes = {"converged", "exhausted", "failed"}
    Handlers = {h1}
    MayBeUnconfigured = FALSE
    EagerFounder = FALSE
    MaxResolves = 2
    MaxReresolves = 0
    MaxVerifies = 0
    MaxPosts = 0
    MaxCrashes = 0
    MaxFaults = 0
INVARIANTS
    TypeOK
    StuckStepHasDecision
    VerdictInFlight
    NoDeadEnd
    VerificationReportsBack
PROPERTIES
    RequestSettles
CHECK_DEADLOCK FALSE

SPECIFICATION ProofDeliverySpec
CONSTANTS
    WorkFiles = {a, b}
    ShellContents <- MCShellContents
    Texts <- MCTexts
    ByteCap = 4
    RawContracts <- MCRawContracts
    Workspaces <- MCWorkspaces
    Modes = {"host", "sandbox"}
    Judges = {"none", "some"}
    Disturbances = {"missing", "raised"}
    JudgeNoise <- MCJudgeNoise
    MaxCalls = 2
    Requests = {q1, q2}
    Paths = {f1, f2}
    BasePaths = {f1}
    Repos = {r1}
    Incidents = {"github", "crash", "bind", "unbind", "remove", "api", "branch", "reverify", "close"}
    MaxIncidents = 2
    Releases = {15, 27, 37, 51, 57, 62}
    MaxReverts = 3
    MaxDeaths = 1
SYMMETRY RequestSymmetry
INVARIANTS
    ProofDeliveryTypeOK
    VerifiedIsProven
    
    
    OnePullRequest
    VerifiedIsCommitted
    HeadServesTheModels
    FailuresAreKnown
PROPERTIES
    EditTouchesOnlyItsTarget
CHECK_DEADLOCK FALSE

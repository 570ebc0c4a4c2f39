SPECIFICATION FairSpec
CONSTANTS
    Files = {f1, f2}
    Looks = {l1}
    WorkBudget = 5
    CatastrophicCap = 7
    RepetitionCount = 3
    MaxIterations = 7
    MaxNudges = 1
    MaxAspectRetries = 2
    RetryIterations = 2
    RetryFloor = 2
    MaxContinuations = 1
    SoftHeadroom = 2
    MaxCalls = 2
INVARIANTS
    TypeOK
    BudgetIsTheSignal
    
    WorkIsKept
PROPERTIES
    ImplementsDispatch
    DispatchEnds
CHECK_DEADLOCK FALSE

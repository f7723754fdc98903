SPECIFICATION Spec
CONSTANTS
    n1 = n1  n2 = n2  n3 = n3  linux = linux  gpu = gpu  j1 = j1  j2 = j2
    repoA = repoA  repoB = repoB  selfHosted = selfHosted
    NoRepo = NoRepo  NoJob = NoJob  SelfHosted = selfHosted
    Pools <- OnePool  PoolLabels <- OnePoolLabels  PoolOf <- OnePoolNames
    Jobs <- OneJob  JobId <- OneJobId  JobLabels <- OneJobLabels  JobRepo <- OneJobRepo
    Names = {n1, n2, n3}
    RepoLevel = FALSE
    UnknownPools = {linux}
    InitLimits <- MaxTwo
    LimitChoices <- Adjustments
    DrainablePools = {}
    MaxCreateConcurrency = 2
    FaultKinds <- SafeFaults
    MaxFaults = 1
SYMMETRY Symmetry
INVARIANTS NeverKillsAJob OrphansHaveNoRunner RunnersWithinMax
PROPERTIES PassesGetDone PlansMeetTheDemand

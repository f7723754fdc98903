SPECIFICATION FairJobsSpec
CONSTANTS
    n1 = n1  n2 = n2  n3 = n3  linux = linux  gpu = gpu  j1 = j1  j2 = j2
    repoA = repoA  repoB = repoB  selfHosted = selfHosted
    NoRepo = NoRepo  NoJob = NoJob  SelfHosted = selfHosted
    Pools <- OnePool  PoolLabels <- OnePoolLabels  PoolOf <- OnePoolNames
    Jobs <- TwoJobs  JobId <- TwoJobsId  JobLabels <- TwoJobsLabels  JobRepo <- TwoJobsRepo
    Names = {n1, n2, n3}
    RepoLevel = TRUE
    UnknownPools = {linux}
    InitLimits <- MaxTwo
    LimitChoices = {}
    DrainablePools = {}
    MaxCreateConcurrency = 4
    FaultKinds <- NoFaults
    MaxFaults = 0
PROPERTY JobsServed

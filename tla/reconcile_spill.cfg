SPECIFICATION FairSpec
CONSTANTS
    n1 = n1  n2 = n2  n3 = n3  linux = linux  gpu = gpu  j1 = j1  j2 = j2
    repoA = repoA  repoB = repoB  selfHosted = selfHosted
    NoRepo = NoRepo  NoJob = NoJob  SelfHosted = selfHosted
    Pools <- TwoPools  PoolLabels <- TwoPoolsLabels  PoolOf <- TwoPoolsNames
    Jobs <- TwoJobs  JobId <- TwoJobsId  JobLabels <- TwoJobsLabels  JobRepo <- TwoJobsRepo
    Names = {n1, n3}
    RepoLevel = FALSE
    UnknownPools = {}
    InitLimits <- OneEach
    LimitChoices = {}
    DrainablePools = {}
    MaxCreateConcurrency = 4
    FaultKinds <- PollFault
    MaxFaults = 1
PROPERTY JobsServed

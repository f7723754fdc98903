SPECIFICATION Spec
CONSTANTS
    linux = linux  gpu = gpu  mac = mac  j1 = j1  j2 = j2  j3 = j3  j4 = j4
    f1 = f1  f2 = f2  repoA = repoA  repoB = repoB  selfHosted = selfHosted  arm = arm
    NoRepo = NoRepo  SelfHosted = selfHosted
    Pools <- MCPools  PoolLabels <- MCPoolLabels
    Jobs <- MCJobs  JobId <- MCJobId  JobLabels <- MCJobLabels  JobRepo <- MCJobRepo
    LiveCounts <- MCLive  PoolLimits <- MCLimits
    Foreign = {f1, f2}  ForeignLabels <- MCForeignLabels  ForeignRepo <- MCForeignRepo
    FreeLists <- MCFreeLists
INVARIANTS EveryJobOnce ChargedBeyondRoomOnlyWhenFull TightestFirst DiscountIsAMatching
\* the loops end
CHECK_DEADLOCK FALSE

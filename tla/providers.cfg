SPECIFICATION ProvidersSpec
CONSTANTS
    n1 = n1  n2 = n2  p1 = p1  p2 = p2 
    Names = {n1, n2}
    Containers = {n1, n2}
    Policies = {"always", "missing", "never"}
    Pids = {p1, p2}
    Free = Free  Other = Other  Alike = Alike  NoPid = NoPid
    RecycleWhileUp = FALSE
    PsFails = FALSE
    MaxFaults = 3
CHECK_DEADLOCK FALSE
INVARIANTS SignalsOnlyRunners NoRunnerUnseen PruneKnowsTheDead NothingLeftHalfMade
PROPERTIES LivesGoOneWay DebrisGoes

SPECIFICATION Spec
CONSTANTS
    n1 = n1  n2 = n2  d1 = d1  other = other  mac = mac  linux = linux  r1 = r1  r2 = r2
    Names = {n1, n2, d1, other}
    Pools = {mac, linux}
    PoolOf <- TwoPools
    NoPool = NoPool
    ProcessPools = {mac}
    DefaultDirs = {}
    Repos = {r1, r2}
    RepoOf <- TwoRepos
    Fickle = {r2}
    Modes = {"orch", "config", "none"}
    FaultKinds <- EveryFault
SYMMETRY Symmetry
CHECK_DEADLOCK FALSE
INVARIANTS SparesTheBusy NothingLeftUnreported OnlyTheNamedAreCut

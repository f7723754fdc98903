SPECIFICATION Spec
CONSTANTS
    org = org  a = a  w1 = w1  j1 = j1  j2 = j2
    Scopes = {org}
    Me = Me  Other = Other
    MaxTunnels = 2
    MaxStarts = 2
    MaxLosses = 1
    Repos = {a}
    Runs = {w1}
    Jobs = {j1, j2}
    RepoOf <- OneRepo
    RunOf <- OneRun
    ScopeOf <- OneHook
    PageSize = 1
INVARIANTS PollMissesNoQueuedJob

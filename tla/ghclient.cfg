SPECIFICATION FairSpec
CONSTANTS
    w1 = w1  w2 = w2
    Workers = {w1, w2}
    Nobody = Nobody  NoItem = NoItem
    LastToken = 2
    MaxFaults = 2
    MaxRetries = 1
    LastVersion = 1
INVARIANTS OneReadPerRefusal CacheIsComplete NeverStale RepeatedOnlyInDoubt
PROPERTIES NoRetryWithRefusedToken Recovers

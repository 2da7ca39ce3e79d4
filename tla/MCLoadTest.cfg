CONSTANTS
    w1 = w1
    w2 = w2
    Worker = {w1, w2}
    Configs <- MCConfigs
    Cap = 1
    MaxOps = 5
SPECIFICATION FairSpec
INVARIANTS TypeOK NobodyAtWork FileExists RatioKept
PROPERTIES StopsWithRoom
CHECK_DEADLOCK FALSE

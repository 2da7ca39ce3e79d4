CONSTANTS
    p1 = p1
    p2 = p2
    c1 = c1
    c2 = c2
    v1 = v1
    v2 = v2
    NULL = NULL
    MaxSize = 2
    Producer = {p1, p2}
    Consumer = {c1, c2}
    Value = {v1, v2}
SPECIFICATION FairSpec
INVARIANTS IInv TestHolds NoLostWakeup
PROPERTY ImplementsBuffer Progress

CONSTANTS
    c1 = c1
    c2 = c2
    w1 = w1
    w2 = w2
    NULL = NULL
    Sess = {c1, c2}
    Worker = {w1, w2}
    QSize = 1
    Cap = 1
    Plans <- SmallPlans
SPECIFICATION FairSpec
INVARIANTS TypeOK OneHandler FramesApart FreedNeedsRival
PROPERTIES Popped
CHECK_DEADLOCK FALSE

CONSTANTS
    c1 = c1
    c2 = c2
    NULL = NULL
    PairAddr <- Addresses
    NumProc = 3
    Frail = {1, 2}
    PipeCap = 1
    Conn = {c1, c2}
    Fault = {"addpipe", "accept", "socket", "connect", "adopt"}
    StartFault = {"init", "listen", "pipe", "addread", "thread"}
SPECIFICATION PFairSpec
INVARIANTS PTypeOK StaleOnlyByOwn
PROPERTIES ImplementsCustody ServedIfRunning
CHECK_DEADLOCK FALSE

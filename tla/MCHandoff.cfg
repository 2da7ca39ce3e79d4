CONSTANTS
    c1 = c1
    c2 = c2
    c3 = c3
    NULL = NULL
    PairAddr <- Addresses
    NumProc = 2
    PipeCap = 1
    Conn = {c1, c2, c3}
    Fault = {"addpipe", "accept", "socket", "connect", "adopt"}
SPECIFICATION FairSpec
INVARIANTS IInv OneHolder FifoExact BlockedPipeArmed
PROPERTIES Served
CHECK_DEADLOCK FALSE

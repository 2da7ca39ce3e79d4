CONSTANTS
    c1 = c1
    c2 = c2
    c3 = c3
    NULL = NULL
    PairAddr <- Addresses
    NumProc = 2
    PipeCap = 1
    Conn = {c1, c2, c3}
    Fault = {"add"}
SPECIFICATION Spec
INVARIANTS ConnectingWatched
SYMMETRY Clients
CHECK_DEADLOCK FALSE

CONSTANTS
    h1 = h1
    h2 = h2
    h3 = h3
    h4 = h4
    p1 = p1
    p2 = p2
    NULL = NULL
    Pair = {p1}
    Handle = {h1, h2}
    Script <- OneScript
    SndCap = 1
    MAX_EV = 2
SPECIFICATION Spec
INVARIANTS NoStaleDispatch
SYMMETRY Addresses
CHECK_DEADLOCK FALSE

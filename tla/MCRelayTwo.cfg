CONSTANTS
    h1 = h1
    h2 = h2
    h3 = h3
    h4 = h4
    p1 = p1
    p2 = p2
    NULL = NULL
    Pair = {p1, p2}
    Handle = {h1, h2, h3, h4}
    Script <- TwoScript
    SndCap = 1
    MAX_EV = 3
SPECIFICATION Spec
INVARIANTS StreamIntegrity ArmedInv RestInv
PROPERTIES CloseHasCause
SYMMETRY Addresses
CHECK_DEADLOCK FALSE

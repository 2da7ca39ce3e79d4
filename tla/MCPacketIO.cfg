SPECIFICATION Spec
CONSTANTS
    HEADER_SIZE = 4
    MAX_PACKET_SIZE = 3
    NumPackets = 4
    Payload <- MCPayload
    Start <- MCStart
INVARIANTS InBounds Boundary Verbatim IInv
CHECK_DEADLOCK FALSE

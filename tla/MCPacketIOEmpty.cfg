SPECIFICATION Spec
CONSTANTS
    HEADER_SIZE = 4
    MAX_PACKET_SIZE = 3
    NumPackets = 4
    Payload <- EmptyPayload
    Start <- EmptyStart
INVARIANTS CompleteIsDone
CHECK_DEADLOCK FALSE

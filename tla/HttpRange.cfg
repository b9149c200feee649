SPECIFICATION Spec
CONSTANTS
    Conns = {c1}
    Requests <- AllRequests
    MaxHeaders = 2
    MaxChunks = 2
    MaxSize = 17
INVARIANT
    LengthInRange
CHECK_DEADLOCK FALSE

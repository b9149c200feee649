SPECIFICATION FairSpec
CONSTANTS
    Conns = {c1, c2}
    Requests <- ShortRequests
    MaxHeaders = 2
    MaxChunks = 2
    MaxSize = 3
INVARIANTS
    NoUseAfterFree
    NoLostWakeup
PROPERTY
    ReportedIsClosed
CHECK_DEADLOCK FALSE

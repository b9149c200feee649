SPECIFICATION DtlsFairSpec
CONSTANTS
    MaxLoss = 2
    MaxEarly = 1
    MaxEmpty = 1
    MaxBye = 1
    Hellos = {"f1", "x1"}
    MaxTimeouts = 12
INVARIANTS
    NeverGivesUp
    SocketDrained
PROPERTIES
    Settles
    ReadLoopEnds
CHECK_DEADLOCK FALSE

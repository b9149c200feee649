SPECIFICATION Spec
CONSTANTS
    Conns = {c1}
    Requests <- AllRequests
    MaxHeaders = 2
    MaxChunks = 3
    MaxSize = 17
INVARIANTS
    ReceivedIntact
    AnswersRight
PROPERTIES
    AnsweredWhenWhole
    ImplementsService
CHECK_DEADLOCK FALSE

CONSTANTS
    Clients = {c1}
    MaxMsgs = 8
SPECIFICATION SctpSpec
INVARIANTS
    SendOrder
    OneLossAtMost
    NoUseAfterClose
CHECK_DEADLOCK FALSE

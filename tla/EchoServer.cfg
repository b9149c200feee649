CONSTANTS
    Clients = {c1}
    MaxMsgs = 0
    Addresses = {a1}
    NoClient = NoClient
    ArenaCap = 4
    LenMod = 4
    Lengths = {1}
    RingCap = 2
    Roll = 2
    MaxInputs = 4
    MaxBeats = 0
SPECIFICATION LoopSpec
INVARIANTS
    EchoedOnce
CHECK_DEADLOCK FALSE

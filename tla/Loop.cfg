CONSTANTS
    Clients = {c1, c2}
    MaxMsgs = 0
    Addresses = {a1, a2}
    NoClient = NoClient
    ArenaCap = 4
    LenMod = 2
    Lengths = {1, 3}
    RingCap = 2
    Roll = 2
    MaxInputs = 4
    MaxBeats = 1
SPECIFICATION LoopSpec
SYMMETRY ClientSymmetry
INVARIANTS
    LoopTypeOK
    LiveDataIntact
    BeatHasEvent
    HandledInOrder
    OnlyFirstServed
CHECK_DEADLOCK FALSE

CONSTANTS
    Clients = {c1}
    MaxMsgs = 0
    Addresses = {a1}
    NoClient = NoClient
    ArenaCap = 1
    LenMod = 4
    Lengths = {1}
    RingCap = 2
    Roll = 2
    MaxInputs = 4
    MaxBeats = 1
SPECIFICATION FairLoopSpec
PROPERTIES
    EveryKeptEchoed
    EveryBeatAnswered
    CacheDrains
CHECK_DEADLOCK FALSE

CONSTANTS
    Cap = 3
    MaxBeats = 6
SPECIFICATION FairSpec
INVARIANTS
    NoSlotShared
    RingInv
PROPERTIES
    ImplementsFifo
    EveryBeatSent
CHECK_DEADLOCK FALSE

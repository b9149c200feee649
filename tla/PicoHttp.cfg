SPECIFICATION FeedSpec
CONSTANTS
    MaxHeaders = 2
    Radix = 2
    HexDigits = 2
    MaxMore <- Bounds
    MaxTail = 1
INVARIANTS
    AcceptsGrammar
    ResumeAgrees
    DecodesBody
CHECK_DEADLOCK FALSE

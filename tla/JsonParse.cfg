SPECIFICATION TextSpec
CONSTANTS
    Node = {1, 2, 3, 4, 5}
    NULL = NULL
    Inputs <- AllInputs
    NestingLimit = 2
    NumberBuf = 5
    IntMax = 127
    MaxPieces = 4
    MaxDigits = 7
INVARIANTS
    InBounds
    ParseFreesAll
    ParsedWellFormed
    AcceptsJson
    BodyAddress
    StringFits
    TextRead

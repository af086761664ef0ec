CONSTANTS
    Paths <- AllPaths
    Texts <- MCTexts
    MaxByte = 4
    MaxMessageLength = 3
    BufferLength = 4
    TypeM = 4
    TypeL = 3
SPECIFICATION FairSocketSpec
INVARIANTS
    BuffersHold
    ReceivedWhole
    ReceivedIsPrefix
PROPERTIES
    ReceiverEnds
CHECK_DEADLOCK FALSE

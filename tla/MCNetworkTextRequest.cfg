CONSTANTS
    Paths <- Request
    Texts <- MCTexts
    MaxByte = 4
    MaxMessageLength = 3
    BufferLength = 4
    TypeM = 4
    TypeL = 3
SPECIFICATION SocketSpec
INVARIANTS
    RequestReceivedWhole
CHECK_DEADLOCK FALSE

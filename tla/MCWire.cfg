\* Lines of up to four octets over a buffer of three, integers up to 31.
SPECIFICATION Spec
CONSTANTS
    Inputs <- MCInputs
    MaxLine = 4
    BufSize = 3
    MaxInt = 31
CHECK_DEADLOCK FALSE
INVARIANTS
    LinesExact
    LengthExact
    LiteralIsString
    TokensExact
    ResponseIsOneLine
    PeersAgree

\* A connection of Serve and one of ServeConn against Close, a listener that
\* its owner may close, and clients that may stay silent.
SPECIFICATION FairSpec
CONSTANTS
    k1 = k1
    d1 = d1
    Conns <- MCPair
    Direct <- MCDirect
    IdleTimeout = TRUE
    MayPanic = TRUE
    OwnerCloses = TRUE
CHECK_DEADLOCK FALSE
INVARIANTS
    TypeOK
    NoMissedKick
    TornDown
PROPERTIES
    HijackedUntouched
    ShutdownDrains
    ShutdownReturns

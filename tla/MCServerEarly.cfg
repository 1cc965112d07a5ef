\* Finding: a Close that overtakes Serve leaves it blocked.
SPECIFICATION FairSpec
CONSTANTS
    k1 = k1
    d1 = d1
    Conns <- MCOne
    Direct <- MCNone
    IdleTimeout = TRUE
    MayPanic = FALSE
    OwnerCloses = FALSE
CHECK_DEADLOCK FALSE
PROPERTY
    ServeEndsWithServer

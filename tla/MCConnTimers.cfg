\* Every wait of the connection against every timer and Server.Close.
SPECIFICATION FairSpec
CONSTANTS
    Commands <- MCWaitCommands
    MaxCommands = 2
    MaxInFlight = 2
    MaxErrors = 2
    TLSConfig = TRUE
    InitTLS = {FALSE}
    InsecureAuth = TRUE
    AuthFailuresExempt = FALSE
    SessionLogin = TRUE
    UnknownHandler = FALSE
    IdleTimeout = TRUE
    AuthIdleTimeout = TRUE
    AbsoluteTimeout = TRUE
    MayShutdown = TRUE
INVARIANTS
    FlushedBeforeBlock
    DeadlineFresh
    PoisonSticks
    TimeoutTruthful
    IdleKickSaysBye
PROPERTIES
    SilentClientDropped
    ShutdownEnds

\* Finding: a timer that ends a read inside a command is not reported.
SPECIFICATION FairSpec
CONSTANTS
    Commands <- MCWaitCommands
    MaxCommands = 1
    MaxInFlight = 2
    MaxErrors = 2
    TLSConfig = TRUE
    InitTLS = {FALSE}
    InsecureAuth = TRUE
    AuthFailuresExempt = FALSE
    SessionLogin = TRUE
    UnknownHandler = FALSE
    IdleTimeout = FALSE
    AuthIdleTimeout = FALSE
    AbsoluteTimeout = TRUE
    MayShutdown = FALSE
PROPERTY
    TimerReported

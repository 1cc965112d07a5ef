\* Finding: a refusal that leaves a committed literal body unread.
SPECIFICATION Spec
CONSTANTS
    Commands <- MCCommittedCommands
    MaxCommands = 1
    MaxInFlight = 3
    MaxErrors = 2
    TLSConfig = FALSE
    InitTLS = {TRUE}
    InsecureAuth = FALSE
    AuthFailuresExempt = FALSE
    SessionLogin = TRUE
    UnknownHandler = FALSE
    IdleTimeout = TRUE
    AuthIdleTimeout = FALSE
    AbsoluteTimeout = FALSE
    MayShutdown = FALSE
INVARIANT
    BodyNeverCommand

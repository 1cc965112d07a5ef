\* Three commands in every order, pipelined, in plaintext or under TLS.
SPECIFICATION Spec
CONSTANTS
    Commands <- MCCommands
    MaxCommands = 3
    MaxInFlight = 2
    MaxErrors = 2
    TLSConfig = TRUE
    InitTLS = {TRUE, FALSE}
    InsecureAuth = FALSE
    AuthFailuresExempt = FALSE
    SessionLogin = TRUE
    UnknownHandler = TRUE
    IdleTimeout = FALSE
    AuthIdleTimeout = FALSE
    AbsoluteTimeout = FALSE
    MayShutdown = FALSE
INVARIANTS
    TypeOK
    ErrorBudget
    OneFinalReply
    HookAccurate
    FramingKept
    SessionContract
    CloseIsPrompt
PROPERTIES
    NoInputLost
    ImplementsProtocol

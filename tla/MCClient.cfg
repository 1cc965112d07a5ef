\* NewClient with each form of TLS, and the operations after it.
SPECIFICATION FairSpec
CONSTANTS
    MaxOps = 3
    MaxCaps = 2
    Modes = {"plain", "implicit", "starttls"}
    Calls <- MCCalls
CHECK_DEADLOCK FALSE
INVARIANTS
    TypeOK
    NoLateKick
    PoisonHolds
    OwnDeadlineRules
    AnswerIsOwn
    NoPlaintextUsed
PROPERTY
    CancelUnblocks

\* Finding: a connection accepted while Close runs outlives it.
SPECIFICATION Spec
CONSTANTS
    k1 = k1
    d1 = d1
    Conns <- MCOne
    Direct <- MCNone
    IdleTimeout = TRUE
    MayPanic = FALSE
    OwnerCloses = FALSE
CHECK_DEADLOCK FALSE
INVARIANT
    CloseDrains

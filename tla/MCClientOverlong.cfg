\* Finding: the rest of an answer beyond the limits is the answer to the next command.
SPECIFICATION Spec
CONSTANTS
    MaxOps = 3
    MaxCaps = 2
    Modes = {"plain"}
    Calls <- MCPatient
CHECK_DEADLOCK FALSE
INVARIANT
    OwnResponse

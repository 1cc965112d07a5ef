\* Finding: a response that a deadline or the end of the stream cuts short is returned as whole.
SPECIFICATION Spec
CONSTANTS
    MaxOps = 2
    MaxCaps = 2
    Modes = {"plain"}
    Calls <- MCOneCmd
CHECK_DEADLOCK FALSE
INVARIANT
    Verbatim

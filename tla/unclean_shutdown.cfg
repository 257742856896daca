CONSTANTS
    Loop = {l1}
    Capacity = 1
    MaxClaims = 1
SPECIFICATION Spec
INVARIANT CleanShutdownSucceeds
CHECK_DEADLOCK FALSE

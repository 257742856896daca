CONSTANTS
    Operator = {o1}
    Browser = {b1, b2}
    Request = {r1, r2}
    Admin = Admin
    None = None
    KdfSlots = 1
    Limit = 1
    Idle = 2
    Absolute = 3
    Throttle = 1
    MaxTokens = 2
    MaxResets = 2
    MaxTime = 4
SPECIFICATION Spec
SYMMETRY Symmetry
INVARIANTS SessionsWithinLimit ResetEndsSessions
PROPERTIES AcceptedWhileValid
CHECK_DEADLOCK FALSE

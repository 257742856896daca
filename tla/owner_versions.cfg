CONSTANTS
    Account = {a1}
    Caller = {p1, p2}
    Reaper = Reaper
    Stopper = Stopper
    Entry = {e1, e2}
    None = None
    Open = {1, 3}
    Leaving = {2}
    Capacity = 1
    MaxCalls = 3
SPECIFICATION Spec
SYMMETRY Symmetry
INVARIANTS OneClientPerAccount FencedCallbacksDrain RevokeIsAlone
PROPERTIES StopWaitsForTeardown
CHECK_DEADLOCK FALSE

CONSTANTS
    Account = {a1}
    Call = {c1, c2}
    Sys = Sys
    None = None
    MaxChallenges = 2
    MaxAttempts = 1
    Capacity = 1
    LastStart = 5
    MaxCrashes = 1
SPECIFICATION Spec
SYMMETRY Symmetry
INVARIANTS SessionsFollowStatus DisconnectedIsQuiet TombstonesAreTrue
PROPERTIES RevokedBeforeForgotten RecoveredBeforeServing
CHECK_DEADLOCK FALSE

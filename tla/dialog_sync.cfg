CONSTANTS
    Account = {a1}
    None = None
    Capacity = 2
    MaxAttempts = 2
    MaxClaims = 4
    MaxLogins = 2
    MaxFloods = 1
    MaxStarts = 2
SPECIFICATION FairSpec
INVARIANTS EndedTasksLetGo DoneIsCurrent
PROPERTIES SyncsAreSettled
CHECK_DEADLOCK FALSE

CONSTANTS
    Account = {a1, a2}
    Caller = {p1, p2}
    Reaper = Reaper
    Stopper = Stopper
    Entry = {e1, e2}
    None = None
    Open = {1}
    Leaving = {2}
    Capacity = 1
    MaxCalls = 2
SPECIFICATION FairSpec
INVARIANTS ClientsWithinCapacity ClosedIsQuiet
PROPERTIES EveryCallReturns
CHECK_DEADLOCK FALSE

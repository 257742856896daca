CONSTANTS
    Loop = {l1}
    Capacity = 2
    MaxClaims = 2
SPECIFICATION FairSpec
INVARIANTS TypeOK DatabaseOutlivesWork
PROPERTIES FailuresEndTheProcess ClaimsAreSettled
CHECK_DEADLOCK FALSE

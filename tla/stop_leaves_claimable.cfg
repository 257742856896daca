CONSTANTS
    Mailing = {m1}
    Once = {m1}
    Recipient = {r1}
    Token = {t1, t2}
    NoToken = NoToken
    NoDelivery = NoDelivery
    MaxRuns = 1
    MaxAttempts = 2
    MaxAccountVersion = 1
SPECIFICATION Spec
INVARIANTS NothingClaimableAfterStop
CHECK_DEADLOCK FALSE

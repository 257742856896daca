CONSTANTS
    Mailing = {m1}
    Once = {m1}
    Recipient = {r1, r2}
    Token = {t1, t2}
    NoToken = NoToken
    NoDelivery = NoDelivery
    MaxRuns = 2
    MaxAttempts = 1
    MaxAccountVersion = 1
SPECIFICATION Spec
SYMMETRY Symmetry
INVARIANTS SchemaConstraintsHold FinishedRunsAreSettled
PROPERTIES KeepsPromise
CHECK_DEADLOCK FALSE

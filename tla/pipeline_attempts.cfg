CONSTANTS
    Mailing = {m1}
    Once = {m1}
    Recipient = {r1}
    Token = {t1, t2}
    NoToken = NoToken
    NoDelivery = NoDelivery
    MaxRuns = 1
    MaxAttempts = 3
    MaxAccountVersion = 2
SPECIFICATION FairSpec
INVARIANTS AttemptsAreExclusive SuccessAlwaysRecordable RowAgreesWithTelegram
PROPERTIES LiveLeaseIsExclusive OutcomeIsFinal SendingIsSettled RunsFinish
CHECK_DEADLOCK FALSE

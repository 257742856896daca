CONSTANTS
    Mailing = {m1}
    Once = {}
    Recipient = {r1}
    Token = {t1, t2}
    NoToken = NoToken
    NoDelivery = NoDelivery
    MaxRuns = 2
    MaxAttempts = 2
    MaxAccountVersion = 3
SPECIFICATION Spec
SYMMETRY Symmetry
INVARIANTS MailingAgreesWithRuns EarlierRunsAreSettled AlarmsComeFromSends
PROPERTIES NoAdmissionAfterStop
CHECK_DEADLOCK FALSE

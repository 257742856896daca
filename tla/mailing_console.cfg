CONSTANTS
    o1 = o1
    a1 = a1
    d1 = d1
    d2 = d2
    p1 = p1
    Operator = {o1}
    Account = {a1}
    Owner <- MCOwner
    Shared = {d1, d2}
    Private = {p1}
    Chat = {}
    Answers <- MCAnswers
    Client = {c1}
    Sync = {s1, s2}
    None = None
    MaxMailings = 1
SPECIFICATION FairSpec
INVARIANTS RecipientsResolve
PROPERTIES DraftsAreSendable RefusedOnlyIfChanged EverythingEnds
CHECK_DEADLOCK FALSE

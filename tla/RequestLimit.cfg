SPECIFICATION LimitSpec
CONSTANTS
    q1 = q1
    q2 = q2
    q3 = q3
    p1 = p1
    p2 = p2
    Request = {q1, q2, q3}
    IdOf <- Ids
    BodyOf <- Bodies
    ServedBy <- Servers
    Limit = 1
    Window = 1
    AnswerTtl = 1
    BreachThreshold = 2
    MaxRequestClock = 0
    MaxRedisFaults = 0
INVARIANT LimitsHoldAcrossInstances

\* Every request may be over.
CHECK_DEADLOCK FALSE

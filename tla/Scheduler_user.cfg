SPECIFICATION Spec
CONSTANTS
    s1 = s1
    s2 = s2
    s3 = s3
    s4 = s4
    u1 = u1
    u2 = u2
    NoSession = NoSession
    Sessions = {s1, s2, s3, s4}
    Users = {u1, u2}
    Handlers = {h1}
    Owner <- TwoUsersFour
    Priority <- SecondFirst
    PriorityWeight = 1000
    GlobalMax = 2
    UserMax = 1
    DailyMax = 0
    MaxQueueSize = 0
    MaxAttempts = 1
    Endpoints = {"run"}
    Outcomes = {"complete"}
    QueueTimeout = FALSE
    RedisFaults = FALSE
    Aged = FALSE
    MaxRequests = 4
    MaxCrashes = 0
INVARIANT UserLimit
CHECK_DEADLOCK FALSE

SPECIFICATION Spec
CONSTANTS
    s1 = s1
    s2 = s2
    s3 = s3
    s4 = s4
    u1 = u1
    u2 = u2
    NoSession = NoSession
    Sessions = {s1, s2}
    Users = {u1, u2}
    Handlers = {h1}
    Owner <- OneUser
    Priority <- SamePriority
    PriorityWeight = 1000
    GlobalMax = 1
    UserMax = 1
    DailyMax = 1
    MaxQueueSize = 1
    MaxAttempts = 1
    Endpoints = {"run", "task", "delete"}
    Outcomes = {"complete"}
    QueueTimeout = FALSE
    RedisFaults = TRUE
    Aged = FALSE
    MaxRequests = 3
    MaxCrashes = 1
INVARIANT NoOvercount
INVARIANT TypeOK
CHECK_DEADLOCK FALSE
SYMMETRY OneUserSymmetry

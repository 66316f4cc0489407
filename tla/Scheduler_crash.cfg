SPECIFICATION Spec
CONSTANTS
    s1 = s1
    s2 = s2
    s3 = s3
    s4 = s4
    u1 = u1
    u2 = u2
    NoSession = NoSession
    Sessions = {s1, s2}
    Users = {u1, u2}
    Handlers = {h1, h2}
    Owner <- TwoUsers
    Priority <- SamePriority
    PriorityWeight = 1000
    GlobalMax = 1
    UserMax = 1
    DailyMax = 0
    MaxQueueSize = 0
    MaxAttempts = 1
    Endpoints = {"run", "task", "list"}
    Outcomes = {"complete"}
    QueueTimeout = TRUE
    RedisFaults = FALSE
    Aged = FALSE
    MaxRequests = 2
    MaxCrashes = 2
INVARIANT PaidStarts
INVARIANT Repairable
SYMMETRY HandlerSymmetry
CHECK_DEADLOCK FALSE

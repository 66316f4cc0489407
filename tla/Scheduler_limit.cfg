SPECIFICATION Spec
CONSTANTS
    s1 = s1
    s2 = s2
    s3 = s3
    s4 = s4
    u1 = u1
    u2 = u2
    NoSession = NoSession
    Sessions = {s1, s2, s3}
    Users = {u1, u2}
    Handlers = {h1}
    Owner <- TwoUsersThree
    Priority <- SamePriority
    PriorityWeight = 1000
    GlobalMax = 1
    UserMax = 2
    DailyMax = 0
    MaxQueueSize = 0
    MaxAttempts = 1
    Endpoints = {"run", "cancel", "list"}
    Outcomes = {"complete"}
    QueueTimeout = TRUE
    RedisFaults = FALSE
    Aged = FALSE
    MaxRequests = 3
    MaxCrashes = 0
INVARIANT OvershootBound
INVARIANT Repairable
INVARIANT CountExact
CHECK_DEADLOCK FALSE
SYMMETRY SecondUserSymmetry

SPECIFICATION Spec
CONSTANTS
    Sessions = {s1, s2, s3}
    Callers = {c1, c2}
    Priorities = {0, 1}
    PriorityWeight = 10
    MaxQueueSize = 1
    MaxEnqueues = 3
    Resubmit = TRUE
    Faults = TRUE
    Expiry = TRUE
    NoSession = NoSession
    NoTask = NoTask
INVARIANT TypeOK
INVARIANT QueueBound
INVARIANT AtMostOnceDelivery
SYMMETRY Symmetry
CHECK_DEADLOCK FALSE

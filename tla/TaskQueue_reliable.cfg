SPECIFICATION Spec
CONSTANTS
    Sessions = {s1, s2, s3}
    Callers = {c1, c2}
    Priorities = {0, 1}
    PriorityWeight = 10
    MaxQueueSize = 2
    MaxEnqueues = 4
    Resubmit = FALSE
    Faults = FALSE
    Expiry = FALSE
    NoSession = NoSession
    NoTask = NoTask
INVARIANT EntryHasTask
PROPERTY ReliableQueue
CHECK_DEADLOCK FALSE

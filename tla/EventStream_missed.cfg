SPECIFICATION Spec
CONSTANTS
    Retries = 1
    MaxEvents = 4
    MaxFailures = 0
    Messages = {"plain", "question"}
INVARIANT NeverMissed
CHECK_DEADLOCK FALSE

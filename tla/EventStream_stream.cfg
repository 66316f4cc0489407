SPECIFICATION Spec
CONSTANTS
    Retries = 1
    MaxEvents = 4
    MaxFailures = 3
    Messages = {"partial", "question", "position"}
INVARIANTS TypeOK NothingSkipped ShownOnce
CHECK_DEADLOCK FALSE

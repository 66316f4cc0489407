SPECIFICATION FairSpec
CONSTANTS
    Retries = 1
    MaxEvents = 4
    MaxFailures = 2
    Messages = {}
PROPERTY TerminalReached
CHECK_DEADLOCK FALSE

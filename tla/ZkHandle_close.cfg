\* The comment of destroy().
CONSTANTS
    NumServers = 1
    MaxXid = 1
    MaxAuth = 0
    MaxPipe = 1
    MaxStack = 9
    Reentrant = FALSE
SPECIFICATION Spec
INVARIANT CompletedByClose
CHECK_DEADLOCK FALSE

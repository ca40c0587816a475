\* The assertion in zookeeper_process().
CONSTANTS
    NumServers = 1
    MaxXid = 2
    MaxAuth = 0
    MaxPipe = 1
    MaxStack = 9
    Reentrant = TRUE
SPECIFICATION Spec
INVARIANT ReplyHasRequest
CHECK_DEADLOCK FALSE

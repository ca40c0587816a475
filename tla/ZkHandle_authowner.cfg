\* The documentation of zoo_add_auth().
CONSTANTS
    NumServers = 1
    MaxXid = 0
    MaxAuth = 2
    MaxPipe = 1
    MaxStack = 9
    Reentrant = FALSE
SPECIFICATION Spec
INVARIANT AuthAnsweredForItself
CHECK_DEADLOCK FALSE

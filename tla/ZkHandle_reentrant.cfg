\* Watchers poll the handle themselves.
CONSTANTS
    NumServers = 1
    MaxXid = 2
    MaxAuth = 0
    MaxPipe = 1
    MaxStack = 9
    Reentrant = TRUE
SPECIFICATION Spec
INVARIANTS
    RequestLedger
    NoUseAfterFree
PROPERTIES
    LossIsFinal
    KeepsPromise
CHECK_DEADLOCK FALSE

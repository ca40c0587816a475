\* Requests, a credential, failures, closing; watchers submit and close but do not poll.
CONSTANTS
    NumServers = 2
    MaxXid = 1
    MaxAuth = 1
    MaxPipe = 1
    MaxStack = 9
    Reentrant = FALSE
SPECIFICATION FairSpec
INVARIANTS TypeOK PipelineMatches ConnectIndexInBounds DescriptorOwned NothingOwedAfterLoss WaitingAuthOnItsWay
PROPERTIES RequestAnswered AuthAnswered CloseHappens
CHECK_DEADLOCK FALSE

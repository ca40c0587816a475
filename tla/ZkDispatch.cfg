\* Three calls by the application and its watcher, every failure of the connection,
\* one packet that arrives in pieces.
CONSTANTS
    Used = {"addAuth", "setAcl", "watch"}
    MaxCalls = 3
    MaxNested = 1
    MaxPartial = 1
SPECIFICATION FairSpec
INVARIANTS TypeOK ResultsAlive HonestAnswer FailureTold OuterFirst
PROPERTIES MethodsReturn
CHECK_DEADLOCK FALSE

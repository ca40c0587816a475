\* ZNOTHING, "(not error) no server responses to process".
CONSTANTS
    Used = {"addAuth", "setAcl", "watch"}
    MaxCalls = 3
    MaxNested = 1
    MaxPartial = 1
SPECIFICATION Spec
INVARIANT NothingIsNoError
CHECK_DEADLOCK FALSE

\* Two requests, a credential, pings; every packet may be cut anywhere.
CONSTANTS
    Third = 3
    Late = 1
    MaxOut = 2
    MaxAuth = 1
    MaxPings = 2
SPECIFICATION Spec
INVARIANTS TypeOK FramesWhole Aligned GiveUpInTime PingInTime
PROPERTIES PromptServerKept

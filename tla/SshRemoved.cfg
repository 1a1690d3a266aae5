SPECIFICATION Spec
CONSTANTS
    Sessions = {s1}
    NoSession = NoSession
    Conns = {c1}
    Sizes = {}
    ScrollbackCap = 2
    MaxIncs = 2
    MaxOutput = 2
    Requests <- SshRequests
    MaxInFlight = 3
PROPERTIES AnyRemovedAfterOwnExit
CHECK_DEADLOCK FALSE

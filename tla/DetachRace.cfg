SPECIFICATION Spec
CONSTANTS
    Sessions = {s1}
    NoSession = NoSession
    Conns = {1}
    Clients = {c1}
    Sizes = {}
    ScrollbackCap = 2
    MaxIncs = 1
    MaxOutput = 1
    LocalCap = 2
    MaxLine = 9
    CoalesceCap = 9
    ClientOps = {"create", "attach", "detach"}
    Pipelined = TRUE
    MaxReq = 3
    MaxQueued = 3
    Faults = FALSE
    Timeouts = FALSE
PROPERTIES DetachStopsOutput
CHECK_DEADLOCK FALSE

SPECIFICATION Spec
CONSTANTS
    Sessions = {s1}
    NoSession = NoSession
    Conns = {1}
    Clients = {c1}
    Sizes = {1}
    ScrollbackCap = 2
    MaxIncs = 1
    MaxOutput = 0
    LocalCap = 2
    MaxLine = 9
    CoalesceCap = 9
    ClientOps = {"create", "resize"}
    Pipelined = FALSE
    MaxReq = 2
    MaxQueued = 3
    Faults = TRUE
    Timeouts = FALSE
INVARIANTS SizesForgotten
CHECK_DEADLOCK FALSE

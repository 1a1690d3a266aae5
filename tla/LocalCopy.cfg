SPECIFICATION Spec
CONSTANTS
    Sessions = {s1}
    NoSession = NoSession
    Conns = {1}
    Clients = {c1}
    Sizes = {}
    ScrollbackCap = 2
    MaxIncs = 1
    MaxOutput = 2
    LocalCap = 2
    MaxLine = 9
    CoalesceCap = 9
    ClientOps = {"create", "attach"}
    Pipelined = FALSE
    MaxReq = 3
    MaxQueued = 4
    Faults = FALSE
    Timeouts = FALSE
INVARIANTS LocalCopyComplete
CHECK_DEADLOCK FALSE

SPECIFICATION Spec
CONSTANTS
    Sessions = {s1}
    NoSession = NoSession
    Conns = {1}
    Clients = {c1, c2}
    Sizes = {}
    ScrollbackCap = 2
    MaxIncs = 1
    MaxOutput = 0
    LocalCap = 2
    MaxLine = 9
    CoalesceCap = 9
    ClientOps = {"create", "attach", "detach"}
    Pipelined = FALSE
    MaxReq = 5
    MaxQueued = 3
    Faults = FALSE
    Timeouts = FALSE
INVARIANTS AttachedIsFed
CHECK_DEADLOCK FALSE

SPECIFICATION Spec
CONSTANTS
    Sessions = {s1}
    NoSession = NoSession
    Conns = {1}
    Clients = {c1, c2}
    Sizes = {}
    ScrollbackCap = 2
    MaxIncs = 1
    MaxOutput = 2
    LocalCap = 2
    MaxLine = 9
    CoalesceCap = 9
    ClientOps = {"create", "attach"}
    Pipelined = FALSE
    MaxReq = 4
    MaxQueued = 4
    Faults = FALSE
    Timeouts = FALSE
INVARIANTS NoGapNoRepeat
CHECK_DEADLOCK FALSE

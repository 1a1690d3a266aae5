SPECIFICATION Spec
CONSTANTS
    Sessions = {s1}
    NoSession = NoSession
    Conns = {1}
    Clients = {c1}
    Sizes = {}
    ScrollbackCap = 2
    MaxIncs = 1
    MaxOutput = 2
    LocalCap = 1
    MaxLine = 1
    CoalesceCap = 9
    ClientOps = {"create", "create_ssh", "attach", "detach", "watch", "unwatch", "input", "kill"}
    Pipelined = FALSE
    MaxReq = 4
    MaxQueued = 2
    Faults = FALSE
    Timeouts = TRUE
INVARIANTS AttachedIsFed
CHECK_DEADLOCK FALSE

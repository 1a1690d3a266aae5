SPECIFICATION LiveSpec
CONSTANTS
    Sessions = {s1}
    NoSession = NoSession
    Conns = {1, 2}
    Clients = {c1}
    Sizes = {}
    ScrollbackCap = 1
    MaxIncs = 1
    MaxOutput = 2
    LocalCap = 2
    MaxLine = 9
    CoalesceCap = 2
    ClientOps = {"create", "attach"}
    Pipelined = FALSE
    MaxReq = 2
    MaxQueued = 1
    Faults = TRUE
    Timeouts = FALSE
INVARIANTS SilentUntilHello
PROPERTIES FeedSpec RequestsSettle AttachedSeesAll
CHECK_DEADLOCK FALSE

SPECIFICATION Spec
CONSTANTS
    Sessions = {s1}
    NoSession = NoSession
    Conns = {1}
    Clients = {c1, c2}
    Sizes = {1, 2}
    ScrollbackCap = 1
    MaxIncs = 1
    MaxOutput = 1
    LocalCap = 1
    MaxLine = 9
    CoalesceCap = 9
    ClientOps = {"create", "attach", "detach", "resize"}
    Pipelined = FALSE
    MaxReq = 3
    MaxQueued = 2
    Faults = FALSE
    Timeouts = FALSE
INVARIANTS TypeOK IndexesAgree EffectiveIsMin
PROPERTIES NothingAfterExit DetachStopsOutput
CHECK_DEADLOCK FALSE

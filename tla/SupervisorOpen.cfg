SPECIFICATION Spec
CONSTANTS
    Sessions = {s1}
    NoSession = NoSession
    Conns = {c1}
    Sizes = {1}
    ScrollbackCap = 2
    MaxIncs = 2
    MaxOutput = 3
    Requests <- AllRequests
    MaxInFlight = 1
INVARIANTS TypeOK SnapshotThenLive CaughtUp SnapshotBounded NoStaleSubscriber RingIffListed
PROPERTIES RemovedAfterOwnExit
CHECK_DEADLOCK FALSE

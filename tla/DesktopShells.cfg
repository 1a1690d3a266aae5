SPECIFICATION LiveSpec
CONSTANTS
    Ids = {s1}
    Calls = {c1, c2}
    NoCall = NoCall
    MaxNews = 1
    MaxFaults = 1
INVARIANTS NoOrphans OneReconnect
PROPERTIES OkMeansShell CallsSettle
CHECK_DEADLOCK FALSE

SPECIFICATION Spec
CONSTANTS
    Ids = {s1}
    Calls = {c1, c2}
    NoCall = NoCall
    MaxNews = 1
    MaxFaults = 0
PROPERTY CreatedIsShown
CHECK_DEADLOCK FALSE

SPECIFICATION Spec
CONSTANTS
    Ids = {s1}
    Refs = {r1}
    NoRef = NoRef
    Execs = {x1}
    NoExec = NoExec
    TailLen = 2
    Grace = 1
    Stabilize = 1
    MaxNow = 2
INVARIANTS OutcomesCovered MenuWins
PROPERTIES NothingCarriedOver NoFlapping
CHECK_DEADLOCK FALSE

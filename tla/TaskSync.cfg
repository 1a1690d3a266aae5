SPECIFICATION LiveSpec
CONSTANTS
    Tasks = {t1, t2}
    OwnTasks = {o1}
    Cap = 1
    PendingCap = 2
    Auths = {"good", "bad"}
    MaxChanges = 3
    MaxFaults = 1
INVARIANTS QuietMeansEqual PendingIsPursued
PROPERTIES Converges
CHECK_DEADLOCK FALSE

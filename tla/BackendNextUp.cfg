SPECIFICATION NextUpSpec
CONSTANTS
    Sessions = {"s1", "s2"}
    Manual = {"m1"}
    Slack = {"k1", "k2"}
    Events <- MCEvents
    Statuses = {"running", "stopped"}
    MaxSlack = 2
    MaxNow = 1
    MaxSteps = 4
    MaxRestarts = 1
INVARIANTS Settled DoneStaysDone
PROPERTIES OrderIsKept
CHECK_DEADLOCK FALSE

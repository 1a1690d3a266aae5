SPECIFICATION Spec
CONSTANTS
    Rules = {r1}
    PRs = {p1, p2}
    Schedules <- MCSchedules
    MonthLengths <- MCMonthLengths
    WeekLength = 2
    LastMinute = 1
    MaxManual = 1
    MaxRules = 1
    MaxCrashes = 1
SYMMETRY MCSymmetry
INVARIANTS OncePerOccurrence NothingForgotten
CHECK_DEADLOCK FALSE

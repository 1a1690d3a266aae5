SPECIFICATION Spec
CONSTANTS
    Ids = {s, v}
    Refs = {r}
    NoRef = NoRef
    Shells = {s}
    Shared = {}
    ClientPosts = {"create", "remove", "update", "event", "rename", "touch", "pause"}
    EventKinds = {"shell_execution_ended", "terminal_disconnected"}
    PendingCap = 1
    MaxTime = 2
    MaxInFlight = 2
    MaxPosts = 2
    MaxRestarts = 1
INVARIANTS RegistryConverges LatestReportWins NothingLeftPending RestartKeepsSessions
CHECK_DEADLOCK FALSE

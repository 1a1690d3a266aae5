SPECIFICATION Spec
CONSTANTS
    Ids = {s}
    Refs = {r}
    NoRef = NoRef
    Shells = {s}
    Shared = {s}
    ClientPosts = {"remove", "update", "event", "rename", "touch", "pause"}
    EventKinds = {"terminal_attached", "shell_execution_ended", "terminal_disconnected"}
    PendingCap = 1
    MaxTime = 2
    MaxInFlight = 3
    MaxPosts = 3
    MaxRestarts = 1
INVARIANTS RegistryConverges NothingLeftPending
CHECK_DEADLOCK FALSE

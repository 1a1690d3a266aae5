SPECIFICATION AnalyzerLiveSpec
CONSTANTS
    Screens = {"footer", "menu"}
    Prompt = {"menu"}
    Override = {"footer", "menu"}
    Stabilization = 1
    TypingGuard = 1
    FocusGuard = 1
    InputGrace = 1
    RecentOutput = 1
    Idle = 2
    FlapWindow = 5
    FlapMin = 4
    FlapHold = 2
    NoOutputLimit = 3
    Signals = {"input", "typing", "focus", "resize"}
INVARIANTS FlapBounded NoFalseIdle
PROPERTIES NeverStuck
CHECK_DEADLOCK FALSE

CONSTANTS
    Windowed = TRUE
    StartupTimeout = 1
    Poll = 1
    Grace = 1
    Backoff = 1
    Window = 3
    MaxRestarts = 1
    QueryTimeout = 1
    MayExit = {"agent", "shell"}
    Leftover = {}
    Signals = {}
    IntIgnored = FALSE
    Faults = {"kill"}
    MaxLag = 0
    MaxTime = 10
SPECIFICATION FairSpec
INVARIANTS TypeOK RestartBudget
PROPERTIES LimiterSpec StartupDecided ShutdownCompletes ExitIsNoticed
CHECK_DEADLOCK FALSE

CONSTANTS
    Windowed = TRUE
    StartupTimeout = 48
    Poll = 1
    Grace = 6
    Backoff = 8
    Window = 120
    MaxRestarts = 3
    QueryTimeout = 5
    MayExit = {}
    Leftover = {}
    Signals = {"SIGINT", "SIGTERM"}
    IntIgnored = TRUE
    Faults = {}
    MaxLag = 0
    MaxTime = 20
    Patience = 8

SPECIFICATION SmokeSpec
INVARIANTS CleanShutdown
CHECK_DEADLOCK FALSE

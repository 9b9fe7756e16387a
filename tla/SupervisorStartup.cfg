CONSTANTS
    Windowed = FALSE
    StartupTimeout = 1
    Poll = 1
    Grace = 1
    Backoff = 1
    Window = 4
    MaxRestarts = 1
    QueryTimeout = 1
    MayExit = {"labwc", "shell"}
    Leftover = {"admin"}
    Signals = {"SIGINT", "SIGTERM"}
    IntIgnored = FALSE
    Faults = {"launch", "respawn", "bus", "wait"}
    MaxLag = 1
    MaxTime = 16

SPECIFICATION Spec
INVARIANTS HealthyMeansAppeared StartupBound NoSurvivors
PROPERTIES ReadyOnlyWhenUp ShellMustComeUp
CHECK_DEADLOCK FALSE

CONSTANTS
    AppCount = 3
    Fallback = {2}
    Found <- MayBeFound
    Queries <- SomeQueries
    Tracked = {1, 3}
    PanelLimit = 1
    WideLimit = 2
    RecentLimit = 1
    Kept = 2
    MaxProcs = 1
    MaxWindows = 2

SPECIFICATION Spec
INVARIANTS
    TypeOK
    ScreenShowsStack
    EnterLaunchesHighlighted
    TaskbarIsPinnedThenRunning
    RecentsAreTheLatest
PROPERTY
    ListsSurvive

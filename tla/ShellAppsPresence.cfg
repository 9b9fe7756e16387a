CONSTANTS
    AppCount = 2
    Fallback = {2}
    Found <- MayBeFound
    Queries <- NoSearch
    Tracked = {1}
    PanelLimit = 2
    WideLimit = 3
    RecentLimit = 2
    Kept = 3
    MaxProcs = 1
    MaxWindows = 2

SPECIFICATION FairSpec
PROPERTY PresenceFollows

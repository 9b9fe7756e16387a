CONSTANTS
    Featured <- ThreeApps
    Limit = 3
    FavoritesKept = 12
    Favorable = {"web"}
    OriginX = 12
    OriginY = 12
    StepX = 108
    StepY = 120
    Width = 108
    Height = 112
    FallbackX = 168
    FallbackY = 512
    Lanes <- RoomyLanes
    StartLane <- SquareLane
    SavedPoints <- Points

SPECIFICATION Spec
INVARIANTS DrawnApart

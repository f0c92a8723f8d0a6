\* Two players, a 5 x 6 board, four ticks.
CONSTANTS
    p1 = p1
    p2 = p2
    Players = {p1, p2}
    Width = 5
    Height = 6
    SpawnSites <- MCSpawnSites
    FoodSites <- MCFoodSites
    MaxTicks = 4
SPECIFICATION Spec
INVARIANTS  NeckSafe BodyIntact OverlapNeedsMeal
\* A room whose game is over, or whose tick bound is used up, goes quiet.
CHECK_DEADLOCK FALSE

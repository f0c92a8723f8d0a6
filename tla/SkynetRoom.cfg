\* A match of two players on an 8 x 6 board, four ticks.
CONSTANTS
    p1 = p1
    p2 = p2
    Players = {p1, p2}
    Width = 8
    Height = 6
    SpawnSites <- MCSpawnSites
    FoodSites <- MCFoodSites
    MaxTicks = 4
SPECIFICATION RoomSpec
PROPERTIES ImplementsRules
\* A game that is over, or whose tick bound is used up, goes quiet.
CHECK_DEADLOCK FALSE

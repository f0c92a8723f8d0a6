\* Either mode, two connections, and games of two players.
CONSTANTS
    Others = 1
    MaxConns = 2
    MaxPushes = 3
SPECIFICATION FairSpec
INVARIANTS OneConnection InStep TrackerFollows
PROPERTIES LossIsNoticed
CHECK_DEADLOCK FALSE

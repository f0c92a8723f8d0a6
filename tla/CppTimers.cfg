\* Two sessions and three timers; the poller could sleep much longer than a
\* coroutine may wait.
CONSTANTS
    s1 = s1
    s2 = s2
    Sessions = {s1, s2}
    Timeout = 2
    Retry = 1
    Idle = 3
    MaxTimers = 3
SPECIFICATION FairSpec
INVARIANTS WorkingIsWatched LateIsClosed
PROPERTIES TimersEnd
CHECK_DEADLOCK FALSE

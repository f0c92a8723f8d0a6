\* Any client that sends up to three packages, with two heartbeats at a time and
\* the goroutines scheduled fairly.
CONSTANTS
    b1 = b1
    b2 = b2
    Beats <- TwoBeats
    Timeout = 2
    ReadDeadline = 3
    MaxSent = 3
SPECIFICATION FairSpec
INVARIANTS PoliteNeverPanics WorkingIsWatched
PROPERTIES ImplementsEcho 
CHECK_DEADLOCK FALSE

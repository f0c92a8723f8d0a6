\* Two clients, one move or kick between them, and two rooms, with every
\* mailbox served.
SPECIFICATION FairSpec
CONSTANTS
    p1 = p1
    p2 = p2
    Players <- MCTwo
    MatchSize = 2
    MaxRooms = 2
    MaxAcks = 1
    MaxSent = 1
    MaxMail = 1
CHECK_DEADLOCK FALSE
INVARIANTS
    OnePlace
    NobodyIsLost
    SessionKnowsRoom
PROPERTIES
    LeaversRejoin

\* One session of three packages of any kind, with every thread scheduled fairly.
CONSTANTS
    c1 = c1
    c2 = c2
    Nobody = Nobody
    Clients = {c1}
    Workers = 1
    Fds = 2
    Kinds = {"handshake", "ack", "request", "kick"}
    MaxSent = 3
    SlowPeers = TRUE
SPECIFICATION FairSpec
INVARIANTS NoDanglingBeat AnswersInOrder
PROPERTIES PackagesAreRead ShutsDown
CHECK_DEADLOCK FALSE

\* Two workers and two connections: how they travel between the threads.
CONSTANTS
    c1 = c1
    c2 = c2
    Nobody = Nobody
    Clients <- TwoClients
    Workers = 2
    Fds = 2
    Kinds = {"handshake", "ack", "request", "kick"}
    MaxSent = 1
    SlowPeers = TRUE
SPECIFICATION Spec
SYMMETRY Symmetry
INVARIANTS OneHome NoLostWakeup
CHECK_DEADLOCK FALSE

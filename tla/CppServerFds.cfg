\* Sessions that go on with a descriptor they have closed.
CONSTANTS
    c1 = c1
    c2 = c2
    Nobody = Nobody
    Clients <- TwoClients
    Workers = 2
    Fds = 2
    Kinds = {"request"}
    MaxSent = 2
    SlowPeers = FALSE
SPECIFICATION Spec
SYMMETRY Symmetry
INVARIANTS OwnConnectionsOnly
CHECK_DEADLOCK FALSE

SPECIFICATION Spec
CONSTANTS
    PeerCount = 1
    Remotes = {r1, r2}
    NoAddress = NoAddress
    NoThread = NoThread
    QueueCap = 2
    MaxMessages = 0
    MaxBatch = 1
INVARIANTS
    ConnectReturnsItsPeer

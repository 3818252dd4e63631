SPECIFICATION FairSpec
CONSTANTS
    PeerCount = 1
    Remotes = {r1}
    NoAddress = NoAddress
    NoThread = NoThread
    QueueCap = 2
    MaxMessages = 2
    MaxBatch = 1
INVARIANTS
  GuardedExclusion
  Lifetime
  QueuesBelong
  HostInv
PROPERTIES
  Turnstile
  CallsReturn
  MessagesLeave

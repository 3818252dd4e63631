\* Connections come and go in two peers while the script reads the events late.
CONSTANTS
  PeerCount = 2
  QueueCap = 4
  Ops = {"disconnect", "disconnect_later", "reset", "disconnect_now"}
  MaxConnections = 3
  MaxMessages = 1
  MaxBindings = 2
SPECIFICATION Spec
INVARIANTS
  ViewInv
  KnowsAll
CHECK_DEADLOCK FALSE

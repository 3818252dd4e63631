\* Retransmission over a network that loses datagrams.
SPECIFICATION FairSpec
CONSTANTS
  c1 = c1
  c2 = c2
  WindowSize = 1
  Windows = 6
  FreeWindows = 3
  UnsequencedSize = 1
  UnsequencedWindows = 2
  FreeUnsequenced = 1
  MaximumWaiting = 100
  Channels = {c1, c2}
  Control = c0
  CanLose = TRUE
  Scenarios <- MCHeldBack
PROPERTY EveryPacketArrives
\* Within the bounds there is nothing left to send.
CHECK_DEADLOCK FALSE

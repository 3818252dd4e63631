\* Packets of every kind on one channel, whole or in two fragments, with room for
\* five fragments that wait.
SPECIFICATION Spec
CONSTANTS
  WindowSize = 2
  Windows = 6
  FreeWindows = 3
  UnsequencedSize = 2
  UnsequencedWindows = 4
  FreeUnsequenced = 2
  MaximumWaiting = 5
  Channels = {c1}
  Flags = {"reliable", "unreliable", "unsequenced", "unreliableFragment"}
  Sizes = {1, 2}
  MaxUnreliable = 3
  MaxPackets = 4
INVARIANTS
  ReceiverInv
  HandedOverWhole
  AtMostOnceInOrder
PROPERTIES
  ImplementsChannel
CHECK_DEADLOCK FALSE

\* One or two channels, over a network that delays, reorders and duplicates.
SPECIFICATION Spec
CONSTANTS
  c1 = c1
  c2 = c2
  WindowSize = 2
  Windows = 6
  FreeWindows = 3
  UnsequencedSize = 1
  UnsequencedWindows = 2
  FreeUnsequenced = 1
  MaximumWaiting = 3
  Channels = {c1, c2}
  Control = c0
  CanLose = FALSE
  Scenarios <- MCScenarios
INVARIANTS
  SenderInv
  EndsAgree
PROPERTIES
  ImplementsChannel
\* Within the bounds there is nothing left to send.
CHECK_DEADLOCK FALSE

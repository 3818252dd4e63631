\* The bandwidth of a host, divided among two or three peers.
CONSTANTS
  N = 3
  Word = 4096
  Scale = 8
  Second = 2
  MinWindow = 2
  MaxWindow = 4
  WindowScale = 32
  Elapsed = {2}
  CommandSize = 8
  MaxData = 16
  Scenarios <- MCScenarios
SPECIFICATION FairSpec
INVARIANTS
  ThrottleInv
  KeepsToBandwidth
  ThrottledOnlyWhenNeeded
  SharesFit
PROPERTIES
  ThrottleReturns

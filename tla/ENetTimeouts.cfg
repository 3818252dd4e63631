\* A first timeout of 1, a minimum of 4 and a maximum of 5, on a clock that wraps around.
SPECIFICATION Spec
CONSTANTS
  Clock = 58
  Overflow = 29
  FirstTimeouts = {1}
  Limit = 2
  Minimum = 4
  Maximum = 5
  MaxStep = 2
  MaxCommands = 2
INVARIANTS
  TimeoutInv
  SilenceEnds
PROPERTIES
  NotGivenUpEarly
CHECK_DEADLOCK FALSE

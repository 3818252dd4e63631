\* A buffer of four slots, so that the positions wrap around
\* at different times and the queue is full with one slot unused.
SPECIFICATION RingFairSpec
CONSTANTS
    SIZE = 4
    Items = {a, b}
    NULL = NULL
    Garbage = Garbage
    NoOwner = NoOwner
    Clearer = "consumer"
INVARIANTS
  RingTypeOK
  CheckStillHolds
  CountIsAPromise
  LiveSlots
PROPERTIES
  ImplementsFifo
  ClearReturns

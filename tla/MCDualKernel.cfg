SPECIFICATION Spec
CONSTANTS
  RingBound = 2
  MaxCalls = 4
INVARIANTS
  TypeOK
  BootAllOrNothing
  InOrder
  RepliesGenuine
  RequestsKept
PROPERTIES
  RequestsServed
  RepliesDelivered
  RunningLoopsStop

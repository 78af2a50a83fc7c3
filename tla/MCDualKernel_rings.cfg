SPECIFICATION Spec
CONSTANTS
  RingBound = 1
  MaxCalls = 1
INVARIANT PolledChannelHasRings

SPECIFICATION Spec
CONSTANTS
  RingBound = 1
  MaxCalls = 2
PROPERTY CallsAnswered

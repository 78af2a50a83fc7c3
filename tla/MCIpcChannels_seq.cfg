SPECIFICATION Spec
CONSTANTS
  MaxChannels = 1
  RingBound = 2
  MaxSends = 4
INVARIANT SeqOrdersMessages

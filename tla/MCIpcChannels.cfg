SPECIFICATION Spec
CONSTANTS
  MaxChannels = 2
  RingBound = 1
  MaxSends = 3
INVARIANTS
  TypeOK
  
  
  

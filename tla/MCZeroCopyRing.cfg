SPECIFICATION Spec
CONSTANTS
  Capacity = 3
  Part = {header, data}
  Word = {zero, w}
  Zero = zero
  header = header
  data = data
  zero = zero
  w = w
INVARIANTS
  TypeOK
  NoSharedSlot
PROPERTIES
  RingIsFifo
  RingServes

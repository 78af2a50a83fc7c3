SPECIFICATION Spec
SYMMETRY Contents
CONSTANTS
  a = a
  b = b
  Names = {n}
  MainName = main
  NoName = none
  Payloads = {a, b, large}
  Oversized = {large}
  Empty = empty
  HeapPages = 8
  MaxRegions = 2
  MaxChannels = 2
  RingSlots = 3
  MaxHeld = 1
  MaxLives = 2
INVARIANTS
  TypeOK
  ChannelBacked
  RefsExact
  NewestIntact
CHECK_DEADLOCK FALSE

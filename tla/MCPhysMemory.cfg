SPECIFICATION Spec
CONSTANTS
  TotalPages = 10
  MaxOrder = 2
INVARIANTS
  TypeOK
  BlocksTile
  ListsSound
  StatsExact
PROPERTY IsAllocator

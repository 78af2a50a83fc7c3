SPECIFICATION Spec
CONSTANTS
  Drivers = {d1, d2, d3}
  Null = Null
  Irqs = {0}
  MaxDrivers = 3
  CountModulus = 8
  MaxDepth = 3
INVARIANTS
  TypeOK
  RegistryExact
  RemovedOnce
  HandlersOwned
PROPERTIES
  ShutdownEnds

SPECIFICATION Spec
CONSTANTS
  Caps = {network, camera, root}
  Dangerous = {camera, root}
  Root = root
  UserDefault = {network}
  MaxProcesses = 4
  MaxRecords = 1
  MaxStacks = 5
  MaxPid = 4
INVARIANTS
  TypeOK
  OneRunning
  BoundedWait
  DangerousTraced
PROPERTIES
  OnlyCurrentRevived

SPECIFICATION Spec
CONSTANTS
  MaxProcesses = 3
  PidModulus = 8
  MaxCreates = 6
INVARIANTS
  TypeOK
  CurrentIsAlive
  PidsUnique
  CountIsExact
PROPERTIES
  NoResurrection

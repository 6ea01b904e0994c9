SPECIFICATION Spec
CONSTANTS
  n1 = n1
  n2 = n2
  n3 = n3
  b1 = b1
  b2 = b2
  p1 = p1
  p2 = p2
  nobody = nobody
  Names <- MCNames
  Bodies <- MCBodies
  NoBody <- nobody
  Child <- MCChild
  Parts <- MCParts
  Procs <- MCProcs
  Targets <- MCTargets
  MaxId = 3
  MaxClock = 2
  MaxCommands = 3
  MaxCrashes = 0
SYMMETRY Symm
CHECK_DEADLOCK FALSE
PROPERTIES RememberHonoursLock

CONSTANTS
  p1 = p1
  p2 = p2
  k1 = k1
  k2 = k2
  v1 = v1
  Procs <- MCProcs
  Cmds <- MCCmds
  Keys <- MCKeys
  Vals <- MCVals
  NoVal = NoVal
  Torn = Torn
  NoContent = NoContent
  Ceiling = 2
  Cpus = 2
  Last = 3
  Blob = 2
  Rebuilds = {3}
  Dims = {1}
  MaxLaunches = 2
  MaxForced = 1
  MaxDeaths = 1
  MaxSaves = 2
  MaxCommits = 1
SPECIFICATION Spec
SYMMETRY MCSym
INVARIANTS LocksHold ReadyIsComplete FilesWhole
PROPERTIES NothingOverwritten
CHECK_DEADLOCK FALSE

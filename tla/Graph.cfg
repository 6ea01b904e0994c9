SPECIFICATION Spec
CONSTANTS
  n1 = n1
  n2 = n2
  old1 = old1
  r1 = r1
  r2 = r2
  m1 = m1
  p1 = p1
  p2 = p2
  ENames <- MCENames
  Norm <- MCNorm
  Legacy <- MCLegacy
  Rels <- MCRels
  Mems <- MCMems
  Procs <- MCProcs
  MaxEid = 3
  MaxCommands = 4
SYMMETRY Symm
INVARIANTS ReferencesHold DegreeExact
PROPERTIES NothingDisconnected
CHECK_DEADLOCK FALSE

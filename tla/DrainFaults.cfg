SPECIFICATION Spec
CONSTANTS
  a = a  b = b  w1 = w1  w2 = w2  w3 = w3  n1 = n1  n2 = n2  NoNs = NoNs
  f1 = f1  f2 = f2  f3 = f3
  Namespaces <- OneNs
  Operations = {"EntityDescriptions"}
  Keys = {1}
  Ids = {1, 2, 3}
  Files = {f1, f2}
  MaxAttempts = 2
  Jobs <- JA
  JobNs <- NsOf1
  JobOp <- EdOp
  Workers = {w1, w2}
  JobOf <- OfA
  RunOptions <- OptsAll
  BreakerThreshold = 2
  HotKeys = {1}
  MaxStrays = 2
  MaxCrashes = 1
  MaxSignals = 0
  MaxLost = 1
  MaxThrottles = 1
  MaxAdmin = 1
SYMMETRY ThreadsAndFiles
INVARIANTS UniqueTriple AttemptBudget
PROPERTIES DoneIsFinal DeadNeedsOperator

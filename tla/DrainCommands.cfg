SPECIFICATION Spec
CONSTANTS
  a = a  b = b  w1 = w1  w2 = w2  w3 = w3  n1 = n1  n2 = n2  NoNs = NoNs
  f1 = f1  f2 = f2  f3 = f3
  Namespaces <- TwoNs
  Operations = {"EntityDescriptions", "BodyEnrich"}
  Keys = {1}
  Ids = {1, 2, 3, 4}
  Files = {f1, f2, f3}
  MaxAttempts = 1
  Jobs <- JAB
  JobNs <- NsOf2
  JobOp <- BeOp
  Workers = {w1, w2, w3}
  JobOf <- OfAB
  RunOptions <- OptsFresh
  BreakerThreshold = 2
  HotKeys = {1}
  MaxStrays = 1
  MaxCrashes = 0
  MaxSignals = 0
  MaxLost = 0
  MaxThrottles = 0
  MaxAdmin = 1
SYMMETRY ThreadsAndFiles
INVARIANTS TypeOK ClaimExclusive WriteBackHitsItsClaim
PROPERTIES RunsAreIsolated

SPECIFICATION FairSpec
CONSTANTS
  a = a  b = b  w1 = w1  w2 = w2  w3 = w3  n1 = n1  n2 = n2  NoNs = NoNs
  f1 = f1  f2 = f2  f3 = f3
  Namespaces <- OneNs
  Operations = {"EntityDescriptions"}
  Keys = {1, 2}
  Ids = {1, 2, 3, 4}
  Files = {f1}
  MaxAttempts = 1
  Jobs <- JA
  JobNs <- NsOf1
  JobOp <- EdOp
  Workers = {w1}
  JobOf <- OfA
  RunOptions <- OptsEager
  BreakerThreshold = 2
  HotKeys = {1}
  MaxStrays = 0
  MaxCrashes = 1
  MaxSignals = 1
  MaxLost = 0
  MaxThrottles = 0
  MaxAdmin = 1
PROPERTIES BacklogConverges NoStrandedClaim SignalEndsRun

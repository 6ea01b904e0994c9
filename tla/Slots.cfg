SPECIFICATION SlotFairSpec
CONSTANTS
  Procs = {p1, p2, p3}
  NoPid = NoPid
  NoFile = NoFile
  Max = 1
  PidReuse = FALSE
  MaxDeaths = 1
  MaxOperator = 1
INVARIANTS SlotTypeOK SlotLimitWhileAllLive
PROPERTIES DeadSlotRecovered AcquireReturns

SPECIFICATION DeviceSpec
CONSTANTS
  FreeFailures = 0
  Steps = 1
  Delays <- OneDelay
  MaxFailures = 1
  MaxTime = 1
  Pins = {p1, p2}
  NoPin = NoPin
  MaxRequests = 1
  MaxRestarts = 0
  NSectors = 3
  NOffsets = 2
  NPages = 2
  MaxBlocks = 2
  MaxCacheLosses = 1
INVARIANTS
  SyncedIsInFlash 
PROPERTIES ApprovalNeedsPin ImplementsPinLock
SYMMETRY PinSymmetry
CHECK_DEADLOCK FALSE

SPECIFICATION Spec
CONSTANTS
  Values = {v1, v2}
  NoVal = NoVal
  MaxGen = 3
  MaxHandles = 0
  MaxToken = 1
  MaxFaults = 0
  MaxTimeouts = 1
  MaxCrashes = 0
INVARIANTS AckedNeverVanishes
CHECK_DEADLOCK FALSE

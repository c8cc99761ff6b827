SPECIFICATION Spec
CONSTANTS
  FreeFailures = 0
  Steps = 1
  Delays <- OneDelay
  MaxFailures = 1
  MaxTime = 1
  Pins = {p1}
  NoPin = NoPin
  MaxRequests = 1
  MaxRestarts = 0
PROPERTIES WaitTimesOut
CHECK_DEADLOCK FALSE

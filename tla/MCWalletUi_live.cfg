SPECIFICATION Spec
CONSTANTS
  FreeFailures = 0
  Steps = 1
  Delays <- OneDelay
  MaxFailures = 1
  MaxTime = 0
  Pins = {p1}
  NoPin = NoPin
  MaxRequests = 1
  MaxRestarts = 2
INVARIANTS WipeBeforeUse
PROPERTIES WipeCompletes DecisionIsAnswered
CHECK_DEADLOCK FALSE

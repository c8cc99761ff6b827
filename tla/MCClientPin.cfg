SPECIFICATION Spec
CONSTANTS
  Pins = {p1, p2}
  NoPin = NoPin
  RPs = {r1, r2}
  NoRP = NoRP
  Requests <- SomeRequests
  MAX_PIN_RETRIES = 4
  MaxMismatches = 2
  MaxTimeouts = 1
  MaxLosses = 1
INVARIANTS
  RetriesOnRecord   WithinProof VoidStaysVoid
SYMMETRY Symmetries
CHECK_DEADLOCK FALSE

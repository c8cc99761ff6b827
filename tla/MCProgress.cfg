SPECIFICATION ProgressSpec
CONSTANTS
  Cids = {c1, c2}
  NoCid = NoCid
  Conts = 1
  Frames = 2
  Workers = 2
  MaxReq = 2
  MaxNoise = 1
  Overlap = FALSE
  Values = {v1, v2}
  NoVal = NoVal
  MaxGen = 4
  MaxHandles = 0
  MaxToken = 1
  MaxFaults = 1
  MaxTimeouts = 0
  MaxCrashes = 2
INVARIANTS
   RequestIsIntact  CancelIsScoped
PROPERTIES
  
  ImplementsAtomicObject Returns
CHECK_DEADLOCK FALSE

SPECIFICATION StorageSpec
CONSTANTS
  Fids = {f1, f2, f3}
  NoFid = NoFid
  Vals = {v1, v2}
  NoVal = NoVal
  EndPool = 5
  PerSector = 2
  Ops = {"create", "replace", "update", "delete"}
  MaxOps = 4
  MaxCrashes = 2
  MaxGiveUps = 1
  Objs = {x, y}
  Layouts = {"oath", "resident", "vault"}
  LateTimeouts = FALSE
  MaxUpdates = 3
  MaxLosses = 2
  MaxIoErrors = 1
  CredNames = {na, nb}
  Codes = {c1}
  OtpPins = {p1, p2}
  NoCode = NoCode
  NoOtpPin = NoOtpPin
  LastSlot = 1
  MaxTries = 2
  MaxPiece = 1
  MaxOathOps = 5
  MaxOathLosses = 1
  MaxOathFaults = 1
  OtpSlots = {s1, s2}
  MaxCounter = 4
  Sessions = 2
  MaxOtpOps = 4
  MaxOtpLosses = 1
  MaxOtpFaults = 1
INVARIANTS
   UntouchedSurvive
  
  OathSessionEarned OathCountersHold ListIsComplete
  PasswordsDiffer
SYMMETRY FileSymmetry
CHECK_DEADLOCK FALSE

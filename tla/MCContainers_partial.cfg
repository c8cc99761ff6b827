SPECIFICATION ContainersSpec
CONSTANTS
  Objs = {x, y}
  Layouts = {"resident", "vault"}
  LateTimeouts = FALSE
  MaxUpdates = 3
  MaxLosses = 1
  MaxIoErrors = 0
INVARIANT BootFindsAckedOrTried
CHECK_DEADLOCK FALSE

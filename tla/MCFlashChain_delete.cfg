SPECIFICATION ChainSpec
CONSTANTS
  Fids = {f1, f2}
  NoFid = NoFid
  Vals = {v1}
  NoVal = NoVal
  EndPool = 4
  PerSector = 2
  Ops = {"create", "delete"}
  MaxOps = 4
  MaxCrashes = 2
  MaxGiveUps = 0
INVARIANT ClearedIsUnlinked
CHECK_DEADLOCK FALSE

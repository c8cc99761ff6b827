SPECIFICATION PartsSpec
CONSTANTS
  FreeFailures = 2
  Steps = 3
  Delays <- ScaledDelays
  MaxFailures = 5
  MaxTime = 9
  Values = {v1, v2}
  NoVal = NoVal
  MaxGen = 3
  MaxHandles = 2
  MaxToken = 3
  MaxFaults = 0
  MaxTimeouts = 1
  MaxCrashes = 1
  Conns = 2
  RestSessions = 1
  Backlog = 1
  Seqs = {1, 2}
  MaxClients = 3
  MaxIds = 2
INVARIANTS
  GuessesOnRecord
  Durable HandleReadsItsVersion
  OneAnswerEach RequestsOnce
PROPERTY LockoutEnforced
SYMMETRY ValueSymmetry
CHECK_DEADLOCK FALSE

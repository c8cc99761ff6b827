SPECIFICATION CtapSpec
CONSTANTS
  CredRps = {q1, q2}
  CredUsers = {u1, u2}
  CredChannels = {a, b}
  NoChannel = NoChannel
  LastCredSlot = 2
  MaxList = 2
  MaxCredOps = 3
  MaxCredMishaps = 1
  VaultKeys = {k1, k2}
  OldVaultKey = k0
  NoVaultKey = NoVaultKey
  MaxVaultOps = 5
  MaxVaultMishaps = 2
  Arrays = {b1, b2}
  Initially = Initially
  MaxParts = 3
  MaxFragments = 5
  MaxBlobMishaps = 1
  Apps = {fido, oathApp}
  NoApp = NoApp
  Headers = {"h1"}
  ChainSize = 2
  MaxData = 1
  MaxResp = 2
  MaxApdus = 3
INVARIANTS
  CalledWithItsChain 
  WalksComplete OnePerAccount 
   
  
CHECK_DEADLOCK FALSE

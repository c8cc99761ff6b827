-------------------------------- MODULE MCDevice --------------------------------
\* Small instances of two parts of the firmware that share no state, side by side: the wallet with
\* its lockout, and the cache of flash sectors.  part says which of them a behaviour is about, and
\* the other rests as it was at first.
EXTENDS WalletUi, PageCache, TLC

VARIABLE part

DeviceInit ==
  /\ part \in {"wallet", "cache"}
  /\ Init /\ PageCacheInit
  /\ part # "wallet" => now = 0

DeviceNext ==
  /\ UNCHANGED part
  /\ \/ part = "wallet" /\ Next          /\ UNCHANGED cacheVars
     \/ part = "cache"  /\ PageCacheNext /\ UNCHANGED vars

DeviceSpec == DeviceInit /\ [][DeviceNext]_<<part, vars, cacheVars>>

OneDelay == [i \in 1..Steps |-> i]

\* The PINs are interchangeable, and so is what the properties say of them.
PinSymmetry == Permutations(Pins)
=================================================================================

------------------------------ MODULE MCComponents ------------------------------
\* Small instances of components that share no state, side by side: part says which of them a
\* behaviour is about, and the others rest as they were at first.
EXTENDS PinLock, ObjectTxn, Rest, TLC

VARIABLE part

PartsInit ==
  /\ part \in {"lock", "object", "rest"}
  /\ LockInit /\ Init /\ RestInit
  /\ part # "lock" => now = 0

PartsNext ==
  /\ UNCHANGED part
  /\ \/ part = "lock"   /\ LockNext  /\ UNCHANGED <<vars, restVars>>
     \/ part = "object" /\ Next      /\ UNCHANGED <<lockVars, restVars>>
     \/ part = "rest"   /\ RestNext  /\ UNCHANGED <<lockVars, vars>>

PartsSpec == PartsInit /\ [][PartsNext]_<<part, lockVars, vars, restVars>>

\* The code's thresholds, its delays scaled down.
ScaledDelays == [i \in 1..Steps |-> i]

\* The store never looks at a payload.
ValueSymmetry == Permutations(Values)
=================================================================================

------------------------------- MODULE MCProgress -------------------------------
\* Small instances of the transports with the worker, and of a transactional object, side by side:
\* part says which of them a behaviour is about, and the other rests as it was at first.
EXTENDS Transport, ObjectTxn

VARIABLE part

ProgressInit ==
  /\ part \in {"transport", "object"}
  /\ TransportInit /\ Init

ProgressNext ==
  /\ UNCHANGED part
  /\ \/ part = "transport" /\ TransportNext /\ UNCHANGED vars
     \/ part = "object"    /\ Next          /\ UNCHANGED tvars

ProgressSpec ==
  ProgressInit /\ [][ProgressNext]_<<part, tvars, vars>> /\ TransportFairness /\ Fairness
=================================================================================

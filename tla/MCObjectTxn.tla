------------------------------ MODULE MCObjectTxn ------------------------------
\* Small instances of ObjectTxn.
EXTENDS ObjectTxn

================================================================================

------------------------------ MODULE MCWalletUi ------------------------------
\* Small instances of WalletUi.
EXTENDS WalletUi
OneDelay == [i \in 1..Steps |-> i]
=============================================================================

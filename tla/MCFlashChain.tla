------------------------------ MODULE MCFlashChain ------------------------------
\* A small instance of FlashChain.
EXTENDS FlashChain
=================================================================================

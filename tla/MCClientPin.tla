------------------------------ MODULE MCClientPin ------------------------------
\* A small instance of ClientPin.
EXTENDS ClientPin, TLC

\* getPinToken's permissions with one that an assertion must take away, and authenticatorConfig's.
SomeRequests == {{"mc", "ga", "cm"}, {"acfg"}}

\* PINs and RPs are interchangeable.
Symmetries == Permutations(Pins) \cup Permutations(RPs)
================================================================================

------------------------------ MODULE MCContainers ------------------------------
\* Small instances of Containers.
EXTENDS Containers
=================================================================================

---------------------------- MODULE MCAtomicWrite ----------------------------
EXTENDS AtomicWrite
=============================================================================

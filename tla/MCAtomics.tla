------------------------------ MODULE MCAtomics ------------------------------
EXTENDS Atomics
=============================================================================

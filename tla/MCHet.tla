-------------------------------- MODULE MCHet --------------------------------
EXTENDS HetAcquire
=============================================================================

------------------------------ MODULE MCThreads ------------------------------
EXTENDS CrestThreads
=============================================================================

------------------------------ MODULE MCParPBS ------------------------------
EXTENDS ParPBS
=============================================================================

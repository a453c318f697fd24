-------------------------------- MODULE MCNic --------------------------------
EXTENDS Nic
=============================================================================

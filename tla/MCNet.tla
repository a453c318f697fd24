------------------------------- MODULE MCNet -------------------------------
EXTENDS Net

CONSTANTS gw, near, next, far     \* the gateway, two local hosts and a remote one

MCLocal == {gw, near, next}
MCRemote == {far}
=============================================================================

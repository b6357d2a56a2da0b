-------------------------- MODULE MCTCPConnection --------------------------
EXTENDS TCPConnection, TLC
MCISN  == Client :> 13 @@ Server :> 5
MCText == Client :> 3 @@ Server :> 0
=============================================================================

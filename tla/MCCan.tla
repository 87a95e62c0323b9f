-------------------------------- MODULE MCCan --------------------------------
EXTENDS CanPeer, TLC
CONSTANTS hello, m1, m2
MCBlocks == hello :> 1 @@ m1 :> 3 @@ m2 :> 1
==============================================================================

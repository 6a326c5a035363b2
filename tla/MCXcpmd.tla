------------------------------ MODULE MCXcpmd ------------------------------
EXTENDS Xcpmd, TLC
MCBays == 0..2
MCInitBays == {0 :> 1 @@ 1 :> 2 @@ 2 :> 0, 0 :> 0 @@ 1 :> 2 @@ 2 :> 3,
               0 :> 1 @@ 1 :> 2 @@ 2 :> 3, 0 :> 0 @@ 1 :> 0 @@ 2 :> 0}
MCText == 1 :> <<<<20, NL>>>> @@ 2 :> <<<<NL>>>> @@ 3 :> <<<<20, 21, NL>>>>
=============================================================================

--------------------------- MODULE MCConnections ----------------------------
(* Model checking of ConnectionClaims: which connections there are. *)
EXTENDS ConnectionClaims, TLC

CONSTANTS c1, c2, j1, j2

OneOfEach == (c1 :> "stdio" @@ c2 :> "ws")
TwoAndOne == (j1 :> 2 @@ j2 :> 1)
OneExit   == (j1 :> 1)
=============================================================================

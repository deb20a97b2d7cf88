----------------------------- MODULE MCProgram ------------------------------
(* Model checking of ProgramClaims: a WebSocket client and one that posts. *)
EXTENDS ProgramClaims, TLC

CONSTANTS h1, h2

OneOfEach == (h1 :> "ws" @@ h2 :> "post")
=============================================================================

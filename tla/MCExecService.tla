--------------------------- MODULE MCExecService ----------------------------
(* Model checking of ExecService: processes are interchangeable. *)
EXTENDS ExecClaims, TLC

Symmetry == Permutations(Procs) \cup Permutations(Handlers) \cup Permutations(Sessions)
=============================================================================

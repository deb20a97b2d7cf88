--------------------------- MODULE MCFileService ----------------------------
(* Model checking of FileClaims: contents, and who writes what. *)
EXTENDS FileClaims, TLC

CONSTANTS h1, h2, f1, f2

ShortAndLong == {<<1, 1>>, <<2>>}
Blocks == {<<1>>, <<2>>}
Pair == {<<2, 2>>}

OneWriter == (h1 :> {f1, f2})
AllMethods == (h1 :> {"replace", "append", "create", "edit", "patch"})
ReplaceOrPatch == (h1 :> {"replace"} @@ h2 :> {"patch"})
Replace == (h1 :> {"replace"} @@ h2 :> {"replace"})
Shared == (h1 :> {f1, f2} @@ h2 :> {f2})
Together == (h1 :> {f1} @@ h2 :> {f1})
=============================================================================

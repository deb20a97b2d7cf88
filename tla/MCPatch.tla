------------------------------ MODULE MCPatch -------------------------------
(* Model checking of PatchClaims: patches as a client writes them. *)
EXTENDS PatchClaims, TLC
LOCAL INSTANCE SequencesExt

TextsOfLines == {"", "a", "b", "*** Begin Patch", "*** End Patch", "*** End of File"}
OfText(text) == [text |-> text, lead |-> "", trail |-> ""]
A == OfText("a")
ATrail == [A EXCEPT !.trail = " "]
ALead == [A EXCEPT !.lead = " "]
B == OfText("b")

Names ==
  {".", "..", "srv", "tmp", "work", "etc", "sub", "f", "g", "h", "f.rexd.tmp", "g.rexd.tmp"}
TmpNames == [name \in Names |-> name \o ".rexd.tmp"]

Srv == <<"srv">>
Relative(parts) == [abs |-> FALSE, parts |-> parts]
Absolute(parts) == [abs |-> TRUE, parts |-> parts]
Roots == <<Srv, <<"tmp", "work">>>>

-----------------------------------------------------------------------------
(* How a client writes a patch. *)

Begin == Mark("***", OfText("*** Begin Patch"))
End == Mark("***", OfText("*** End Patch"))
Text(meant) == <<Begin>> \o Body(meant) \o <<End>>

Ask(before, meant) ==
  [before |-> before, roots |-> <<>>, cwd |-> NoPath, text |-> Text(meant), meant |-> meant]

Updates(path, move, chunkSeq) ==
  [NewHunk("update", path) EXCEPT !.move = move, !.chunks = chunkSeq]
Adds(path, contents) == [NewHunk("add", path) EXCEPT !.contents = contents]
Deletes(path) == NewHunk("delete", path)

-----------------------------------------------------------------------------
(* One file and up to two chunks. *)

F == Relative(<<"f">>)
G == Relative(<<"sub", "..", "g">>)
FPath == Srv \o <<"f">>
GPath == Srv \o <<"g">>

Files == SeqOf({A, ATrail, B, Empty}, 3) \ {<<>>}
SomeChunks ==
  [context : {Empty, A}, old : SeqOf({A, ALead, Empty}, 2), new : {<<>>, <<A, B>>}]

OneUpdate ==
  \E content \in Files, cs \in SeqOf(SomeChunks, 2) :
    Asked(Ask(FPath :> content, <<Updates(F, NoPath, cs)>>))

-----------------------------------------------------------------------------
(* Up to three hunks on two files and their temporary ones, and paths in and *)
(* out of the roots.                                                         *)

ToB == [context |-> Empty, old |-> <<A>>, new |-> <<B>>]

GTmp == Relative(<<"g.rexd.tmp">>)

Trees ==
  {<<>>, FPath :> <<A, Empty>>, (FPath :> <<A, Empty>>) @@ (GPath :> <<B, Empty>>),
   (FPath :> <<A, Empty>>) @@ (TmpOf(FPath) :> <<B>>) @@ (TmpOf(GPath) :> <<A, B>>)}
SomeHunks ==
  {Adds(F, <<>>), Adds(G, <<B, Empty>>), Deletes(F),
   Updates(F, NoPath, <<>>), Updates(F, NoPath, <<ToB>>), Updates(F, G, <<ToB>>),
   Updates(G, F, <<>>), Updates(F, Absolute(FPath), <<ToB>>),
   Updates(F, Relative(<<"..", "g">>), <<>>), Adds(Absolute(<<"tmp", "f">>), <<A>>),
   Updates(GTmp, G, <<ToB>>)}

SomeUpdates ==
  \E before \in Trees, meant \in SeqOf(SomeHunks, 3) \ {<<>>} : Asked(Ask(before, meant))

\* The directory a path is relative to, files next to the roots and one that is
\* a root itself.
Outside ==
  (<<"tmp", "f">> :> <<A, Empty>>) @@ (FPath :> <<A, Empty>>) @@ (Roots[2] :> <<A>>)
SomePlaces ==
  \E hunk \in {Deletes(F), Adds(G, <<A>>), Deletes(Relative(<<"..", "f">>)),
               Updates(F, Relative(<<"..", "..", "..", "g">>), <<ToB>>),
               Updates(Absolute(FPath), Relative(<<".", "h">>), <<ToB>>),
               Updates(Absolute(Roots[2]), NoPath, <<ToB>>)},
     roots \in {<<>>, <<Roots[2]>>, <<<<"etc">>, Roots[2], Srv>>},
     dir \in {NoPath, Relative(<<"sub">>), Relative(<<"..">>), Absolute(<<"tmp">>),
              Absolute(<<"tmp", "work", "..", "..", "srv">>)} :
       Asked([Ask(Outside, <<hunk>>) EXCEPT !.roots = roots, !.cwd = dir])

-----------------------------------------------------------------------------
(* Lines that are no part of the patch, put into it wherever they mean nothing. *)

Change1 == [context |-> A, old |-> <<A, B>>, new |-> <<A, A>>]
Change2 == [context |-> Empty, old |-> <<Empty>>, new |-> <<Empty, ATrail>>]
ChangeBegin == LET begin == OfText("*** Begin Patch") IN
  [context |-> Empty, old |-> <<begin>>, new |-> <<begin, A>>]

SomeMeant ==
  {<<Updates(F, G, <<Change1, Change2>>), Deletes(G), Adds(F, <<A, Empty>>)>>,
   <<Adds(G, <<ALead>>), Updates(F, NoPath, <<Change2>>), Updates(F, NoPath, <<>>)>>,
   <<Updates(F, NoPath, <<ChangeBegin>>), Deletes(F)>>}

Blank == Mark("other", Empty)
EndOfFile == Mark("***", OfText("*** End of File"))

\* Next to a header, a line hides the target of a move; and a header of no
\* file hides what follows it unless a hunk begins there.
MayComeAt(line, text, i) ==
  /\ i = Len(text) \/ text[i + 1].kind # "move"
  /\ line = EndOfFile /\ i \in 1..(Len(text) - 1) =>
       text[i + 1].kind \in Stars

Noisy ==
  \E meant \in SomeMeant, line \in {Blank, EndOfFile} :
    \E i \in {j \in 0..Len(Text(meant)) : MayComeAt(line, Text(meant), j)} :
      Asked([Ask(FPath :> <<A, B, Empty>>, meant)
               EXCEPT !.text = InsertAt(Text(meant), i + 1, line)])

NoPatches ==
  \E text \in {<<Begin, End>>, <<Begin, Blank>>, <<End>>, <<End, Begin>>,
               <<Begin, HeaderOf("add", NoPath), End>>,
               <<Begin, HeaderOf("update", F), HeaderOf("move", NoPath), End>>,
               <<Begin, HeaderOf("move", F), EndOfFile, End>>} :
    Asked([Ask(FPath :> <<A, Empty>>, <<>>) EXCEPT !.text = text])

MCInit == OneUpdate \/ SomeUpdates \/ SomePlaces \/ Noisy \/ NoPatches

MCSpec == MCInit /\ [][PatchNext]_patchVars
=============================================================================

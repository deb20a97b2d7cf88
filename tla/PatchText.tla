----------------------------- MODULE PatchText ------------------------------
(***************************************************************************)
(* The text of a patch and what ParsePatch reads in it                     *)
(* (internal/fs/patch.go).                                                 *)
(*                                                                         *)
(* A line of a file is a text and the blanks and tabs around it.  A line   *)
(* of a patch is its kind, the line that follows the mark of the kind and  *)
(* the path of a header:                                                   *)
(*   "add", "delete", "update", "move"    a header that names a file       *)
(*   "***"                                any other line of three stars    *)
(*   "@@", " ", "-", "+"                  the lines of a chunk             *)
(*   "other"                              a blank line, or any other       *)
(* Line endings are "\n" here: the code makes them so first.               *)
(***************************************************************************)
EXTENDS PathPolicy
LOCAL INSTANCE SequencesExt

CONSTANTS
  LineText,    \* the texts of lines, without the white space around them
  Spaces       \* the white space around them
NoSpace == ""
ASSUME LineTextAssumption == "" \in LineText /\ NoSpace \in Spaces

\* What is all white space has it at the end.
Line ==
  {l \in [text : LineText, lead : Spaces, trail : Spaces] : l.text = "" => l.lead = NoSpace}
Empty == [text |-> "", lead |-> NoSpace, trail |-> NoSpace]

\* A context is one line; Empty if a chunk has none.  No chunk is marked as the
\* end of the file: the line that would mark it begins with three stars, where
\* a chunk ends (122-124).
Chunk == [context : Line, old : Seq(Line), new : Seq(Line)]
Hunk == [type : {"add", "delete", "update"}, path : WrittenPath, move : WrittenPath,
         contents : Seq(Line), chunks : Seq(Chunk)]

Stars == {"add", "delete", "update", "move", "***"}
Changes == {" ", "-", "+"}
PatchLine == [kind : Stars \cup Changes \cup {"@@", "other"}, line : Line, path : WrittenPath]

\* The markers are recognised with white space around them, so that a line of
\* context can be one (43-48).
IsMarker(l, marker) == l.kind \in {"***", " ", "other"} /\ l.line.text = marker
IsBegin(l) == IsMarker(l, "*** Begin Patch")
IsEnd(l) == IsMarker(l, "*** End Patch")

-----------------------------------------------------------------------------
(* The parser, a line at a time: where it is and the hunks so far. *)

Start == [at |-> "before", hunks |-> <<>>]

OnLast(s, Change(_)) == [s EXCEPT ![Len(s)] = Change(@)]

NewHunk(type, path) ==
  [type |-> type, path |-> path, move |-> NoPath, contents |-> <<>>, chunks |-> <<>>]

\* A line of three stars ends a hunk.  What follows is read only under a header
\* that names a file; the target of a move comes next to its header or not at all.
Header(s, l) ==
  IF l.kind \in {"add", "delete", "update"} THEN
    [at |-> IF l.path = NoPath THEN "error"
            ELSE IF l.kind = "update" THEN "headed" ELSE l.kind,
     hunks |-> Append(s.hunks, NewHunk(l.kind, l.path))]
  ELSE IF l.kind = "move" /\ s.at = "headed" THEN
    [at |-> IF l.path = NoPath THEN "error" ELSE "update",
     hunks |-> OnLast(s.hunks, LAMBDA h : [h EXCEPT !.move = l.path])]
  ELSE [s EXCEPT !.at = "top"]

AddedLine(s, l) ==
  [s EXCEPT !.hunks = OnLast(@, LAMBDA h : [h EXCEPT !.contents = Append(@, l.line)])]

NewChunk(s, l) ==
  LET chunk == [context |-> [l.line EXCEPT !.lead = NoSpace, !.trail = NoSpace],
                old |-> <<>>, new |-> <<>>]
  IN [at |-> "chunk",
      hunks |-> OnLast(s.hunks, LAMBDA h : [h EXCEPT !.chunks = Append(@, chunk)])]

\* Mutant: a line of context is looked for, and then taken away.
ChangeOldOnly(chunk, l) ==
  [chunk EXCEPT !.old = IF l.kind \in {" ", "-"} THEN Append(@, l.line) ELSE @,
                !.new = IF l.kind = "+" THEN Append(@, l.line) ELSE @]

Change(chunk, l) ==
  [chunk EXCEPT !.old = IF l.kind \in {" ", "-"} THEN Append(@, l.line) ELSE @,
                !.new = IF l.kind \in {" ", "+"} THEN Append(@, l.line) ELSE @]

ChangedLine(s, l) ==
  [s EXCEPT !.hunks = OnLast(@, LAMBDA h :
     [h EXCEPT !.chunks = OnLast(@, LAMBDA chunk : Change(chunk, l))])]

ReadLine(s, l) ==
  CASE s.at \in {"ended", "error"} -> s
    [] s.at = "before" -> IF IsBegin(l) THEN [s EXCEPT !.at = "top"] ELSE s
    [] s.at \notin {"before", "ended", "error"} ->
       IF IsEnd(l) THEN [s EXCEPT !.at = "ended"]
       ELSE IF l.kind \in Stars THEN Header(s, l)
       ELSE IF l.kind = "+" /\ s.at = "add" THEN AddedLine(s, l)
       ELSE IF l.kind = "@@" /\ s.at \in {"headed", "update", "chunk"} THEN NewChunk(s, l)
       ELSE IF l.kind \in Changes /\ s.at = "chunk" THEN ChangedLine(s, l)
       ELSE IF s.at = "headed" THEN [s EXCEPT !.at = "update"]
       ELSE s

\* Where the parser is when it has read the text.
ReadText(text) ==
  LET read[i \in 0..Len(text)] == IF i = 0 THEN Start ELSE ReadLine(read[i - 1], text[i])
  IN read[Len(text)]

\* The hunks, in a set that is empty if the text is no patch.
ParsePatch(text) ==
  {s.hunks : s \in {t \in {ReadText(text)} : t.at = "ended" /\ t.hunks # <<>>}}
=============================================================================

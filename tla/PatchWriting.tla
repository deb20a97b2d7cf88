---------------------------- MODULE PatchWriting ----------------------------
(***************************************************************************)
(* How a client writes a patch (spec:368-374): the text that a sequence of *)
(* hunks has, and the lines that may stand in it and mean nothing.  The    *)
(* parser of PatchText is held to it.                                      *)
(***************************************************************************)
EXTENDS PatchText, Integers, FiniteSets
LOCAL INSTANCE SequencesExt

Headers == {"add", "delete", "update"}

HeaderOf(kind, path) == [kind |-> kind, line |-> Empty, path |-> path]
Mark(kind, line) == [kind |-> kind, line |-> line, path |-> NoPath]
Marked(kind, ls) == [i \in DOMAIN ls |-> Mark(kind, ls[i])]

\* How many lines two sequences have in common at the start.
Common(old, new) ==
  CHOOSE i \in 0..Len(old) :
    /\ IsPrefix(SubSeq(old, 1, i), new)
    /\ i = Len(old) \/ ~IsPrefix(SubSeq(old, 1, i + 1), new)

\* The common lines are context; then what is taken away, then what is added.
ChunkText(chunk) ==
  LET i == Common(chunk.old, chunk.new) IN
  <<Mark("@@", chunk.context)>> \o Marked(" ", SubSeq(chunk.old, 1, i))
  \o Marked("-", SubSeq(chunk.old, i + 1, Len(chunk.old)))
  \o Marked("+", SubSeq(chunk.new, i + 1, Len(chunk.new)))

MoveText(hunk) == IF hunk.move = NoPath THEN <<>> ELSE <<HeaderOf("move", hunk.move)>>

HunkText(hunk) ==
  <<HeaderOf(hunk.type, hunk.path)>> \o MoveText(hunk) \o Marked("+", hunk.contents)
  \o FlattenSeq([i \in DOMAIN hunk.chunks |-> ChunkText(hunk.chunks[i])])

\* What stands between the two markers.
Body(meant) == FlattenSeq([i \in DOMAIN meant |-> HunkText(meant[i])])

-----------------------------------------------------------------------------
Bare(line) == line.lead = NoSpace /\ line.trail = NoSpace

\* Hunks that can be written: a header has a path, the fields of the other
\* types are empty, and a context has no white space around it.
Proper(hunk) ==
  /\ hunk.path # NoPath
  /\ hunk.type # "update" => hunk.move = NoPath /\ hunk.chunks = <<>>
  /\ hunk.type # "add" => hunk.contents = <<>>
  /\ \A i \in DOMAIN hunk.chunks : Bare(hunk.chunks[i].context)

\* No line of the old text is the end marker: as context it would end the patch.
Plain(hunk) ==
  \A i \in DOMAIN hunk.chunks :
    LET old == hunk.chunks[i].old IN \A j \in DOMAIN old : ~IsEnd(Mark(" ", old[j]))

Writable(meant) == \A i \in DOMAIN meant : Proper(meant[i]) /\ Plain(meant[i])

-----------------------------------------------------------------------------
\* Blank lines, lines of no kind and lines of three stars that name no file.
Counts(l) == l.kind \notin {"***", "other"}

\* How many lines that count there are after the place b, up to i.
Counted(text, b, i) == Cardinality({m \in (b + 1)..i : Counts(text[m])})

\* Nothing may come between a header and the target of its move; three stars
\* end a hunk, so only a header or the end may be next.
MayPrecede(l, next) == next.kind # "move" /\ (l.kind = "***" => next.kind \in Headers)

\* The text has the lines of the body between its markers, in order, and others
\* where they mean nothing: anything before the first marker and after the last.
Writes(text, meant) ==
  LET body == Body(meant) IN
  \E b \in DOMAIN text :
    /\ IsBegin(text[b])
    /\ \A i \in 1..(b - 1) : ~IsBegin(text[i])
    /\ \E e \in (b + 1)..Len(text) :
         /\ text[e].kind = "***" /\ IsEnd(text[e])
         /\ Counted(text, b, e - 1) = Len(body)
         /\ \A i \in (b + 1)..(e - 1) :
              LET j == Counted(text, b, i) IN
              IF Counts(text[i]) THEN text[i] = body[j]
              ELSE ~IsEnd(text[i]) /\ (j < Len(body) => MayPrecede(text[i], body[j + 1]))

\* A text that is a patch at all: between its markers is a header, and every
\* header there has a path.
HasPatch(text) ==
  \E b, e \in DOMAIN text :
    /\ IsBegin(text[b]) /\ IsEnd(text[e])
    /\ \E i \in (b + 1)..(e - 1) : text[i].kind \in Headers
    /\ \A i \in (b + 1)..(e - 1) :
         \/ text[i].kind \in Headers
         \/ text[i].kind = "move" /\ i > b + 1 /\ text[i - 1].kind = "update"
         => text[i].path # NoPath
=============================================================================

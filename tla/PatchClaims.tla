---------------------------- MODULE PatchClaims -----------------------------
(***************************************************************************)
(* What must hold of PatchRequest: of the placing of chunks, of the file   *)
(* they make, of the parser and of the tree that a patch leaves.           *)
(***************************************************************************)
EXTENDS PatchRequest, PatchWriting
LOCAL INSTANCE SequencesExt

\* The chunks that take lines away take disjoint stretches, in the order of
\* the patch (patch.go:263).
ChunksInOrder ==
  \A i, j \in DOMAIN replacements :
    i < j /\ replacements[i].oldLen > 0 /\ replacements[j].oldLen > 0 =>
      replacements[i].start + replacements[i].oldLen <= replacements[j].start

-----------------------------------------------------------------------------
(* What chunks mean: walking down the file once, each finds its context and *)
(* its old lines somewhere below the chunk before it and puts its new lines *)
(* there, or at the end of the file if it has no old lines.                 *)

SameLines(a, b) == Len(a) = Len(b) /\ \A i \in DOMAIN a : a[i].text = b[i].text

\* A walk: the lines passed, what was written for them, and for the end.
Walk(from, copied, out, tail) == [from |-> from, copied |-> copied, out |-> out, tail |-> tail]

Places(pattern, from) ==
  {i \in from..(Len(lines) - Len(pattern)) :
     SameLines(pattern, SubSeq(lines, i + 1, i + Len(pattern)))}

\* A chunk may be read without the blank line at its end.
Shortened(s) == IF EndsEmpty(s) THEN Front(s) ELSE s
Readings(chunk) ==
  {<<chunk.old, chunk.new>>} \cup
  (IF EndsEmpty(chunk.old) THEN {<<Front(chunk.old), Shortened(chunk.new)>>} ELSE {})

WalksOn(w, chunk) ==
  LET froms == IF chunk.context = Empty THEN {w.from}
               ELSE {i + 1 : i \in Places(<<chunk.context>>, w.from)}
  IN IF chunk.old = <<>>
     THEN {Walk(from, w.copied, w.out, w.tail \o chunk.new) : from \in froms}
     ELSE UNION {UNION {
            {Walk(i + Len(reading[1]), i + Len(reading[1]),
                  w.out \o SubSeq(lines, w.copied + 1, i) \o reading[2], w.tail) :
               i \in Places(reading[1], from)} :
            from \in froms} : reading \in Readings(chunk)}

Walks ==
  LET walks[i \in 0..Len(chunks)] ==
        IF i = 0 THEN {Walk(0, 0, <<>>, <<>>)}
        ELSE UNION {WalksOn(w, chunks[i]) : w \in walks[i - 1]}
  IN walks[Len(chunks)]

Outcomes ==
  {w.out \o SubSeq(lines, w.copied + 1, Len(lines)) \o w.tail : w \in Walks}

AdditionsLast ==
  \A i, j \in DOMAIN chunks : i < j /\ chunks[i].old = <<>> => chunks[j].old = <<>>

\* Making the replacements one after another, where each shifts the lines
\* after it, gives what the chunks mean, ended by a newline, and never runs off
\* the file, provided additions come after the other chunks (patch.go:179-208).
UpdateMeansPatch ==
  AdditionsLast =>
    /\ pc # "out of range"
    /\ pc = "done" => \E out \in Outcomes : result \in {out, Append(out, Empty)}

-----------------------------------------------------------------------------
\* A patch is read as it was meant, whatever stands in the text that means
\* nothing where it stands (patch.go:35-177); and a text without the markers,
\* without a header between them or with a nameless one is no patch.
ParsesWhatWasMeant ==
  at = "parse" =>
    /\ Writable(request.meant) /\ Writes(request.text, request.meant) =>
         ParsePatch(request.text) = IF request.meant = <<>> THEN {} ELSE {request.meant}
    /\ ~HasPatch(request.text) => ParsePatch(request.text) = {}

-----------------------------------------------------------------------------
\* The hunks applied so far.
AppliedHunks == SubSeq(hunks, 1, n - 1)

Named(p) == Clean(Candidate(cwd, p))
Puts(hunk) ==
  CASE hunk.type = "add" -> {Named(hunk.path)}
    [] hunk.type = "delete" -> {}
    [] hunk.type = "update" -> {Named(IF hunk.move = NoPath THEN hunk.path ELSE hunk.move)}
Takes(hunk) ==
  CASE hunk.type = "add" -> {}
    [] hunk.type = "delete" -> {Named(hunk.path)}
    [] hunk.type = "update" ->
         ({Named(hunk.path)} \cup {TmpOf(path) : path \in Puts(hunk)}) \ Puts(hunk)

\* The hunks so far that put or take a file, and the last of them; 0 if none does.
HunksOn(path) == {i \in DOMAIN AppliedHunks : path \in Puts(hunks[i]) \cup Takes(hunks[i])}
LastOn(path) ==
  IF HunksOn(path) = {} THEN 0
  ELSE CHOOSE i \in HunksOn(path) : \A j \in HunksOn(path) : j <= i

\* Whenever a request is between two hunks or has answered, the tree is the one
\* before it changed by the hunks it got to and by nothing else, and a hunk that
\* is not done has begun with such a tree: a file is there if the last of them on
\* it put it there, gone if it took it away or had its temporary file there, and
\* added with its lines and ended by a newline (service.go:626-694).
PatchIsAPrefix ==
  /\ at \notin {"remove", "failed"} \/ n = 0 => tree = was
  /\ n > 0 =>
       \A path \in DOMAIN was \cup DOMAIN request.before \cup
                   UNION {Puts(h) \cup Takes(h) : h \in Range(hunks)} :
         LET i == LastOn(path) IN
         /\ i = 0 => (path \in DOMAIN was <=> path \in DOMAIN request.before)
         /\ i = 0 /\ path \in DOMAIN was => was[path] = request.before[path]
         /\ i # 0 => (path \in DOMAIN was <=> path \in Puts(hunks[i]))
         /\ i # 0 /\ hunks[i].type = "add" => Shortened(was[path]) = Shortened(hunks[i].contents)

\* What the hunk under way may leave of a file that it puts: of an added one a
\* part, of an updated one what was there or all that is to be there.
MayLeave(hunk, path) ==
  IF hunk.type = "add"
  THEN path \notin DOMAIN was /\ tree[path] \in PartsOf(Added(hunk.contents))
  ELSE tree[path] = nextContent

\* A hunk that fails, or is cut off between the two steps of a move, has lost no
\* file: its source is there, its target as it was or whole, and nothing else has
\* changed but what has the name of the temporary file of an update and the part
\* of a file that could not be added (service.go:633-689, fs/service.go:91-112).
FailedHunkKeepsFiles ==
  at \in {"remove", "failed"} /\ n > 0 =>
    LET hunk == hunks[n]
        tmps == IF hunk.type = "update" THEN {TmpOf(path) : path \in Puts(hunk)} ELSE {}
    IN \A path \in (DOMAIN tree \cup DOMAIN was) \ tmps :
         \/ path \in DOMAIN tree \cap DOMAIN was /\ tree[path] = was[path]
         \/ path \in DOMAIN tree /\ path \in Puts(hunk) /\ MayLeave(hunk, path)

\* However paths are written, a patch puts and takes files only below an
\* allowed root, or next to one that is itself a file its temporary file
\* (policy.go:38-68, fs/service.go:91).
OnlyInRoots ==
  \A path \in DOMAIN tree \cup DOMAIN request.before :
    \/ \E n1 \in DOMAIN AllowedRoots :
         IsPrefix(AllowedRoots[n1], path) \/ path = TmpOf(AllowedRoots[n1])
    \/ /\ path \in DOMAIN tree \cap DOMAIN request.before
       /\ tree[path] = request.before[path]
=============================================================================

---------------------------- MODULE PatchRequest ----------------------------
(***************************************************************************)
(* One fs.patch request (the handler in internal/server/service.go): the   *)
(* text is parsed, and its hunks are applied one after another to the      *)
(* tree of files.  Any call to the file system may fail, a write after a   *)
(* part of it, and the request may stop for good after any step.  What     *)
(* other requests do meanwhile is in FileService; here the files are those *)
(* of this request alone, and every path is that of a file: the            *)
(* directories above it exist or can be made.                              *)
(*                                                                         *)
(* A content is the lines of the file as strings.Split gives them: never   *)
(* none, and the last one Empty if the file ends in a newline.             *)
(***************************************************************************)
EXTENDS PatchApply
LOCAL INSTANCE SequencesExt

Content == Seq(Line) \ {<<>>}
Tree == UNION {[paths -> Content] : paths \in SUBSET Path}

\* The arguments, the tree before, and the hunks that the client meant.
Request ==
  [before : Tree, roots : Seq(Path), cwd : WrittenPath, text : Seq(PatchLine), meant : Seq(Hunk)]

VARIABLES
  request,
  at,          \* "parse", "hunk", "derive", "write", "remove", "answered" or "failed"
  cwd,
  hunks, n,    \* of the patch; the one to apply
  nextContent, \* of the file that is updated; none outside a hunk
  tree,        \* the content of every file there is
  was          \* the tree when the hunk to apply began

patchVars == <<derivation, request, at, cwd, hunks, n, nextContent, tree, was>>

\* The type invariant: the handler waits for a derivation exactly while one is
\* under way, it never writes a file of no lines at all, and a file is a sequence
\* of lines that is never empty.
PatchTypeOK ==
  /\ DerivationTypeOK
  /\ at \in {"parse", "hunk", "derive", "write", "remove", "answered", "failed"}
  /\ pc # "idle" <=> at = "derive"
  /\ cwd \in Seq(Name)
  /\ hunks \in Seq(Hunk)
  /\ n \in 0..(Len(hunks) + 1)
  /\ nextContent \in Seq(Line)
  /\ at \in {"write", "remove"} => nextContent # <<>>
  /\ \A path \in DOMAIN tree : path \in Path /\ tree[path] \in Content

Asked(r) ==
  /\ request = r
  /\ at = "parse"
  /\ cwd = <<>> /\ hunks = <<>> /\ n = 0
  /\ nextContent = <<>>
  /\ tree = r.before /\ was = r.before
  /\ DerivationInit

PatchInit == \E r \in Request : Asked(r)

-----------------------------------------------------------------------------
Resolved(p) == ResolvePath(cwd, p)

FailsWith(t) ==
  /\ at' = "failed" /\ tree' = t
  /\ UNCHANGED <<request, cwd, hunks, n, nextContent, was>>
FailPatch == FailsWith(tree)

Parse ==
  LET session == SessionCwd(request.roots)
      dir == IF request.cwd = NoPath THEN {session} ELSE ResolvePath(session, request.cwd)
      parsed == ParsePatch(request.text)
  IN /\ at = "parse"
     /\ UNCHANGED derivation
     /\ \/ (dir = {} \/ parsed = {}) /\ FailPatch
        \/ /\ cwd' \in dir /\ hunks' \in parsed
           /\ at' = "hunk" /\ n' = 1
           /\ UNCHANGED <<request, nextContent, tree, was>>

Answer ==
  /\ at = "hunk" /\ n > Len(hunks)
  /\ at' = "answered"
  /\ UNCHANGED <<derivation, request, cwd, hunks, n, nextContent, tree, was>>

Applies(type) == at = "hunk" /\ n <= Len(hunks) /\ hunks[n].type = type

Forbidden ==
  /\ at = "hunk" /\ n <= Len(hunks)
  /\ Resolved(hunks[n].path) = {}
  /\ FailPatch /\ UNCHANGED derivation

\* The hunk is done, and what its update read and derived is gone.
Applied(t) ==
  /\ tree' = t /\ was' = t
  /\ nextContent' = <<>>
  /\ n' = n + 1 /\ at' = "hunk"
  /\ UNCHANGED <<request, cwd, hunks>>

With(t, path, content) == [q \in DOMAIN t \cup {path} |-> IF q = path THEN content ELSE t[q]]
Without(t, path) == [q \in DOMAIN t \ {path} |-> t[q]]

\* What a write leaves in a new file when it fails: some of the lines.
PartsOf(content) ==
  {content} \cup {Append(SubSeq(content, 1, i), Empty) : i \in 0..(Len(content) - 1)}

\* strings.Join, and the newline at the end of what is not empty: an added file
\* whose last line is blank has that line as its newline.
Added(contents) ==
  IF EndsEmpty(contents) THEN contents ELSE Append(contents, Empty)

AddFile ==
  /\ Applies("add") /\ UNCHANGED derivation
  /\ \E path \in Resolved(hunks[n].path), content \in {Added(hunks[n].contents)} :
       \/ FailPatch
       \/ /\ path \notin DOMAIN tree
          /\ \/ Applied(With(tree, path, content))
             \/ \E part \in PartsOf(content) : FailsWith(With(tree, path, part))

DeleteFile ==
  /\ Applies("delete") /\ UNCHANGED derivation
  /\ \E path \in Resolved(hunks[n].path) :
       \/ FailPatch
       \/ path \in DOMAIN tree /\ Applied(Without(tree, path))

ReadUpdate ==
  /\ Applies("update")
  /\ \E path \in Resolved(hunks[n].path) :
       \/ FailPatch /\ UNCHANGED derivation
       \/ /\ path \in DOMAIN tree /\ hunks[n].chunks = <<>>
          /\ nextContent' = tree[path] /\ at' = "write"
          /\ UNCHANGED <<derivation, request, cwd, hunks, n, tree, was>>
       \/ /\ path \in DOMAIN tree /\ hunks[n].chunks # <<>>
          /\ DerivePatchedContent(tree[path], hunks[n].chunks)
          /\ at' = "derive"
          /\ UNCHANGED <<request, cwd, hunks, n, nextContent, tree, was>>

Derive == DerivationStep /\ UNCHANGED <<request, at, cwd, hunks, n, nextContent, tree, was>>

Derived ==
  /\ at = "derive" /\ pc = "done" /\ Returned
  /\ nextContent' = result /\ at' = "write"
  /\ UNCHANGED <<request, cwd, hunks, n, tree, was>>

DeriveFails ==
  /\ at = "derive" /\ pc \in {"not found", "out of range"} /\ Returned
  /\ FailPatch

-----------------------------------------------------------------------------
(* An update writes the temporary file, renames it and, if it is a move,    *)
(* removes the file it has read (fs.Write with atomic set).                 *)

Rewritten(t, path, content) == Without(With(t, path, content), TmpOf(path))

\* Mutant: the file is written in place.
HalfInPlace(t, path, content) == {t} \cup {With(t, path, part) : part \in PartsOf(content)}

\* The trees that a write may leave that fails: in its last call all is done.
HalfWritten(t, path, content) ==
  {t, Rewritten(t, path, content)}
  \cup {With(t, TmpOf(path), part) : part \in PartsOf(content)}

\* The target of a move is resolved only now, in a set that is empty if it is
\* forbidden; what it held is replaced.
Destination == Resolved(IF hunks[n].move = NoPath THEN hunks[n].path ELSE hunks[n].move)

\* Mutant: the file is removed also when it is moved to itself.
WriteAndRemove ==
  /\ at = "write" /\ UNCHANGED derivation
  /\ \/ Destination = {} /\ FailPatch
     \/ \E path \in Resolved(hunks[n].path), to \in Destination :
          \/ \E t \in HalfWritten(tree, to, nextContent) : FailsWith(t)
          \/ hunks[n].move = NoPath /\ Applied(Rewritten(tree, to, nextContent))
          \/ /\ hunks[n].move # NoPath
             /\ tree' = Rewritten(tree, to, nextContent) /\ at' = "remove"
             /\ UNCHANGED <<request, cwd, hunks, n, nextContent, was>>

WriteUpdate ==
  /\ at = "write" /\ UNCHANGED derivation
  /\ \/ Destination = {} /\ FailPatch
     \/ \E path \in Resolved(hunks[n].path), to \in Destination :
          \/ \E t \in HalfWritten(tree, to, nextContent) : FailsWith(t)
          \/ to = path /\ Applied(Rewritten(tree, to, nextContent))
          \/ /\ to # path
             /\ tree' = Rewritten(tree, to, nextContent) /\ at' = "remove"
             /\ UNCHANGED <<request, cwd, hunks, n, nextContent, was>>

\* The file may be gone: it was the temporary one of the target.
RemoveSource ==
  /\ at = "remove" /\ UNCHANGED derivation
  /\ \E path \in Resolved(hunks[n].path) :
       \/ FailPatch
       \/ path \in DOMAIN tree /\ Applied(Without(tree, path))

PatchNext ==
  \/ Parse \/ Forbidden \/ AddFile \/ DeleteFile \/ ReadUpdate \/ Derive
  \/ Derived \/ DeriveFails \/ WriteUpdate \/ RemoveSource \/ Answer

PatchSpec == PatchInit /\ [][PatchNext]_patchVars
=============================================================================

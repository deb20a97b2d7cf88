----------------------------- MODULE FileClaims -----------------------------
(***************************************************************************)
(* What must hold of FileService, and what the repository says of it that  *)
(* the code does not do.                                                   *)
(***************************************************************************)
EXTENDS FileService

\* The contents there are at the start or that a client sends.  The ones TLC
\* is given are such that no part or mixture of them is one of them.
Sent == Starts \cup Texts

\* A path that one client changes; the others only read it.
Sole(p) == \A g, h \in Handlers : p \in Writes[g] /\ p \in Writes[h] => g = h

\* A path that one client changes, by fs.write in mode replace or create.
Replaced(p) ==
  /\ Sole(p)
  /\ \A h \in Handlers : p \in Writes[h] => Methods[h] \cap {"append", "edit", "patch"} = {}

Exists(p) == file[p] # 0
Content(p) == data[file[p]]

-----------------------------------------------------------------------------
(* Safety. *)

\* spec:265, writes are atomic: a file that fs.write replaces is at all times
\* its old or its new content, also after a crash, and after the write that
\* follows it.  It holds for a path that only one client writes; two that do
\* share <path>.rexd.tmp (fs/service.go:90-97).
NoPartialFile == \A p \in Paths : Replaced(p) /\ Exists(p) => Content(p) \in Sent

\* Nor does fs.read, which opens the file and reads it later, see a part of
\* one (fs/service.go:25-51).
NoPartialRead ==
  \A h \in Handlers : seen[h] # NotSeen /\ Replaced(seen[h].path) => seen[h].data \in Sent

\* When the source of a move is removed, the destination has the content; a
\* move to the same path removes nothing (server/service.go:665-684).  It holds
\* for a destination that one client writes.
MoveKeepsContent ==
  [][\A h \in Handlers :
       Removes(h) /\ Exists(moving[h]) /\ Sole(call[h].path) =>
         file'[call[h].path] # 0 /\ data'[file'[call[h].path]] = call[h].data]_vars

\* A write with expected_mtime never replaces a file that has another mtime
\* than the client expects.  It holds for a path that one client writes, as
\* Stat and Rename are separate steps, and if Stat does not fail, which Write
\* takes for a file that is not there (fs/service.go:75-97).
GuardHolds ==
  [][\A h \in Handlers :
       LET c == call[h] IN
       /\ Renames(h) /\ ~RenameFails(h) /\ Sole(c.path)
       /\ c.expected > 0 /\ Exists(c.path)
       => mtime[file[c.path]] = c.expected]_vars

\* A temporary file outlives the writes that share it only if one of them died
\* or failed with it, since nothing removes it then (fs/service.go:91-97), and
\* the next write to the path that succeeds takes it away: writes that succeed,
\* and those that find it renamed by another, leave nothing behind.
NoTmpLeft ==
  \A p \in Paths : tmp[p] # 0 =>
    \/ p \in remains
    \/ \E h \in Handlers : pc[h] \in {"writeTmp", "rename"} /\ call[h].path = p

-----------------------------------------------------------------------------
(* The files that one client replaces, as AtomicFiles has them. *)

Registers == {p \in Paths : Replaced(p)}

\* The content a file has, in a set.
ContentOf(p) == IF Exists(p) THEN {Content(p)} ELSE {}

\* The request of a handler is about such a file.
Concerns(h) == pc[h] \notin {"idle", "hunk"} /\ call[h].path \in Registers

\* A read takes what it returns when it opens the file, a write takes effect
\* when the temporary file is renamed.
Phase(h) ==
  IF ~Concerns(h) THEN "idle"
  ELSE IF pc[h] = "read" THEN "reading"
  ELSE IF pc[h] = "restat" THEN "written" ELSE "writing"

\* The file of a request and what is read or written, or nothing.
About(p, d) == [file |-> p, data |-> d]
Nothing == About("none", <<>>)

Job(h) ==
  IF ~Concerns(h) THEN Nothing
  ELSE About(call[h].path, IF pc[h] = "read" THEN data[fd[h]] ELSE call[h].data)

\* What a client knows of a file is from the last answer it got.
LastAnswer(h) ==
  IF seen[h] # NotSeen /\ seen[h].path \in Registers
  THEN About(seen[h].path, seen[h].data) ELSE Nothing

Replacement == INSTANCE AtomicFiles WITH
  Clients <- Handlers,
  Files <- Registers,
  Contents <- Sent,
  Owned <- [h \in Handlers |-> Writes[h] \cap Registers],
  content <- [p \in Registers |-> ContentOf(p)],
  phase <- [h \in Handlers |-> Phase(h)],
  job <- [h \in Handlers |-> Job(h)],
  answer <- [h \in Handlers |-> LastAnswer(h)]

\* spec:265, spec:646: where one client replaces a file, its writes and all
\* reads are atomic, whatever system call fails.  A write that is answered with
\* success has taken effect, once and as a whole, and it stays, also when the
\* program dies; one that fails or is lost before its rename has no effect,
\* then or later; a read returns what the file contained when it was opened
\* (fs/service.go:25-51, 90-97).
WritesAreAtomic == Replacement!Spec

-----------------------------------------------------------------------------
(* Claims. *)

\* spec:265 and spec:646 again, "atomic replace", without a word about other
\* requests: no file is ever a part of what was written to it.
EveryFileIsWhole == \A p \in Paths : Exists(p) => Content(p) \in Sent
=============================================================================

---------------------------- MODULE FileService -----------------------------
(***************************************************************************)
(* The filesystem methods that change or read a file: fs.read, fs.write,   *)
(* fs.edit and fs.patch (internal/fs/service.go and the handlers of        *)
(* internal/server/service.go), step by step as system calls that other    *)
(* requests come between.                                                  *)
(*                                                                         *)
(* A file has a name, and under the name an inode; the temporary name      *)
(* <path>.rexd.tmp is tmp[path].  Contents are short sequences of blocks,  *)
(* modification times are milliseconds.  Over stdio there is one handler,  *)
(* over HTTP and WebSocket one per request or connection.                  *)
(***************************************************************************)
EXTENDS Splicing

CONSTANTS
  Handlers,
  Paths,
  Texts,        \* contents that clients write, never empty
  Starts,       \* contents a file may have at the start
  Writes,       \* the paths the client of a handler changes
  Methods,      \* how it does: "replace", "append", "create", "edit", "patch"
  MaxNow,       \* bound: milliseconds that pass
  MaxCalls,     \* bound: requests of a handler
  MaxHunks,     \* bound: hunks of a patch
  MaxCrashes,   \* bound: ends of the program
  MaxTroubles   \* bound: those and the system calls that fail, together

ASSUME FileAssumption ==
  /\ Texts \subseteq Seq(Nat) \ {<<>>} /\ Starts \subseteq Seq(Nat)
  /\ Writes \in [Handlers -> SUBSET Paths]
  /\ DOMAIN Methods = Handlers
  /\ IsFiniteSet(Handlers) /\ IsFiniteSet(Paths)
  /\ {MaxNow, MaxHunks} \subseteq Nat \ {0}
  /\ {MaxCalls, MaxCrashes, MaxTroubles} \subseteq Nat

Inodes == 1..(2 * Cardinality(Paths) + Cardinality(Handlers))
NotSeen == [path |-> "none"]
NoCall == [mode |-> "none"]
Times == 0..MaxNow           \* as expected_mtime, 0 is no expectation

VARIABLES
  file,    \* the inode of a path; 0: no such file
  tmp,     \* the inode of its temporary name
  data, mtime,   \* of an inode
  now,     \* the clock
  pc,      \* of a handler, named for the step to come
  call,    \* the arguments of Write or Edit
  fd,      \* the inode it has open
  left,    \* hunks of its patch to come
  moving,  \* the path of the update hunk it applies; "none" otherwise
  seen,    \* what its client knows of a file: content and mtime
  calls,   \* requests it has had
  crashes,
  faults,
  remains  \* history: the paths whose temporary file a crash or a fault has
           \* left behind, while it is there

disk == <<file, tmp, data, mtime>>
handlerVars == <<pc, call, fd, left, moving, seen, calls>>
vars == <<disk, now, handlerVars, crashes, faults, remains>>

Calls ==
  [path : Paths, data : Seq(Nat), mode : {"replace", "append", "create", "add"},
   expected : Times, old : Seq(Nat), all : BOOLEAN] \cup {NoCall}

\* "add" is the create of fs.patch, which alone is not atomic.
Args(p, d, mode, e) ==
  [path |-> p, data |-> d, mode |-> mode, expected |-> e, old |-> <<>>, all |-> FALSE]

\* The type invariant: in particular a file has one name, and is never both
\* the file of a path and somebody's temporary file (fs/service.go:91-97).
TypeOK ==
  /\ file \in [Paths -> Inodes \cup {0}]
  /\ tmp \in [Paths -> Inodes \cup {0}]
  /\ data \in [Inodes -> Seq(Nat)]
  /\ mtime \in [Inodes -> Times]
  /\ now \in 1..MaxNow
  /\ pc \in [Handlers -> {"idle", "read", "edit", "editRead", "stat", "openTmp", "writeTmp",
                          "rename", "open", "write", "restat", "hunk", "remove"}]
  /\ call \in [Handlers -> Calls]
  /\ fd \in [Handlers -> Inodes \cup {0}]
  /\ left \in [Handlers -> 0..MaxHunks]
  /\ moving \in [Handlers -> Paths \cup {"none"}]
  /\ seen \in [Handlers -> [path : Paths, data : Seq(Nat), mtime : Times] \cup {NotSeen}]
  /\ calls \in [Handlers -> 0..MaxCalls]
  /\ crashes \in 0..MaxCrashes
  /\ faults \in 0..MaxTroubles
  /\ remains \subseteq Paths
  /\ \A p, q \in Paths :
       /\ file[p] # 0 => file[p] # tmp[q]
       /\ p # q => (file[p] = file[q] => file[p] = 0) /\ (tmp[p] = tmp[q] => tmp[p] = 0)

Init ==
  /\ \E numbering \in {n \in [Paths -> 1..Cardinality(Paths)] :
                         \A p, q \in Paths : p # q => n[p] # n[q]},
        exists \in SUBSET Paths :
       file = [p \in Paths |-> IF p \in exists THEN numbering[p] ELSE 0]
  /\ \E content \in [Paths -> Starts] :
       data = [i \in Inodes |->
                IF \E p \in Paths : file[p] = i
                THEN content[CHOOSE p \in Paths : file[p] = i] ELSE <<>>]
  /\ tmp = [p \in Paths |-> 0]
  /\ mtime = [i \in Inodes |-> IF \E p \in Paths : file[p] = i THEN 1 ELSE 0]
  /\ now = 1
  /\ pc = [h \in Handlers |-> "idle"]
  /\ call = [h \in Handlers |-> NoCall]
  /\ fd = [h \in Handlers |-> 0]
  /\ left = [h \in Handlers |-> 0]
  /\ moving = [h \in Handlers |-> "none"]
  /\ seen = [h \in Handlers |-> NotSeen]
  /\ calls = [h \in Handlers |-> 0]
  /\ crashes = 0
  /\ faults = 0
  /\ remains = {}

-----------------------------------------------------------------------------
(* Steps of a handler. *)

Goto(h, to) == pc' = [pc EXCEPT ![h] = to]

\* A request comes; what it is about is in the arguments.
Request(h) ==
  /\ pc[h] = "idle"
  /\ calls[h] < MaxCalls
  /\ calls' = [calls EXCEPT ![h] = @ + 1]

\* The handler answers; a failed hunk fails the whole patch.
Answers(h) ==
  /\ Goto(h, "idle")
  /\ call' = [call EXCEPT ![h] = NoCall]
  /\ fd' = [fd EXCEPT ![h] = 0]
  /\ left' = [left EXCEPT ![h] = 0]
  /\ moving' = [moving EXCEPT ![h] = "none"]

Fails(h) == Answers(h) /\ UNCHANGED <<disk, seen, calls>>

\* One more hunk is done.
HunkEnds(h) ==
  IF left[h] = 0 THEN Answers(h)
  ELSE /\ Goto(h, "hunk")
       /\ call' = [call EXCEPT ![h] = NoCall]
       /\ moving' = [moving EXCEPT ![h] = "none"]
       /\ UNCHANGED <<fd, left>>

\* An inode that no name and no handler refers to.
NewInode ==
  CHOOSE i \in Inodes : \A p \in Paths, h \in Handlers : i \notin {file[p], tmp[p], fd[h]}

\* The values of expected_mtime a client may send: none, or what it has seen.
Expectations(h, p) ==
  {0} \cup (IF seen[h] # NotSeen /\ seen[h].path = p THEN {seen[h].mtime} ELSE {})

\* Mutant: expected_mtime is not looked at.
NoConflict(h) == FALSE

\* Does expected_mtime differ from that of the file?
Conflict(h) ==
  LET c == call[h] IN
  file[c.path] # 0 /\ c.expected > 0 /\ mtime[file[c.path]] # c.expected

-----------------------------------------------------------------------------
(* fs.read: open and stat, then read. *)

FsRead(h) ==
  /\ Request(h)
  /\ \E p \in Paths :
       /\ file[p] # 0
       /\ fd' = [fd EXCEPT ![h] = file[p]]
       /\ call' = [call EXCEPT ![h] = Args(p, <<>>, "replace", mtime[file[p]])]
  /\ Goto(h, "read")
  /\ UNCHANGED <<disk, left, moving, seen>>

ReadEnds(h) ==
  /\ pc[h] = "read"
  /\ seen' = [seen EXCEPT ![h] =
       [path |-> call[h].path, data |-> data[fd[h]], mtime |-> call[h].expected]]
  /\ Answers(h)
  /\ UNCHANGED <<disk, calls>>

-----------------------------------------------------------------------------
(* fs.write. *)

FsWrite(h) ==
  /\ Request(h)
  /\ \E p \in Writes[h], d \in Texts, m \in {"replace", "append", "create"} \cap Methods[h] :
       \E e \in Expectations(h, p) : call' = [call EXCEPT ![h] = Args(p, d, m, e)]
  /\ Goto(h, "stat")
  /\ UNCHANGED <<disk, fd, left, moving, seen>>

\* Mutant: every write opens the file itself.
NeverAtomic(c) == FALSE

Atomic(c) == c.mode \notin {"append", "add"}

WriteStats(h) ==
  /\ pc[h] = "stat"
  /\ \/ Conflict(h) /\ Fails(h)
     \/ /\ ~Conflict(h)
        /\ Goto(h, IF Atomic(call[h]) THEN "openTmp" ELSE "open")
        /\ UNCHANGED <<disk, call, fd, left, moving, seen, calls>>

\* d written from the beginning of what a file has.
Over(d, old) == d \o SubSeq(old, Len(d) + 1, Len(old))

\* Mutant: a temporary file that is already there is not truncated.
TmpAsItIs(p) == IF tmp[p] # 0 THEN data[tmp[p]] ELSE <<>>

\* os.WriteFile opens the temporary file, and truncates it if it is there.
TmpOpened(p) == <<>>

OpensTmp(h) ==
  /\ pc[h] = "openTmp"
  /\ LET p == call[h].path
         i == IF tmp[p] # 0 THEN tmp[p] ELSE NewInode
     IN /\ tmp' = [tmp EXCEPT ![p] = i]
        /\ data' = [data EXCEPT ![i] = TmpOpened(p)]
        /\ mtime' = [mtime EXCEPT ![i] = now]
        /\ fd' = [fd EXCEPT ![h] = i]
  /\ Goto(h, "writeTmp")
  /\ UNCHANGED <<file, call, left, moving, seen, calls>>

WritesTmp(h) ==
  /\ pc[h] = "writeTmp"
  /\ data' = [data EXCEPT ![fd[h]] = Over(call[h].data, @)]
  /\ mtime' = [mtime EXCEPT ![fd[h]] = now]
  /\ fd' = [fd EXCEPT ![h] = 0]
  /\ Goto(h, "rename")
  /\ UNCHANGED <<file, tmp, call, left, moving, seen, calls>>

\* Another handler has renamed the temporary file.
RenameFails(h) == tmp[call[h].path] = 0

\* Mutant: the temporary file gets a second name and keeps its own.
RenamesAsLink(h) ==
  /\ pc[h] = "rename"
  /\ \/ RenameFails(h) /\ Fails(h)
     \/ /\ ~RenameFails(h)
        /\ file' = [file EXCEPT ![call[h].path] = tmp[call[h].path]]
        /\ Goto(h, "restat")
        /\ UNCHANGED <<tmp, data, mtime, call, fd, left, moving, seen, calls>>

Renames(h) ==
  /\ pc[h] = "rename"
  /\ \/ RenameFails(h) /\ Fails(h)
     \/ /\ ~RenameFails(h)
        /\ file' = [file EXCEPT ![call[h].path] = tmp[call[h].path]]
        /\ tmp' = [tmp EXCEPT ![call[h].path] = 0]
        /\ Goto(h, "restat")
        /\ UNCHANGED <<data, mtime, call, fd, left, moving, seen, calls>>

\* The other way: an append, or the file that a patch adds.
OpensFile(h) ==
  /\ pc[h] = "open"
  /\ LET p == call[h].path IN
     \/ file[p] # 0 /\ call[h].mode = "add" /\ Fails(h)
     \/ /\ file[p] # 0 /\ call[h].mode # "add"
        /\ fd' = [fd EXCEPT ![h] = file[p]]
        /\ Goto(h, "write")
        /\ UNCHANGED <<disk, call, left, moving, seen, calls>>
     \/ /\ file[p] = 0
        /\ file' = [file EXCEPT ![p] = NewInode]
        /\ data' = [data EXCEPT ![NewInode] = <<>>]
        /\ mtime' = [mtime EXCEPT ![NewInode] = now]
        /\ fd' = [fd EXCEPT ![h] = NewInode]
        /\ Goto(h, "write")
        /\ UNCHANGED <<tmp, call, left, moving, seen, calls>>

WritesFile(h) ==
  /\ pc[h] = "write"
  /\ data' = [data EXCEPT ![fd[h]] =
       IF call[h].mode = "append" THEN @ \o call[h].data ELSE Over(call[h].data, @)]
  /\ mtime' = [mtime EXCEPT ![fd[h]] = now]
  /\ fd' = [fd EXCEPT ![h] = 0]
  /\ Goto(h, "restat")
  /\ UNCHANGED <<file, tmp, call, left, moving, seen, calls>>

\* Mutant: the source is removed even if it is the target.
MovesAnything(h) == moving[h] # "none"

\* A file that has been moved is to be removed from where it was.
Moves(h) == moving[h] \notin {"none", call[h].path}

\* The second Stat; its mtime is in the answer, and a client that has not
\* appended takes it for that of the content it has written.
WriteEnds(h) ==
  /\ pc[h] = "restat"
  /\ LET p == call[h].path IN
     \/ file[p] = 0 /\ Fails(h)
     \/ /\ file[p] # 0
        /\ seen' = [seen EXCEPT ![h] =
             IF call[h].mode = "append" THEN NotSeen
             ELSE [path |-> p, data |-> call[h].data, mtime |-> mtime[file[p]]]]
        /\ IF Moves(h) THEN Goto(h, "remove") /\ UNCHANGED <<call, fd, left, moving>>
           ELSE HunkEnds(h)
        /\ UNCHANGED <<disk, calls>>

Write(h) ==
  \/ WriteStats(h) \/ OpensTmp(h) \/ WritesTmp(h) \/ Renames(h)
  \/ OpensFile(h) \/ WritesFile(h) \/ WriteEnds(h)

-----------------------------------------------------------------------------
(* fs.edit. *)

FsEdit(h) ==
  /\ "edit" \in Methods[h]
  /\ Request(h)
  /\ \E p \in Writes[h], old \in Texts \cup {<<>>}, new \in Texts, all \in BOOLEAN :
       \E e \in Expectations(h, p) :
         /\ old # new
         /\ call' = [call EXCEPT ![h] =
              [Args(p, new, "replace", e) EXCEPT !.old = old, !.all = all]]
  /\ Goto(h, "edit")
  /\ UNCHANGED <<disk, fd, left, moving, seen>>

EditStats(h) ==
  /\ pc[h] = "edit"
  /\ LET c == call[h]
         exists == file[c.path] # 0
         refused == IF exists THEN Conflict(h) ELSE c.expected > 0 \/ c.old # <<>>
     IN \/ refused /\ Fails(h)
        \/ /\ ~refused
           /\ Goto(h, IF exists THEN "editRead" ELSE "stat")
           /\ UNCHANGED <<disk, call, fd, left, moving, seen, calls>>

\* The content after the edit, in a set; empty if old_string is not found or
\* found again after its first occurrence.
Edited(current, c) ==
  IF c.old = <<>> THEN {c.data}
  ELSE IF Occurrences(c.old, current) = {} THEN {}
  ELSE IF c.all THEN {Substitute(current, c.old, c.data, Disjoint(c.old, current))}
  ELSE LET first == FirstIndex(c.old, current) IN
       IF \E i \in Occurrences(c.old, current) : i >= first + Len(c.old) THEN {}
       ELSE {Substitute(current, c.old, c.data, {first})}

EditReads(h) ==
  /\ pc[h] = "editRead"
  /\ LET c == call[h]
         next == IF file[c.path] = 0 THEN {} ELSE Edited(data[file[c.path]], c)
     IN \/ next = {} /\ Fails(h)
        \/ \E text \in next :
             /\ call' = [call EXCEPT ![h].data = text]
             /\ Goto(h, "stat")
             /\ UNCHANGED <<disk, fd, left, moving, seen, calls>>

-----------------------------------------------------------------------------
(* fs.patch, hunk by hunk; the hunks are chosen as they are reached. *)

FsPatch(h) ==
  /\ "patch" \in Methods[h]
  /\ Request(h)
  /\ \E n \in 1..MaxHunks : left' = [left EXCEPT ![h] = n]
  /\ Goto(h, "hunk")
  /\ UNCHANGED <<disk, call, fd, moving, seen>>

HunkWrites(h, p, d, mode) ==
  /\ call' = [call EXCEPT ![h] = Args(p, d, mode, 0)]
  /\ left' = [left EXCEPT ![h] = @ - 1]
  /\ Goto(h, "stat")
  /\ UNCHANGED <<disk, fd, seen, calls>>

AddHunk(h) ==
  /\ pc[h] = "hunk"
  /\ \E p \in Writes[h], d \in Texts : HunkWrites(h, p, d, "add")
  /\ UNCHANGED moving

DeleteHunk(h) ==
  /\ pc[h] = "hunk"
  /\ \E p \in Writes[h] :
     \/ file[p] = 0 /\ Fails(h)
     \/ /\ file[p] # 0
        /\ file' = [file EXCEPT ![p] = 0]
        /\ left' = [left EXCEPT ![h] = @ - 1]
        /\ Goto(h, IF left[h] = 1 THEN "idle" ELSE "hunk")
        /\ UNCHANGED <<tmp, data, mtime, call, fd, moving, seen, calls>>

\* The chunks give a new content (module PatchApply), or do not match.
UpdateHunk(h) ==
  /\ pc[h] = "hunk"
  /\ \E from, to \in Writes[h], d \in Texts :
     \/ Fails(h)
     \/ /\ file[from] # 0
        /\ HunkWrites(h, to, d, "replace")
        /\ moving' = [moving EXCEPT ![h] = from]

Removes(h) ==
  /\ pc[h] = "remove"
  /\ \/ file[moving[h]] = 0 /\ Fails(h)
     \/ /\ file[moving[h]] # 0
        /\ file' = [file EXCEPT ![moving[h]] = 0]
        /\ HunkEnds(h)
        /\ UNCHANGED <<tmp, data, mtime, seen, calls>>

-----------------------------------------------------------------------------
(* Faults: the disk is full, a permission is missing, a directory is in    *)
(* the way.  Nothing that a failed request has written is taken back.      *)

\* A handler that ends here leaves its temporary file, if it has one.
Abandoned(hs) ==
  {p \in Paths : tmp[p] # 0 /\ \E h \in hs : pc[h] \in {"writeTmp", "rename"} /\ call[h].path = p}

\* A system call fails and has no effect.
CallFails(h) ==
  /\ pc[h] \notin {"idle", "writeTmp", "write"}
  /\ Fails(h)

\* What is there of a text when the write of it fails: less than the whole,
\* or all of it when it is the closing of the temporary file that fails.
Parts(h) ==
  {SubSeq(call[h].data, 1, n) : n \in 0..(Len(call[h].data) - IF pc[h] = "writeTmp" THEN 0 ELSE 1)}

WriteFails(h) ==
  /\ pc[h] \in {"writeTmp", "write"}
  /\ \E part \in Parts(h) :
       /\ data' = [data EXCEPT ![fd[h]] =
            IF call[h].mode = "append" THEN @ \o part ELSE Over(part, @)]
       /\ mtime' = [mtime EXCEPT ![fd[h]] = IF part = <<>> THEN @ ELSE now]
  /\ Answers(h)
  /\ UNCHANGED <<file, tmp, seen, calls>>

\* Write takes any error of its first Stat for "no such file", and the mtime
\* that is expected plays no part from there on.
StatFails(h) ==
  /\ pc[h] = "stat"
  /\ call' = [call EXCEPT ![h].expected = 0]
  /\ Goto(h, IF Atomic(call[h]) THEN "openTmp" ELSE "open")
  /\ UNCHANGED <<disk, fd, left, moving, seen, calls>>

Fault(h) ==
  /\ crashes + faults < MaxTroubles
  /\ faults' = faults + 1
  /\ CallFails(h) \/ WriteFails(h) \/ StatFails(h)
  /\ remains' = IF pc'[h] = "idle" THEN remains \cup Abandoned({h}) ELSE remains

-----------------------------------------------------------------------------
Works(h) ==
  /\ \/ FsRead(h) \/ ReadEnds(h)
     \/ FsWrite(h) \/ Write(h)
     \/ FsEdit(h) \/ EditStats(h) \/ EditReads(h)
     \/ FsPatch(h) \/ AddHunk(h) \/ DeleteHunk(h) \/ UpdateHunk(h) \/ Removes(h)
  /\ remains' = {p \in remains : tmp'[p] # 0}
  /\ UNCHANGED faults

Handler(h) == (Works(h) \/ Fault(h)) /\ UNCHANGED <<now, crashes>>

Tick ==
  /\ now < MaxNow
  /\ now' = now + 1
  /\ UNCHANGED <<disk, handlerVars, crashes, faults, remains>>

\* The program ends with requests under way, as HTTP's does when it is told
\* to stop, and is started again; the disk and the clients remain.
Crash ==
  /\ crashes < MaxCrashes
  /\ crashes + faults < MaxTroubles
  /\ crashes' = crashes + 1
  /\ pc' = [h \in Handlers |-> "idle"]
  /\ call' = [h \in Handlers |-> NoCall]
  /\ fd' = [h \in Handlers |-> 0]
  /\ left' = [h \in Handlers |-> 0]
  /\ moving' = [h \in Handlers |-> "none"]
  /\ remains' = remains \cup Abandoned(Handlers)
  /\ UNCHANGED <<disk, now, seen, calls, faults>>

Next == (\E h \in Handlers : Handler(h)) \/ Tick \/ Crash

Spec == Init /\ [][Next]_vars
=============================================================================

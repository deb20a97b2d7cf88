----------------------------- MODULE FileProofs -----------------------------
(***************************************************************************)
(* Theorems about FileService, for every number of handlers, paths and     *)
(* contents.                                                               *)
(***************************************************************************)
EXTENDS FileClaims, SplicingProofs

-----------------------------------------------------------------------------
(* What a handler knows at each step of a request.                         *)

Between == {"idle", "hunk"}
Holding == {"read", "writeTmp", "write"}

Arguments ==
  [path : Paths, data : Seq(Nat), mode : {"replace", "append", "create", "add"},
   expected : Times, old : Seq(Nat), all : BOOLEAN]

HandlerOK(h) ==
  /\ pc[h] \notin Between => call[h] \in Arguments
  /\ pc[h] \notin Between \cup {"read"} => call[h].path \in Writes[h]
  /\ pc[h] \in Holding <=> fd[h] # 0
  /\ pc[h] = "hunk" => left[h] > 0
  /\ moving[h] \in Writes[h] \cup {"none"}
  /\ moving[h] # "none" => pc[h] \notin Between /\ call[h].mode = "replace"
  /\ pc[h] = "remove" => moving[h] \notin {"none", call[h].path}
  /\ pc[h] \in {"openTmp", "writeTmp", "rename"} => Atomic(call[h])
  /\ pc[h] \in {"open", "write"} => ~Atomic(call[h])
  /\ pc[h] \in {"edit", "editRead"} => call[h].mode = "replace"

CallOK == \A h \in Handlers : HandlerOK(h)

\* The two halves of TypeOK.
Steps ==
  {"idle", "read", "edit", "editRead", "stat", "openTmp", "writeTmp", "rename", "open",
   "write", "restat", "hunk", "remove"}

Known == [path : Paths, data : Seq(Nat), mtime : Times]

HandlerTypes ==
  /\ pc \in [Handlers -> Steps]
  /\ call \in [Handlers -> Calls]
  /\ fd \in [Handlers -> Inodes \cup {0}]
  /\ left \in [Handlers -> 0..MaxHunks]
  /\ moving \in [Handlers -> Paths \cup {"none"}]
  /\ seen \in [Handlers -> Known \cup {NotSeen}]
  /\ calls \in [Handlers -> 0..MaxCalls]

DiskTypes ==
  /\ file \in [Paths -> Inodes \cup {0}]
  /\ tmp \in [Paths -> Inodes \cup {0}]
  /\ data \in [Inodes -> Seq(Nat)]
  /\ mtime \in [Inodes -> Times]
  /\ \A p, q \in Paths :
       /\ file[p] # 0 => file[p] # tmp[q]
       /\ p # q => (file[p] = file[q] => file[p] = 0) /\ (tmp[p] = tmp[q] => tmp[p] = 0)

-----------------------------------------------------------------------------
(* An inode that a handler has open belongs to the path of its request: it  *)
(* is the file or the temporary file of no other path.                     *)

InodesApart ==
  /\ \A h \in Handlers : fd[h] # 0 =>
       \A p \in Paths : p # call[h].path => fd[h] \notin {file[p], tmp[p]}
  /\ \A g, h \in Handlers : fd[g] # 0 /\ fd[g] = fd[h] => call[g].path = call[h].path
  /\ \A h \in Handlers : pc[h] = "read" => fd[h] # tmp[call[h].path]

\* What the client that alone writes a path may rely on, step by step.
SoleStep(h) ==
  LET c == call[h]
      p == c.path
  IN /\ pc[h] = "writeTmp" => fd[h] = tmp[p] /\ data[fd[h]] = <<>>
     /\ pc[h] = "rename" => tmp[p] # 0 /\ data[tmp[p]] = c.data
     /\ pc[h] \in {"restat", "remove"} /\ Atomic(c) => file[p] # 0 /\ data[file[p]] = c.data
     /\ pc[h] \in {"openTmp", "writeTmp", "rename"} /\ c.expected > 0 /\ file[p] # 0 =>
          mtime[file[p]] = c.expected

SoleInv ==
  \A h \in Handlers :
    pc[h] \notin Between \cup {"read"} /\ Sole(call[h].path) => SoleStep(h)

\* What was sent for a path that is only replaced.
MethodKept(h) ==
  /\ pc[h] \in {"edit", "editRead"} => "edit" \in Methods[h]
  /\ left[h] > 0 \/ moving[h] # "none" => "patch" \in Methods[h]
  /\ pc[h] \notin Between \cup {"read", "edit", "editRead"} /\ Replaced(call[h].path) =>
       call[h].data \in Texts /\ Atomic(call[h])

MethodsKept == \A h \in Handlers : MethodKept(h)

ReadIsSent ==
  \A h \in Handlers : pc[h] = "read" /\ Replaced(call[h].path) => data[fd[h]] \in Sent

\* The inductive invariants, each with the one it rests on.
TypesInv == TypeOK /\ CallOK
ApartInv == TypesInv /\ InodesApart
WriterInv == ApartInv /\ SoleInv
SentInv == WriterInv /\ MethodsKept /\ ReadIsSent /\ NoPartialFile /\ NoPartialRead

-----------------------------------------------------------------------------
(* There is always an inode for a file to come.                            *)

\* What a function takes is no more than what it is taken at.
LEMMA ImageIsFinite ==
  ASSUME NEW S, IsFiniteSet(S), NEW f
  PROVE  /\ IsFiniteSet({f[x] : x \in S})
         /\ Cardinality({f[x] : x \in S}) <= Cardinality(S)
<1> DEFINE Image(X) == {f[x] : x \in X}
           Small(X) == IsFiniteSet(Image(X)) /\ Cardinality(Image(X)) <= Cardinality(X)
           N == {n \in Nat : \A X : IsFiniteSet(X) /\ Cardinality(X) = n => Small(X)}
<1>1. 0 \in N
  <2>1. \A X : IsFiniteSet(X) /\ Cardinality(X) = 0 => Image(X) = {}
    BY FS_EmptySet
  <2> QED BY <2>1, FS_EmptySet
<1>2. ASSUME NEW n \in Nat, n \in N PROVE n + 1 \in N
  <2> SUFFICES ASSUME NEW X, IsFiniteSet(X), Cardinality(X) = n + 1 PROVE Small(X)
    OBVIOUS
  <2>1. PICK y \in X : TRUE
    <3>1. X # {} BY FS_EmptySet
    <3> QED BY <3>1
  <2> DEFINE Y == X \ {y}
  <2>2. IsFiniteSet(Y) /\ Cardinality(Y) = n
    <3> HIDE DEF Small
    <3>1. IsFiniteSet(X \ {y}) /\ Cardinality(X \ {y}) = Cardinality(X) - 1
      BY <2>1, FS_RemoveElement
    <3> QED BY <3>1
  <2>3. Small(Y) BY <1>2, <2>2
  <2>4. Image(X) = Image(Y) \cup {f[y]} BY <2>1
  <2> HIDE DEF Y, Image
  <2>5. IsFiniteSet(Image(X)) /\ Cardinality(Image(X)) <= Cardinality(Image(Y)) + 1
    <3>1. IsFiniteSet(Image(Y)) BY <2>3
    <3>2. /\ IsFiniteSet(Image(Y) \cup {f[y]})
          /\ Cardinality(Image(Y) \cup {f[y]}) \in
               {Cardinality(Image(Y)), Cardinality(Image(Y)) + 1}
      BY <3>1, FS_AddElement
    <3>3. Cardinality(Image(Y)) \in Nat BY <3>1, FS_CardinalityType
    <3> QED BY <2>4, <3>2, <3>3
  <2>6. Cardinality(Image(Y)) \in Nat BY <2>3, FS_CardinalityType
  <2>7. Cardinality(Image(X)) \in Nat BY <2>5, FS_CardinalityType
  <2> QED BY <2>2, <2>3, <2>5, <2>6, <2>7
<1>3. Nat \subseteq N
  <2> HIDE DEF N
  <2> QED BY <1>1, <1>2, NatInductionOnSets
<1>4. Cardinality(S) \in Nat BY FS_CardinalityType
<1> QED BY <1>3, <1>4

\* A union has no more members than its parts together.
LEMMA UnionIsFinite ==
  ASSUME NEW S, NEW T, IsFiniteSet(S), IsFiniteSet(T)
  PROVE  /\ IsFiniteSet(S \cup T)
         /\ Cardinality(S \cup T) <= Cardinality(S) + Cardinality(T)
<1>1. IsFiniteSet(S \cap T) BY FS_Intersection
<1>2. /\ Cardinality(S) \in Nat /\ Cardinality(T) \in Nat
      /\ Cardinality(S \cap T) \in Nat
  BY <1>1, FS_CardinalityType
<1>3. /\ IsFiniteSet(S \cup T)
      /\ Cardinality(S \cup T) = Cardinality(S) + Cardinality(T) - Cardinality(S \cap T)
  BY FS_Union
<1> QED BY <1>2, <1>3

\* Where a new inode is asked for one of the names has none, so that fewer
\* inodes are in use than there are.
LEMMA NewInodeIsFree ==
  ASSUME TypeOK, 0 \in {file[p] : p \in Paths} \cup {tmp[p] : p \in Paths}
  PROVE  /\ NewInode \in Inodes
         /\ \A p \in Paths, h \in Handlers : NewInode \notin {file[p], tmp[p], fd[h]}
<1> DEFINE A == {file[p] : p \in Paths}
           B == {tmp[p] : p \in Paths}
           C == {fd[h] : h \in Handlers}
           P == Cardinality(Paths)
           H == Cardinality(Handlers)
<1>1. IsFiniteSet(Paths) /\ IsFiniteSet(Handlers) BY FileAssumption
<1>2. P \in Nat /\ H \in Nat BY <1>1, FS_CardinalityType
<1>3. /\ IsFiniteSet(A) /\ Cardinality(A) <= P
      /\ IsFiniteSet(B) /\ Cardinality(B) <= P
      /\ IsFiniteSet(C) /\ Cardinality(C) <= H
  BY <1>1, ImageIsFinite
<1> HIDE DEF A, B, C, P, H
<1>4. IsFiniteSet(A \cup B) /\ Cardinality(A \cup B) <= 2 * P
  <2>1. IsFiniteSet(A \cup B) /\ Cardinality(A \cup B) <= Cardinality(A) + Cardinality(B)
    BY <1>3, UnionIsFinite
  <2>2. /\ Cardinality(A) \in Nat /\ Cardinality(B) \in Nat
        /\ Cardinality(A \cup B) \in Nat
    BY <1>3, <2>1, FS_CardinalityType
  <2> QED BY <1>2, <1>3, <2>1, <2>2
<1>5. IsFiniteSet(A \cup B \cup C) /\ Cardinality(A \cup B \cup C) <= 2 * P + H
  <2>1. /\ IsFiniteSet(A \cup B \cup C)
        /\ Cardinality(A \cup B \cup C) <= Cardinality(A \cup B) + Cardinality(C)
    BY <1>3, <1>4, UnionIsFinite
  <2>2. /\ Cardinality(A \cup B) \in Nat /\ Cardinality(C) \in Nat
        /\ Cardinality(A \cup B \cup C) \in Nat
    BY <1>3, <1>4, <2>1, FS_CardinalityType
  <2> QED BY <1>2, <1>3, <1>4, <2>1, <2>2
<1>6. ~ Inodes \subseteq A \cup B \cup C
  <2> SUFFICES ASSUME Inodes \subseteq A \cup B \cup C PROVE FALSE
    OBVIOUS
  <2>1. 0..(2 * P + H) \subseteq A \cup B \cup C
    <3>1. 0 \in A \cup B \cup C BY DEF A, B
    <3>2. \A i \in 0..(2 * P + H) : i = 0 \/ i \in Inodes BY <1>2 DEF Inodes, P, H
    <3> QED BY <3>1, <3>2
  <2>2. Cardinality(0..(2 * P + H)) = 2 * P + H + 1 BY <1>2, FS_Interval
  <2>3. Cardinality(0..(2 * P + H)) <= Cardinality(A \cup B \cup C)
    BY <1>5, <2>1, FS_Subset
  <2>4. Cardinality(A \cup B \cup C) \in Nat BY <1>5, FS_CardinalityType
  <2> QED BY <1>2, <1>5, <2>2, <2>3, <2>4
<1>7. PICK i \in Inodes : i \notin A \cup B \cup C BY <1>6
<1>8. \A p \in Paths, h \in Handlers : i \notin {file[p], tmp[p], fd[h]}
  BY <1>7 DEF A, B, C
<1> QED BY <1>8 DEF NewInode

-----------------------------------------------------------------------------
(* The steps of a handler, seen from the handlers.                         *)

\* TypeOK and its halves.
LEMMA TypeHalves ==
  TypeOK <=>
    /\ HandlerTypes /\ DiskTypes
    /\ now \in 1..MaxNow /\ crashes \in 0..MaxCrashes
    /\ faults \in 0..MaxTroubles /\ remains \subseteq Paths
BY DEF TypeOK, HandlerTypes, DiskTypes, Steps, Known

\* The parameters as numbers.
LEMMA Bounds ==
  /\ MaxNow \in Nat /\ MaxHunks \in Nat /\ MaxCalls \in Nat /\ MaxCrashes \in Nat
  /\ MaxTroubles \in Nat
  /\ MaxNow > 0 /\ MaxHunks > 0
  /\ \A h \in Handlers : Writes[h] \subseteq Paths
  /\ \A d \in Texts : d \in Seq(Nat) /\ d # <<>>
  /\ \A i \in Inodes : i # 0
  /\ Times \subseteq Nat /\ 0 \in Times
BY FileAssumption DEF Times, Inodes

\* The arguments of a call are arguments.
LEMMA ArgsAreArguments ==
  ASSUME NEW p \in Paths, NEW d \in Seq(Nat),
         NEW mode \in {"replace", "append", "create", "add"}, NEW e \in Times
  PROVE  /\ Args(p, d, mode, e) \in Arguments
         /\ Args(p, d, mode, e) \in Calls
         /\ Args(p, d, mode, e).path = p
         /\ Args(p, d, mode, e).data = d
         /\ Args(p, d, mode, e).mode = mode
         /\ Args(p, d, mode, e).expected = e
BY DEF Args, Arguments, Calls

\* What a handler does to its own state: the others keep theirs.
Alone(h) ==
  /\ pc' = [pc EXCEPT ![h] = pc'[h]]
  /\ call' = [call EXCEPT ![h] = call'[h]]
  /\ fd' = [fd EXCEPT ![h] = fd'[h]]
  /\ left' = [left EXCEPT ![h] = left'[h]]
  /\ moving' = [moving EXCEPT ![h] = moving'[h]]
  /\ seen' = [seen EXCEPT ![h] = seen'[h]]
  /\ calls' = [calls EXCEPT ![h] = calls'[h]]

OwnTypes(h) ==
  /\ pc[h] \in Steps
  /\ call[h] \in Calls
  /\ fd[h] \in Inodes \cup {0}
  /\ left[h] \in 0..MaxHunks
  /\ moving[h] \in Paths \cup {"none"}
  /\ seen[h] \in Known \cup {NotSeen}
  /\ calls[h] \in 0..MaxCalls

\* Its own state fits again.
Fits(h) == OwnTypes(h)' /\ HandlerOK(h)'

\* A handler that answers has nothing left of its request.
LEMMA AnswersFits ==
  ASSUME HandlerTypes, NEW h \in Handlers, Answers(h),
         seen'[h] \in Known \cup {NotSeen}, calls'[h] \in 0..MaxCalls
  PROVE  Fits(h)
<1> USE DEF Answers, Goto, HandlerTypes
<1>1. OwnTypes(h)'
  <2>1. NoCall \in Calls BY DEF Calls
  <2> QED BY <2>1, Bounds DEF OwnTypes, Steps
<1>2. HandlerOK(h)' BY DEF HandlerOK, Between, Holding
<1> QED BY <1>1, <1>2 DEF Fits

\* So has one that fails.
LEMMA FailsFits ==
  ASSUME HandlerTypes, NEW h \in Handlers, Fails(h)
  PROVE  Fits(h) /\ Alone(h) /\ UNCHANGED disk
<1>1. Fits(h) BY AnswersFits DEF Fails, HandlerTypes
<1>2. Alone(h) BY DEF Fails, Answers, Goto, Alone, HandlerTypes
<1> QED BY <1>1, <1>2 DEF Fails

\* What a handler does: it works, or a system call fails.
LEMMA WorksOrFails ==
  ASSUME NEW h \in Handlers, Handler(h)
  PROVE  Works(h) \/ CallFails(h) \/ WriteFails(h) \/ StatFails(h)
BY DEF Handler, Fault

\* A call whose mtime no longer matters is a call.
LEMMA CallWithoutTime ==
  ASSUME HandlerTypes, NEW h \in Handlers, HandlerOK(h), StatFails(h)
  PROVE  /\ pc[h] = "stat" /\ pc'[h] = (IF Atomic(call[h]) THEN "openTmp" ELSE "open")
         /\ call[h] \in Arguments /\ call'[h] \in Arguments /\ call'[h] \in Calls
         /\ call'[h] = [call[h] EXCEPT !.expected = 0]
         /\ call'[h].path = call[h].path /\ call'[h].data = call[h].data
         /\ call'[h].mode = call[h].mode /\ call'[h].expected = 0
         /\ UNCHANGED <<disk, fd, left, moving, seen, calls>>
<1>1. pc[h] = "stat" /\ UNCHANGED <<disk, fd, left, moving, seen, calls>>
  BY DEF StatFails
<1>2. /\ pc'[h] = (IF Atomic(call[h]) THEN "openTmp" ELSE "open")
      /\ call'[h] = [call[h] EXCEPT !.expected = 0]
  BY DEF StatFails, Goto, HandlerTypes
<1>3. call[h] \in Arguments BY <1>1 DEF HandlerOK, Between
<1>4. call'[h] \in Arguments BY <1>2, <1>3, Bounds DEF Arguments
<1>5. call'[h] \in Calls BY <1>4 DEF Arguments, Calls
<1> QED BY <1>1, <1>2, <1>3, <1>4, <1>5 DEF Arguments

\* Every action of a handler is its own.
LEMMA HandlerIsAlone ==
  ASSUME HandlerTypes, NEW h \in Handlers, Handler(h)
  PROVE  Alone(h)
<1> USE DEF HandlerTypes, Alone, Goto
<1>1. CASE FsRead(h) BY <1>1 DEF FsRead, Request
<1>2. CASE ReadEnds(h) BY <1>2 DEF ReadEnds, Answers
<1>3. CASE FsWrite(h) BY <1>3 DEF FsWrite, Request
<1>4. CASE WriteStats(h) BY <1>4, FailsFits DEF WriteStats
<1>5. CASE OpensTmp(h) BY <1>5 DEF OpensTmp
<1>6. CASE WritesTmp(h) BY <1>6 DEF WritesTmp
<1>7. CASE Renames(h) BY <1>7, FailsFits DEF Renames
<1>8. CASE OpensFile(h) BY <1>8, FailsFits DEF OpensFile
<1>9. CASE WritesFile(h) BY <1>9 DEF WritesFile
<1>10. CASE WriteEnds(h) BY <1>10, FailsFits DEF WriteEnds, HunkEnds, Answers
<1>11. CASE FsEdit(h) BY <1>11 DEF FsEdit, Request
<1>12. CASE EditStats(h) BY <1>12, FailsFits DEF EditStats
<1>13. CASE EditReads(h) BY <1>13, FailsFits DEF EditReads
<1>14. CASE FsPatch(h) BY <1>14 DEF FsPatch, Request
<1>15. CASE AddHunk(h) BY <1>15 DEF AddHunk, HunkWrites
<1>16. CASE DeleteHunk(h) BY <1>16, FailsFits DEF DeleteHunk
<1>17. CASE UpdateHunk(h) BY <1>17, FailsFits DEF UpdateHunk, HunkWrites
<1>18. CASE Removes(h) BY <1>18, FailsFits DEF Removes, HunkEnds, Answers
<1>19. CASE CallFails(h) BY <1>19, FailsFits DEF CallFails
<1>20. CASE WriteFails(h) BY <1>20 DEF WriteFails, Answers
<1>21. CASE StatFails(h) BY <1>21 DEF StatFails
<1> QED BY <1>1, <1>2, <1>3, <1>4, <1>5, <1>6, <1>7, <1>8, <1>9, <1>10, <1>11, <1>12,
           <1>13, <1>14, <1>15, <1>16, <1>17, <1>18, <1>19, <1>20, <1>21, WorksOrFails
   DEF Works, Write

\* A hunk that ends leaves a handler at the next, or done.
LEMMA HunkEndsFits ==
  ASSUME HandlerTypes, NEW h \in Handlers, HandlerOK(h), HunkEnds(h),
         pc[h] \notin Holding, seen'[h] \in Known \cup {NotSeen},
         calls'[h] \in 0..MaxCalls
  PROVE  Fits(h)
<1>1. CASE left[h] = 0 BY <1>1, AnswersFits DEF HunkEnds
<1>2. CASE left[h] # 0
  <2> USE <1>2 DEF HunkEnds, Goto, HandlerTypes
  <2>1. OwnTypes(h)'
    <3>1. NoCall \in Calls BY DEF Calls
    <3> QED BY <3>1 DEF OwnTypes, Steps
  <2>2. HandlerOK(h)'
    <3>1. left[h] > 0 BY Bounds
    <3> QED BY <3>1 DEF HandlerOK, Between, Holding
  <2> QED BY <2>1, <2>2 DEF Fits
<1> QED BY <1>1, <1>2

\* A call with some data is a call.
LEMMA CallWith ==
  ASSUME NEW c \in Arguments, NEW old \in Seq(Nat), NEW all \in BOOLEAN
  PROVE  [c EXCEPT !.old = old, !.all = all] \in Arguments
BY DEF Arguments

\* A call with other data is a call.
LEMMA CallWithData ==
  ASSUME NEW c \in Arguments, NEW d \in Seq(Nat)
  PROVE  [c EXCEPT !.data = d] \in Arguments
BY DEF Arguments

\* What an edit makes of a content is a content.
LEMMA EditedType ==
  ASSUME NEW current \in Seq(Nat), NEW c \in Arguments
  PROVE  Edited(current, c) \subseteq Seq(Nat)
<1>1. c.old \in Seq(Nat) /\ c.data \in Seq(Nat) BY DEF Arguments
<1>2. \A places : Substitute(current, c.old, c.data, places) \in Seq(Nat)
  BY <1>1, SubstituteType
<1> QED BY <1>1, <1>2 DEF Edited

\* What a client expects is a time.
LEMMA ExpectationsType ==
  ASSUME HandlerTypes, NEW h \in Handlers, NEW p \in Paths
  PROVE  Expectations(h, p) \subseteq Times
<1>1. seen[h] # NotSeen => seen[h].mtime \in Times BY DEF HandlerTypes, Known
<1> QED BY <1>1, Bounds DEF Expectations

\* Every action of a handler leaves it in a state that fits.
LEMMA HandlerFits ==
  ASSUME HandlerTypes, DiskTypes, TypeOK, NEW h \in Handlers, HandlerOK(h), Handler(h)
  PROVE  Fits(h)
<1> USE DEF Fits, Goto, HandlerTypes
<1>0. /\ OwnTypes(h)
      /\ call[h] \in Arguments => call[h] \in Calls
  BY DEF OwnTypes
<1>1. CASE FsRead(h)
  <2>1. PICK p \in Paths :
          /\ file[p] # 0
          /\ fd'[h] = file[p]
          /\ call'[h] = Args(p, <<>>, "replace", mtime[file[p]])
    BY <1>1 DEF FsRead
  <2>2. mtime[file[p]] \in Times BY <2>1 DEF DiskTypes
  <2>3. call'[h] \in Arguments /\ call'[h] \in Calls 
    <3>1. <<>> \in Seq(Nat) OBVIOUS
    <3>2. Args(p, <<>>, "replace", mtime[file[p]]) \in Arguments \cap Calls
      BY <2>2, <3>1, ArgsAreArguments
    <3> QED BY <2>1, <3>2
  <2>4. fd'[h] \in Inodes /\ fd'[h] # 0 BY <2>1 DEF DiskTypes
  <2>5. pc'[h] = "read" /\ pc[h] = "idle" BY <1>1 DEF FsRead, Request
  <2>6. calls'[h] \in 0..MaxCalls BY <1>1, Bounds DEF FsRead, Request
  <2> QED BY <1>1, <2>3, <2>4, <2>5, <2>6
     DEF FsRead, OwnTypes, Steps, HandlerOK, Between, Holding
<1>2. CASE ReadEnds(h)
  <2>1. call[h] \in Arguments /\ fd[h] \in Inodes
    BY <1>2 DEF ReadEnds, HandlerOK, Between, Holding
  <2>2. data[fd[h]] \in Seq(Nat) BY <2>1 DEF DiskTypes
  <2>3. seen'[h] \in Known BY <1>2, <2>1, <2>2 DEF ReadEnds, Known, Arguments
  <2> QED BY <1>2, <2>3, AnswersFits DEF ReadEnds
<1>3. CASE FsWrite(h)
  <2>1. PICK p \in Writes[h], d \in Texts, m \in {"replace", "append", "create"} :
          \E e \in Expectations(h, p) : call'[h] = Args(p, d, m, e)
    BY <1>3 DEF FsWrite
  <2>2. p \in Paths /\ d \in Seq(Nat) BY <2>1, Bounds
  <2>3. /\ call'[h] \in Arguments /\ call'[h] \in Calls /\ call'[h].path = p
    BY <2>1, <2>2, ExpectationsType, ArgsAreArguments
  <2>4. pc'[h] = "stat" /\ pc[h] = "idle" BY <1>3 DEF FsWrite, Request
  <2>5. calls'[h] \in 0..MaxCalls BY <1>3, Bounds DEF FsWrite, Request
  <2> QED BY <1>3, <2>3, <2>4, <2>5
     DEF FsWrite, OwnTypes, Steps, HandlerOK, Between, Holding
<1>4. CASE WriteStats(h)
  BY <1>0, <1>4, FailsFits DEF WriteStats, OwnTypes, Steps, HandlerOK, Between, Holding
<1>5. CASE OpensTmp(h)
  <2>1. call[h].path \in Paths BY <1>5 DEF OpensTmp, HandlerOK, Between, Arguments
  <2>2. tmp[call[h].path] = 0 => NewInode \in Inodes BY <2>1, NewInodeIsFree
  <2>3. fd'[h] \in Inodes BY <1>5, <2>1, <2>2 DEF OpensTmp, DiskTypes
  <2> QED BY <1>0, <1>5, <2>3, Bounds
     DEF OpensTmp, OwnTypes, Steps, HandlerOK, Between, Holding
<1>6. CASE WritesTmp(h)
  BY <1>0, <1>6 DEF WritesTmp, OwnTypes, Steps, HandlerOK, Between, Holding
<1>7. CASE Renames(h)
  BY <1>0, <1>7, FailsFits DEF Renames, OwnTypes, Steps, HandlerOK, Between, Holding
<1>8. CASE OpensFile(h)
  <2>1. call[h].path \in Paths BY <1>8 DEF OpensFile, HandlerOK, Between, Arguments
  <2>2. file[call[h].path] = 0 => NewInode \in Inodes BY <2>1, NewInodeIsFree
  <2>3. \/ Fails(h)
        \/ /\ pc'[h] = "write" /\ fd'[h] \in Inodes
           /\ UNCHANGED <<call, left, moving, seen, calls>>
    BY <1>8, <2>1, <2>2 DEF OpensFile, DiskTypes
  <2> QED BY <1>0, <1>8, <2>3, FailsFits, Bounds
     DEF OpensFile, OwnTypes, Steps, HandlerOK, Between, Holding
<1>9. CASE WritesFile(h)
  BY <1>0, <1>9 DEF WritesFile, OwnTypes, Steps, HandlerOK, Between, Holding
<1>10. CASE WriteEnds(h)
  <2>1. call[h] \in Arguments BY <1>10 DEF WriteEnds, HandlerOK, Between
  <2>2. CASE Fails(h) BY <2>2, FailsFits
  <2>3. CASE ~ Fails(h)
    <3>1. call[h].path \in Paths /\ call[h].data \in Seq(Nat) BY <2>1 DEF Arguments
    <3>2. file[call[h].path] # 0 BY <1>10, <2>3 DEF WriteEnds
    <3>3. mtime[file[call[h].path]] \in Times BY <3>1, <3>2 DEF DiskTypes
    <3>4. seen'[h] \in Known \cup {NotSeen}
      BY <1>10, <2>3, <3>1, <3>3 DEF WriteEnds, Known
    <3>5. CASE Moves(h)
      BY <1>0, <1>10, <2>3, <3>4, <3>5
         DEF WriteEnds, Moves, OwnTypes, Steps, HandlerOK, Between, Holding
    <3>6. CASE ~ Moves(h)
      BY <1>0, <1>10, <2>3, <3>4, <3>6, HunkEndsFits DEF WriteEnds, OwnTypes, Holding
    <3> QED BY <3>5, <3>6
  <2> QED BY <2>2, <2>3
<1>11. CASE FsEdit(h)
  <2>1. PICK p \in Writes[h], old \in Texts \cup {<<>>}, new \in Texts, all \in BOOLEAN :
          \E e \in Expectations(h, p) :
            call'[h] = [Args(p, new, "replace", e) EXCEPT !.old = old, !.all = all]
    <3> HIDE DEF HandlerTypes, Goto
    <3>1. PICK p \in Writes[h], old \in Texts \cup {<<>>}, new \in Texts, all \in BOOLEAN :
            \E e \in Expectations(h, p) :
              /\ old # new
              /\ call' = [call EXCEPT ![h] =
                   [Args(p, new, "replace", e) EXCEPT !.old = old, !.all = all]]
      BY <1>11, Zenon DEF FsEdit
    <3>2. PICK e \in Expectations(h, p) : call' = [call EXCEPT ![h] =
                [Args(p, new, "replace", e) EXCEPT !.old = old, !.all = all]]
      BY <3>1, Zenon
    <3> QED BY <3>2 DEF HandlerTypes
  <2>2. PICK e \in Expectations(h, p) :
            call'[h] = [Args(p, new, "replace", e) EXCEPT !.old = old, !.all = all]
    BY <2>1
  <2>3. p \in Paths /\ new \in Seq(Nat) /\ old \in Seq(Nat)
    <3>1. <<>> \in Seq(Nat) OBVIOUS
    <3> QED BY <2>1, <3>1, Bounds
  <2>4. e \in Times BY <2>3, ExpectationsType
  <2>5. call'[h] \in Arguments
    <3> HIDE DEF HandlerTypes
    <3>1. Args(p, new, "replace", e) \in Arguments BY <2>3, <2>4, ArgsAreArguments
    <3>2. all \in BOOLEAN BY <2>1
    <3> QED BY <2>2, <2>3, <3>1, <3>2, CallWith
  <2>6. call'[h].path = p /\ call'[h].mode = "replace" BY <2>2 DEF Args
  <2>7. call'[h] \in Calls BY <2>5 DEF Arguments, Calls
  <2>8. pc'[h] = "edit" /\ pc[h] = "idle" BY <1>11 DEF FsEdit, Request
  <2>9. calls'[h] \in 0..MaxCalls BY SMTT(30), <1>11, Bounds DEF FsEdit, Request
  <2> QED BY <1>11, <2>5, <2>6, <2>7, <2>8, <2>9
     DEF FsEdit, OwnTypes, Steps, HandlerOK, Between, Holding
<1>12. CASE EditStats(h)
  BY <1>0, <1>12, FailsFits DEF EditStats, OwnTypes, Steps, HandlerOK, Between, Holding
<1>13. CASE EditReads(h)
  <2>1. call[h] \in Arguments BY <1>13 DEF EditReads, HandlerOK, Between
  <2>2. CASE Fails(h) BY <2>2, FailsFits
  <2>3. CASE ~ Fails(h)
    <3> DEFINE next == IF file[call[h].path] = 0 THEN {}
                       ELSE Edited(data[file[call[h].path]], call[h])
    <3>1. PICK text \in next : /\ call' = [call EXCEPT ![h].data = text]
                               /\ pc'[h] = "stat"
                               /\ UNCHANGED <<fd, left, moving, seen, calls>>
      BY <1>13, <2>3 DEF EditReads
    <3>2. call[h].path \in Paths BY <2>1 DEF Arguments
    <3>3. text \in Seq(Nat)
      <4>1. file[call[h].path] # 0 BY <3>1
      <4>2. data[file[call[h].path]] \in Seq(Nat) BY <3>2, <4>1 DEF DiskTypes
      <4> QED BY <2>1, <3>1, <4>1, <4>2, EditedType
    <3>4. call'[h] = [call[h] EXCEPT !.data = text] BY <3>1
    <3>5. call'[h] \in Arguments BY <2>1, <3>3, <3>4, CallWithData
    <3>6. call'[h].path = call[h].path /\ call'[h].mode = call[h].mode
      BY <2>1, <3>4 DEF Arguments
    <3>7. call'[h] \in Calls BY <3>5 DEF Arguments, Calls
    <3> QED BY <1>0, <1>13, <3>1, <3>5, <3>6, <3>7
       DEF EditReads, OwnTypes, Steps, HandlerOK, Between, Holding
  <2> QED BY <2>2, <2>3
<1>14. CASE FsPatch(h)
  <2>1. calls'[h] \in 0..MaxCalls BY <1>14, Bounds DEF FsPatch, Request
  <2>2. left'[h] \in 1..MaxHunks BY <1>14 DEF FsPatch
  <2> QED BY <1>0, <1>14, <2>1, <2>2, Bounds
     DEF FsPatch, Request, OwnTypes, Steps, HandlerOK, Between, Holding
<1>15. CASE AddHunk(h)
  <2>1. PICK p \in Writes[h], d \in Texts : HunkWrites(h, p, d, "add") BY <1>15 DEF AddHunk
  <2>2. call'[h] = Args(p, d, "add", 0) /\ left'[h] = left[h] - 1 BY <2>1 DEF HunkWrites
  <2>3. p \in Paths /\ d \in Seq(Nat) BY Bounds
  <2>4. call'[h] \in Arguments /\ call'[h] \in Calls /\ call'[h].path = p
    BY <2>2, <2>3, Bounds, ArgsAreArguments
  <2>5. left[h] \in 1..MaxHunks BY <1>15 DEF AddHunk, HandlerOK
  <2>6. moving[h] = "none" BY <1>15 DEF AddHunk, HandlerOK, Between
  <2>7. left'[h] \in 0..MaxHunks BY <2>2, <2>5, Bounds
  <2>8. pc'[h] = "stat" /\ pc[h] = "hunk" BY <1>15, <2>1 DEF AddHunk, HunkWrites
  <2> QED BY <1>0, <1>15, <2>1, <2>4, <2>6, <2>7, <2>8
     DEF AddHunk, HunkWrites, OwnTypes, Steps, HandlerOK, Between, Holding
<1>16. CASE DeleteHunk(h)
  <2>1. left[h] \in 1..MaxHunks /\ left[h] - 1 \in 0..MaxHunks
    BY <1>16, Bounds DEF DeleteHunk, HandlerOK
  <2>2. left[h] # 1 => left[h] - 1 > 0 BY <2>1, Bounds
  <2>3. CASE Fails(h) BY <2>3, FailsFits
  <2>4. CASE ~ Fails(h)
    <3>1. /\ pc'[h] = (IF left[h] = 1 THEN "idle" ELSE "hunk") /\ pc[h] = "hunk"
          /\ left'[h] = left[h] - 1
          /\ UNCHANGED <<call, fd, moving, seen, calls>>
      BY <1>16, <2>4 DEF DeleteHunk
    <3> QED BY <1>0, <2>1, <2>2, <3>1 DEF OwnTypes, Steps, HandlerOK, Between, Holding
  <2> QED BY <2>3, <2>4
<1>17. CASE UpdateHunk(h)
  <2>1. CASE Fails(h) BY <2>1, FailsFits
  <2>2. CASE ~ Fails(h)
    <3>1. PICK from \in Writes[h], to \in Writes[h], d \in Texts :
            HunkWrites(h, to, d, "replace") /\ moving'[h] = from
      BY <1>17, <2>2 DEF UpdateHunk
    <3>2. call'[h] = Args(to, d, "replace", 0) /\ left'[h] = left[h] - 1
      BY <3>1 DEF HunkWrites
    <3>3. to \in Paths /\ from \in Paths /\ d \in Seq(Nat) BY Bounds
    <3>4. /\ call'[h] \in Arguments /\ call'[h] \in Calls
          /\ call'[h].path = to /\ call'[h].mode = "replace"
      BY <3>2, <3>3, Bounds, ArgsAreArguments
    <3>5. left[h] \in 1..MaxHunks BY <1>17 DEF UpdateHunk, HandlerOK
    <3>6. left'[h] \in 0..MaxHunks BY <3>2, <3>5, Bounds
    <3>7. pc'[h] = "stat" /\ pc[h] = "hunk" BY <1>17, <3>1 DEF UpdateHunk, HunkWrites
    <3> QED BY <1>0, <1>17, <3>1, <3>3, <3>4, <3>6, <3>7
       DEF UpdateHunk, HunkWrites, OwnTypes, Steps, HandlerOK, Between, Holding
  <2> QED BY <2>1, <2>2
<1>18. CASE Removes(h)
  BY <1>0, <1>18, FailsFits, HunkEndsFits DEF Removes, OwnTypes, Holding
<1>19. CASE CallFails(h) BY <1>19, FailsFits DEF CallFails
<1>20. CASE WriteFails(h) BY <1>0, <1>20, AnswersFits DEF WriteFails, OwnTypes
<1>21. CASE StatFails(h)
  BY <1>0, <1>21, CallWithoutTime DEF OwnTypes, Steps, HandlerOK, Between, Holding, Atomic
<1> QED BY <1>1, <1>2, <1>3, <1>4, <1>5, <1>6, <1>7, <1>8, <1>9, <1>10, <1>11, <1>12,
           <1>13, <1>14, <1>15, <1>16, <1>17, <1>18, <1>19, <1>20, <1>21, WorksOrFails
   DEF Works, Write

\* What fits the handler fits them all.
LEMMA HandlersFit ==
  ASSUME HandlerTypes, CallOK, NEW h \in Handlers, Alone(h), Fits(h)
  PROVE  HandlerTypes' /\ CallOK'
<1>1. HandlerTypes' BY DEF HandlerTypes, Alone, Fits, OwnTypes
<1>2. ASSUME NEW g \in Handlers PROVE HandlerOK(g)'
  <2>1. CASE g = h BY <2>1 DEF Fits
  <2>2. CASE g # h
    <3>1. HandlerOK(g) BY DEF CallOK
    <3>2. /\ pc'[g] = pc[g] /\ call'[g] = call[g] /\ fd'[g] = fd[g]
          /\ left'[g] = left[g] /\ moving'[g] = moving[g]
      BY <2>2 DEF Alone, HandlerTypes
    <3> QED BY <3>1, <3>2 DEF HandlerOK
  <2> QED BY <2>1, <2>2
<1> QED BY <1>1, <1>2 DEF CallOK

-----------------------------------------------------------------------------
(* The steps of a handler, seen from the disk.                             *)

Creates(h) ==
  LET p == call[h].path IN
  /\ pc[h] = "open" /\ file[p] = 0
  /\ file' = [file EXCEPT ![p] = NewInode]
  /\ data' = [data EXCEPT ![NewInode] = <<>>]
  /\ mtime' = [mtime EXCEPT ![NewInode] = now]
  /\ UNCHANGED tmp

Unlinks(h, p) ==
  /\ pc[h] \in {"hunk", "remove"}
  /\ file[p] # 0
  /\ file' = [file EXCEPT ![p] = 0]
  /\ UNCHANGED <<tmp, data, mtime>>

\* The ways a handler changes the disk.
LEMMA DiskSteps ==
  ASSUME NEW h \in Handlers, HandlerOK(h), Handler(h)
  PROVE  \/ UNCHANGED disk
         \/ OpensTmp(h) \/ WritesTmp(h) \/ (Renames(h) /\ ~ RenameFails(h))
         \/ Creates(h) \/ WritesFile(h) \/ WriteFails(h)
         \/ \E p \in Writes[h] : Unlinks(h, p)
<1> USE DEF disk
<1>1. CASE FsRead(h) BY <1>1 DEF FsRead
<1>2. CASE ReadEnds(h) BY <1>2 DEF ReadEnds
<1>3. CASE FsWrite(h) BY <1>3 DEF FsWrite
<1>4. CASE WriteStats(h) BY <1>4 DEF WriteStats, Fails
<1>5. CASE OpensTmp(h) BY <1>5
<1>6. CASE WritesTmp(h) BY <1>6
<1>7. CASE Renames(h)
  <2>1. CASE RenameFails(h) BY <1>7, <2>1 DEF Renames, Fails
  <2>2. CASE ~ RenameFails(h) BY <1>7, <2>2
  <2> QED BY <2>1, <2>2
<1>8. CASE OpensFile(h) BY <1>8 DEF OpensFile, Fails, Creates
<1>9. CASE WritesFile(h) BY <1>9
<1>10. CASE WriteEnds(h) BY <1>10 DEF WriteEnds, Fails
<1>11. CASE FsEdit(h) BY <1>11 DEF FsEdit
<1>12. CASE EditStats(h) BY <1>12 DEF EditStats, Fails
<1>13. CASE EditReads(h) BY <1>13 DEF EditReads, Fails
<1>14. CASE FsPatch(h) BY <1>14 DEF FsPatch
<1>15. CASE AddHunk(h) BY <1>15 DEF AddHunk, HunkWrites
<1>16. CASE DeleteHunk(h) BY <1>16 DEF DeleteHunk, Fails, Unlinks
<1>17. CASE UpdateHunk(h) BY <1>17 DEF UpdateHunk, HunkWrites, Fails
<1>18. CASE Removes(h)
  <2>1. moving[h] \in Writes[h] BY <1>18 DEF Removes, HandlerOK
  <2> QED BY <1>18, <2>1 DEF Removes, Fails, Unlinks
<1>19. CASE CallFails(h) BY <1>19 DEF CallFails, Fails
<1>20. CASE StatFails(h) BY <1>20 DEF StatFails
<1> QED BY <1>1, <1>2, <1>3, <1>4, <1>5, <1>6, <1>7, <1>8, <1>9, <1>10, <1>11, <1>12,
           <1>13, <1>14, <1>15, <1>16, <1>17, <1>18, <1>19, <1>20, WorksOrFails
   DEF Works, Write

\* The inodes not in use.
Fresh ==
  {i \in Inodes :
     /\ \A p \in Paths : i \notin {file[p], tmp[p]}
     /\ \A h \in Handlers : i # fd[h]}

\* Where a name gets a new inode, it gets a fresh one.
LEMMA NewInodeIsFresh ==
  ASSUME TypeOK, Handlers # {}, NEW p \in Paths, file[p] = 0 \/ tmp[p] = 0
  PROVE  NewInode \in Fresh
BY NewInodeIsFree DEF Fresh

\* The path of a handler that has something to do with the disk.
LEMMA PathOfCall ==
  ASSUME CallOK, NEW h \in Handlers, pc[h] \notin Between \cup {"read"}
  PROVE  call[h] \in Arguments /\ call[h].path \in Writes[h] /\ call[h].path \in Paths
BY DEF CallOK, HandlerOK, Arguments

\* What is written over a content is a content.
LEMMA OverType ==
  ASSUME NEW d \in Seq(Nat), NEW old \in Seq(Nat)
  PROVE  Over(d, old) \in Seq(Nat) /\ Over(d, <<>>) = d
<1>1. SubSeq(old, Len(d) + 1, Len(old)) \in Seq(Nat)
  OBVIOUS
<1>2. SubSeq(<<>>, Len(d) + 1, 0) = <<>>
  OBVIOUS
<1>3. d \o <<>> = d OBVIOUS
<1> QED BY <1>1, <1>2, <1>3 DEF Over

\* What a write that fails leaves in the inode that is open, and nowhere else.
LEMMA PartWritten ==
  ASSUME HandlerTypes, DiskTypes, CallOK, NEW h \in Handlers, WriteFails(h)
  PROVE  /\ pc[h] \in {"writeTmp", "write"} /\ fd[h] \in Inodes
         /\ UNCHANGED <<file, tmp>>
         /\ \E d \in Seq(Nat) : data' = [data EXCEPT ![fd[h]] = d]
         /\ mtime' \in {mtime, [mtime EXCEPT ![fd[h]] = now]}
<1>1. pc[h] \in {"writeTmp", "write"} /\ UNCHANGED <<file, tmp>> BY DEF WriteFails
<1>2. fd[h] \in Inodes
  BY <1>1 DEF CallOK, HandlerOK, Holding, HandlerTypes
<1>3. call[h].data \in Seq(Nat) /\ data[fd[h]] \in Seq(Nat)
  BY <1>1, <1>2, PathOfCall DEF Between, Arguments, DiskTypes
<1>4. PICK part \in Parts(h) :
        /\ data' = [data EXCEPT ![fd[h]] =
             IF call[h].mode = "append" THEN @ \o part ELSE Over(part, @)]
        /\ mtime' = [mtime EXCEPT ![fd[h]] = IF part = <<>> THEN @ ELSE now]
  BY DEF WriteFails
<1>5. part \in Seq(Nat)
  <2>1. PICK n \in 0..(Len(call[h].data) - IF pc[h] = "writeTmp" THEN 0 ELSE 1) :
          part = SubSeq(call[h].data, 1, n)
    BY DEF Parts
  <2>2. n <= Len(call[h].data) /\ n \in Nat BY <1>3
  <2> QED BY <1>3, <2>1, <2>2
<1>6. Over(part, data[fd[h]]) \in Seq(Nat) BY <1>3, <1>5, OverType
<1>7. data[fd[h]] \o part \in Seq(Nat) BY <1>3, <1>5
<1>8. mtime' \in {mtime, [mtime EXCEPT ![fd[h]] = now]} BY <1>2, <1>4 DEF DiskTypes
<1> QED BY <1>1, <1>2, <1>4, <1>6, <1>7, <1>8

\* Every name stays with its inode, unless it is removed, renamed or new.
LEMMA DiskTypesKept ==
  ASSUME TypeOK, CallOK, NEW h \in Handlers, Handler(h)
  PROVE  /\ DiskTypes'
         /\ \A p \in Paths : /\ file'[p] \in {file[p], tmp[p], 0} \cup Fresh
                            /\ tmp'[p] \in {tmp[p], 0} \cup Fresh
<1> DEFINE p == call[h].path
<1>1. DiskTypes /\ HandlerTypes /\ now \in Times /\ HandlerOK(h)
  BY TypeHalves, Bounds DEF CallOK, Times
<1>2. CASE UNCHANGED disk BY <1>1, <1>2 DEF DiskTypes, disk
<1>3. CASE OpensTmp(h)
  <2> DEFINE i == IF tmp[p] # 0 THEN tmp[p] ELSE NewInode
  <2>1. p \in Paths BY <1>3, PathOfCall DEF OpensTmp, Between
  <2>2. i \in Inodes /\ (i = tmp[p] \/ i \in Fresh)
    <3>1. tmp[p] = 0 => NewInode \in Fresh BY <2>1, NewInodeIsFresh
    <3> QED BY <1>1, <2>1, <3>1 DEF DiskTypes, Fresh
  <2>3. /\ tmp' = [tmp EXCEPT ![p] = i]
        /\ data' = [data EXCEPT ![i] = <<>>]
        /\ mtime' = [mtime EXCEPT ![i] = now]
        /\ UNCHANGED file
    BY <1>3 DEF OpensTmp, TmpOpened
  <2> HIDE DEF p, i
  <2> QED BY <1>1, <2>1, <2>2, <2>3, Bounds DEF DiskTypes, Fresh
<1>4. CASE WritesTmp(h)
  <2>1. fd[h] \in Inodes BY <1>1, <1>4 DEF WritesTmp, HandlerOK, Holding, HandlerTypes
  <2>2. call[h].data \in Seq(Nat) BY <1>4, PathOfCall DEF WritesTmp, Between, Arguments
  <2>3. data[fd[h]] \in Seq(Nat) BY <1>1, <2>1 DEF DiskTypes
  <2>4. Over(call[h].data, data[fd[h]]) \in Seq(Nat) BY <2>2, <2>3, OverType
  <2> QED BY <1>1, <1>4, <2>1, <2>4 DEF WritesTmp, DiskTypes
<1>5. CASE Renames(h) /\ ~ RenameFails(h)
  <2>1. p \in Paths BY <1>5, PathOfCall DEF Renames, Between
  <2>2. /\ file' = [file EXCEPT ![p] = tmp[p]]
        /\ tmp' = [tmp EXCEPT ![p] = 0]
        /\ UNCHANGED <<data, mtime>>
    BY <1>5 DEF Renames
  <2> HIDE DEF p
  <2> QED BY <1>1, <2>1, <2>2 DEF DiskTypes
<1>6. CASE Creates(h)
  <2>1. p \in Paths BY <1>6, PathOfCall DEF Creates, Between
  <2>2. NewInode \in Fresh BY <1>6, <2>1, NewInodeIsFresh DEF Creates
  <2>3. /\ file' = [file EXCEPT ![p] = NewInode]
        /\ data' = [data EXCEPT ![NewInode] = <<>>]
        /\ mtime' = [mtime EXCEPT ![NewInode] = now]
        /\ UNCHANGED tmp
    BY <1>6 DEF Creates
  <2> HIDE DEF p
  <2> QED BY <1>1, <2>1, <2>2, <2>3, Bounds DEF DiskTypes, Fresh
<1>7. CASE WritesFile(h)
  <2>1. fd[h] \in Inodes BY <1>1, <1>7 DEF WritesFile, HandlerOK, Holding, HandlerTypes
  <2>2. call[h].data \in Seq(Nat) BY <1>7, PathOfCall DEF WritesFile, Between, Arguments
  <2>3. data[fd[h]] \in Seq(Nat) BY <1>1, <2>1 DEF DiskTypes
  <2>4. Over(call[h].data, data[fd[h]]) \in Seq(Nat) BY <2>2, <2>3, OverType
  <2>5. data[fd[h]] \o call[h].data \in Seq(Nat) BY <2>2, <2>3
  <2> QED BY <1>1, <1>7, <2>1, <2>4, <2>5 DEF WritesFile, DiskTypes
<1>8. CASE \E q \in Writes[h] : Unlinks(h, q)
  <2>1. PICK q \in Writes[h] : Unlinks(h, q) BY <1>8
  <2> QED BY <1>1, <2>1, Bounds DEF Unlinks, DiskTypes
<1>9. CASE WriteFails(h)
  <2>1. fd[h] \in Inodes /\ UNCHANGED <<file, tmp>> BY <1>1, <1>9, PartWritten
  <2>2. data' \in [Inodes -> Seq(Nat)]
    <3>1. PICK d \in Seq(Nat) : data' = [data EXCEPT ![fd[h]] = d]
      BY <1>1, <1>9, PartWritten
    <3> QED BY <1>1, <3>1 DEF DiskTypes
  <2>3. mtime' \in [Inodes -> Times]
    <3>1. mtime' \in {mtime, [mtime EXCEPT ![fd[h]] = now]} BY <1>1, <1>9, PartWritten
    <3> QED BY <1>1, <3>1 DEF DiskTypes
  <2> QED BY <1>1, <2>1, <2>2, <2>3 DEF DiskTypes
<1> QED BY <1>1, <1>2, <1>3, <1>4, <1>5, <1>6, <1>7, <1>8, <1>9, DiskSteps

-----------------------------------------------------------------------------
(* Types, and temporary files.                                             *)

\* Everything has its type at the start, and nobody has a file open.
LEMMA InitTypes == Init => TypeOK /\ CallOK
<1> SUFFICES ASSUME Init PROVE TypeOK /\ CallOK
  OBVIOUS
<1>1. CallOK BY DEF Init, CallOK, HandlerOK, Between, Holding
<1>2. HandlerTypes
  <2>1. NoCall \in Calls BY DEF Calls
  <2> QED BY <2>1, Bounds DEF Init, HandlerTypes, Steps
<1>3. 1..Cardinality(Paths) \subseteq Inodes
  <2>1. Cardinality(Paths) \in Nat /\ Cardinality(Handlers) \in Nat
    BY FileAssumption, FS_CardinalityType
  <2> QED BY <2>1 DEF Inodes
<1>4. file \in [Paths -> Inodes \cup {0}] BY <1>3 DEF Init
<1>5. \A p, q \in Paths : p # q => (file[p] = file[q] => file[p] = 0)
  <2>1. PICK n \in [Paths -> 1..Cardinality(Paths)], exists \in SUBSET Paths :
          /\ \A p, q \in Paths : p # q => n[p] # n[q]
          /\ file = [p \in Paths |-> IF p \in exists THEN n[p] ELSE 0]
    BY DEF Init
  <2> QED BY <2>1
<1>6. data \in [Inodes -> Seq(Nat)]
  <2>1. PICK content \in [Paths -> Starts] :
          data = [i \in Inodes |->
                   IF \E p \in Paths : file[p] = i
                   THEN content[CHOOSE p \in Paths : file[p] = i] ELSE <<>>]
    BY DEF Init
  <2>2. \A p \in Paths : content[p] \in Seq(Nat) BY FileAssumption
  <2>3. \A i : (\E p \in Paths : file[p] = i) =>
           (CHOOSE p \in Paths : file[p] = i) \in Paths
    OBVIOUS
  <2>4. <<>> \in Seq(Nat) OBVIOUS
  <2> QED BY <2>1, <2>2, <2>3, <2>4
<1>7. mtime \in [Inodes -> Times] BY Bounds DEF Init, Times
<1>8. DiskTypes BY <1>4, <1>5, <1>6, <1>7 DEF Init, DiskTypes
<1>9. /\ now \in 1..MaxNow /\ crashes \in 0..MaxCrashes
      /\ faults \in 0..MaxTroubles /\ remains \subseteq Paths
  BY Bounds DEF Init
<1> QED BY <1>1, <1>2, <1>8, <1>9, TypeHalves

\* A handler keeps them.
LEMMA HandlerKeepsTypes ==
  ASSUME TypeOK, CallOK, NEW h \in Handlers, Handler(h)
  PROVE  TypeOK' /\ CallOK' /\ Alone(h) /\ Fits(h)
<1>1. HandlerTypes /\ DiskTypes /\ HandlerOK(h) BY TypeHalves DEF CallOK
<1>2. Alone(h) BY <1>1, HandlerIsAlone
<1>3. Fits(h) BY <1>1, HandlerFits
<1>4. HandlerTypes' /\ CallOK' BY <1>1, <1>2, <1>3, HandlersFit
<1>5. DiskTypes' BY DiskTypesKept
<1>6. UNCHANGED <<now, crashes>> BY DEF Handler
<1>7. faults' \in 0..MaxTroubles
  <2>1. faults \in Nat /\ crashes \in Nat BY Bounds DEF TypeOK
  <2>2. faults' = faults \/ (crashes + faults < MaxTroubles /\ faults' = faults + 1)
    BY DEF Handler, Works, Fault
  <2> QED BY <2>1, <2>2, Bounds DEF TypeOK
<1>8. remains' \subseteq Paths BY DEF Handler, Works, Fault, Abandoned, TypeOK
<1>9. TypeOK'
  BY <1>4, <1>5, <1>6, <1>7, <1>8 DEF TypeOK, HandlerTypes, DiskTypes, Steps, Known
<1> QED BY <1>2, <1>3, <1>4, <1>9

\* So do the clock and a crash.
LEMMA OthersKeepTypes ==
  ASSUME TypeOK, CallOK, Tick \/ Crash \/ UNCHANGED vars
  PROVE  TypeOK' /\ CallOK'
<1>1. CASE Tick
  BY <1>1, Bounds DEF Tick, TypeOK, CallOK, HandlerOK, disk, handlerVars
<1>2. CASE Crash
  <2>1. CallOK' BY <1>2 DEF Crash, CallOK, HandlerOK, Between, Holding
  <2>2. NoCall \in Calls BY DEF Calls
  <2>3. /\ pc' = [h \in Handlers |-> "idle"]
        /\ call' = [h \in Handlers |-> NoCall]
        /\ fd' = [h \in Handlers |-> 0]
        /\ left' = [h \in Handlers |-> 0]
        /\ moving' = [h \in Handlers |-> "none"]
        /\ crashes' \in 0..MaxCrashes
        /\ remains' \subseteq Paths
        /\ UNCHANGED <<file, tmp, data, mtime, now, seen, calls, faults>>
    BY <1>2, Bounds DEF Crash, Abandoned, disk, TypeOK
  <2>4. TypeOK' BY <2>2, <2>3, Bounds DEF TypeOK
  <2> QED BY <2>1, <2>4
<1>3. CASE UNCHANGED vars
  BY <1>3 DEF vars, TypeOK, CallOK, HandlerOK, disk, handlerVars
<1> QED BY <1>1, <1>2, <1>3

\* Every step keeps them.
LEMMA TypesKept == TypesInv /\ [Next]_vars => TypesInv'
BY HandlerKeepsTypes, OthersKeepTypes DEF TypesInv, Next

\* They hold in every state.
LEMMA TypesAlways == Spec => []TypesInv
<1>1. Init => TypesInv BY InitTypes DEF TypesInv
<1> QED BY <1>1, TypesKept, PTL DEF Spec

\* Every variable of the filesystem methods has its type, and a file has one
\* name and is nobody's temporary file, in every state.
THEOREM FilesTypeCorrect == Spec => []TypeOK
<1>1. TypesInv => TypeOK BY DEF TypesInv
<1> QED BY <1>1, TypesAlways, PTL

\* What becomes of a temporary file: only OpensTmp makes one, of the path of
\* its handler.
LEMMA TmpMade ==
  ASSUME TypeOK, CallOK, NEW h \in Handlers, Handler(h), NEW p \in Paths, tmp'[p] # 0
  PROVE  tmp[p] # 0 \/ (OpensTmp(h) /\ call[h].path = p)
<1>1. HandlerOK(h) BY DEF CallOK
<1>2. CASE OpensTmp(h) BY <1>2 DEF OpensTmp, TypeOK
<1>3. CASE ~ OpensTmp(h)
  <2>1. \A q \in Paths : tmp'[q] = tmp[q] \/ tmp'[q] = 0
    BY <1>1, <1>3, DiskSteps
       DEF disk, WritesTmp, Renames, Creates, WritesFile, WriteFails, Unlinks, TypeOK
  <2> QED BY <2>1
<1> QED BY <1>2, <1>3

\* Which handler a temporary file waits for.
Waits(h, p) == pc[h] \in {"writeTmp", "rename"} /\ call[h].path = p

\* A handler that works waits for a temporary file until it is gone.
LEMMA WaiterStays ==
  ASSUME TypeOK, CallOK, NEW h \in Handlers, Handler(h), Works(h), NEW p \in Paths,
         tmp[p] # 0, tmp'[p] # 0, NEW g \in Handlers, Waits(g, p)
  PROVE  Waits(g, p)'
<1>1. HandlerTypes /\ Alone(h) BY TypeHalves, HandlerKeepsTypes
<1>2. CASE g # h BY <1>1, <1>2 DEF Waits, Alone, HandlerTypes
<1>3. CASE g = h
  <2>1. WritesTmp(h) \/ Renames(h)
    BY <1>3
       DEF Waits, Works, Write, FsRead, ReadEnds, FsWrite, FsEdit, EditStats,
           EditReads, FsPatch, AddHunk, DeleteHunk, UpdateHunk, Removes, Request,
           WriteStats, OpensTmp, OpensFile, WritesFile, WriteEnds
  <2>2. CASE WritesTmp(h) BY <1>1, <1>3, <2>2 DEF WritesTmp, Waits, Goto, HandlerTypes
  <2>3. CASE Renames(h)
    <3>1. RenameFails(h) \/ tmp'[p] = 0
      BY <1>3, <2>3 DEF Renames, Waits, TypeOK
    <3> QED BY <1>3, <3>1 DEF RenameFails, Waits
  <2> QED BY <2>1, <2>2, <2>3
<1> QED BY <1>2, <1>3

\* A handler that fails leaves the temporary file it waits for.
LEMMA WaiterFails ==
  ASSUME TypeOK, CallOK, NEW h \in Handlers, Handler(h), Fault(h), NEW p \in Paths,
         tmp[p] # 0, NEW g \in Handlers, Waits(g, p)
  PROVE  Waits(g, p)' \/ p \in remains'
<1>1. HandlerTypes /\ Alone(h) BY TypeHalves, HandlerKeepsTypes
<1>2. CASE g # h BY <1>1, <1>2 DEF Waits, Alone, HandlerTypes
<1>3. CASE g = h
  <2>1. CallFails(h) \/ WriteFails(h)
    BY <1>3 DEF Fault, StatFails, Waits
  <2>2. pc'[h] = "idle"
    BY <1>1, <2>1 DEF CallFails, WriteFails, Fails, Answers, Goto, HandlerTypes
  <2>3. remains' = remains \cup Abandoned({h}) BY <2>2 DEF Fault
  <2> QED BY <1>3, <2>3 DEF Abandoned, Waits
<1> QED BY <1>2, <1>3

\* What is left behind stays so until it is gone.
LEMMA RemainsStay ==
  ASSUME NEW h \in Handlers, Handler(h), NEW p \in remains, tmp'[p] # 0
  PROVE  p \in remains'
BY DEF Handler, Works, Fault

\* No step leaves a temporary file behind but a fault or a crash.
LEMMA NoTmpLeftKept == TypesInv /\ NoTmpLeft /\ [Next]_vars => NoTmpLeft'
<1> SUFFICES ASSUME TypesInv, NoTmpLeft, [Next]_vars, NEW p \in Paths, tmp'[p] # 0
             PROVE  p \in remains' \/ \E g \in Handlers : Waits(g, p)'
  BY DEF NoTmpLeft, Waits
<1> USE DEF TypesInv
<1>1. CASE \E h \in Handlers : Handler(h)
  <2>1. PICK h \in Handlers : Handler(h) BY <1>1
  <2>2. CASE tmp[p] # 0 /\ p \in remains BY <2>1, <2>2, RemainsStay
  <2>3. CASE tmp[p] # 0 /\ p \notin remains
    <3>1. PICK g \in Handlers : Waits(g, p) BY <2>3 DEF NoTmpLeft, Waits
    <3>2. Works(h) \/ Fault(h) BY <2>1 DEF Handler
    <3> QED BY <2>1, <2>3, <3>1, <3>2, WaiterStays, WaiterFails
  <2>4. CASE OpensTmp(h) /\ call[h].path = p
    <3>1. pc'[h] = "writeTmp" /\ call'[h].path = p
      BY <2>4 DEF OpensTmp, Goto, TypeOK
    <3> QED BY <3>1 DEF Waits
  <2> QED BY <2>1, <2>2, <2>3, <2>4, TmpMade
<1>2. CASE Tick \/ UNCHANGED vars
  <2>1. UNCHANGED <<tmp, pc, call, remains>>
    BY <1>2 DEF Tick, vars, disk, handlerVars
  <2> QED BY <2>1 DEF NoTmpLeft, Waits
<1>3. CASE Crash
  <2>1. tmp' = tmp /\ remains' = remains \cup Abandoned(Handlers)
    BY <1>3 DEF Crash, disk
  <2> QED BY <2>1 DEF NoTmpLeft, Abandoned
<1> QED BY <1>1, <1>2, <1>3 DEF Next

\* A temporary file that no request in progress is about to write or rename is
\* one that a request died or failed with: those that succeed leave none, nor
\* do those that find it renamed by another, and none of the others outlives
\* the next rename of it.
THEOREM NoTmpIsLeft == Spec => []NoTmpLeft
<1>1. Init => NoTmpLeft BY DEF Init, NoTmpLeft
<1> QED BY <1>1, NoTmpLeftKept, TypesAlways, PTL DEF Spec

-----------------------------------------------------------------------------
(* What a handler has open stays apart from the other paths.               *)

\* What a handler opens is the file or the temporary file of its path, and a
\* read opens the file.
LEMMA WhatIsOpened ==
  ASSUME TypeOK, CallOK, NEW h \in Handlers, Handler(h), fd'[h] # 0
  PROVE  /\ call'[h].path \in Paths
         /\ fd'[h] \in {file'[call'[h].path], tmp'[call'[h].path]}
         /\ pc'[h] = "read" => fd'[h] = file'[call'[h].path]
<1>1. HandlerTypes /\ DiskTypes /\ HandlerOK(h) /\ HandlerOK(h)'
  BY TypeHalves, HandlerKeepsTypes DEF CallOK, Fits
<1>2. pc'[h] \in Holding BY <1>1 DEF HandlerOK
<1>3. ~ Answers(h) /\ ~ Fails(h)
  BY <1>1 DEF Answers, Fails, HandlerTypes
<1>4. FsRead(h) \/ OpensTmp(h) \/ OpensFile(h)
  <2>1. ~ CallFails(h) /\ ~ WriteFails(h) BY <1>3 DEF CallFails, WriteFails
  <2>2. ~ StatFails(h) BY <1>1, <1>2, CallWithoutTime DEF Holding
  <2>3. Works(h) BY <2>1, <2>2, WorksOrFails
  <2> QED BY <1>1, <1>2, <1>3, <2>3
     DEF HandlerTypes, Holding, Goto, Works, Write, ReadEnds, FsWrite, FsEdit,
         EditStats, EditReads, FsPatch, AddHunk, DeleteHunk, UpdateHunk, Removes,
         HunkWrites, HunkEnds, WriteStats, WritesTmp, Renames, WritesFile, WriteEnds
<1>5. CASE FsRead(h)
  <2>1. PICK p \in Paths :
          /\ fd'[h] = file[p]
          /\ call'[h] = Args(p, <<>>, "replace", mtime[file[p]])
    BY <1>1, <1>5 DEF FsRead, HandlerTypes
  <2> QED BY <1>5, <2>1 DEF FsRead, Args, disk
<1>6. CASE OpensTmp(h)
  <2>1. call[h].path \in Paths BY <1>6, PathOfCall DEF OpensTmp, Between
  <2> QED BY <1>1, <1>6, <2>1 DEF OpensTmp, HandlerTypes, DiskTypes, Goto
<1>7. CASE OpensFile(h)
  <2>1. call[h].path \in Paths BY <1>7, PathOfCall DEF OpensFile, Between
  <2> QED BY <1>1, <1>3, <1>7, <2>1 DEF OpensFile, HandlerTypes, DiskTypes, Goto, disk
<1> QED BY <1>4, <1>5, <1>6, <1>7

\* A step of a handler keeps apart what is open.
LEMMA HandlerKeepsApart ==
  ASSUME TypeOK, CallOK, InodesApart, NEW h \in Handlers, Handler(h)
  PROVE  InodesApart'
<1>1. TypeOK' /\ CallOK' /\ Alone(h) /\ HandlerTypes BY HandlerKeepsTypes, TypeHalves
<1>2. ASSUME NEW p \in Paths
      PROVE  /\ file'[p] \in {file[p], tmp[p], 0} \cup Fresh
             /\ tmp'[p] \in {tmp[p], 0} \cup Fresh
  BY DiskTypesKept
<1>3. ASSUME NEW g \in Handlers, g # h
      PROVE  /\ fd'[g] = fd[g] /\ pc'[g] = pc[g] /\ call'[g] = call[g]
             /\ fd[g] \notin Fresh
  BY <1>1, <1>3 DEF Alone, HandlerTypes, Fresh
<1> USE DEF InodesApart
<1>4. ASSUME NEW g \in Handlers, g # h, fd[g] # 0, NEW p \in Paths, p # call[g].path
      PROVE  fd[g] \notin {file'[p], tmp'[p]}
  BY <1>2, <1>3, <1>4
<1>5. ASSUME NEW p \in Paths, p # call'[h].path, fd'[h] # 0
      PROVE  fd'[h] \notin {file'[p], tmp'[p]}
  BY <1>1, <1>5, WhatIsOpened DEF TypeOK
<1>6. ASSUME NEW g \in Handlers, fd'[g] # 0, NEW p \in Paths, p # call'[g].path
      PROVE  fd'[g] \notin {file'[p], tmp'[p]}
  BY <1>3, <1>4, <1>5, <1>6
<1>7. ASSUME NEW g \in Handlers, g # h, fd'[g] # 0, fd'[g] = fd'[h]
      PROVE  call'[g].path = call'[h].path
  BY <1>6, <1>7, WhatIsOpened
<1>8. ASSUME NEW f \in Handlers, NEW g \in Handlers, fd'[f] # 0, fd'[f] = fd'[g]
      PROVE  call'[f].path = call'[g].path
  BY <1>3, <1>7, <1>8
<1>9. ASSUME NEW g \in Handlers, pc'[g] = "read" PROVE fd'[g] # tmp'[call'[g].path]
  <2>1. fd'[g] # 0 BY <1>1, <1>9 DEF CallOK, HandlerOK, Holding
  <2>2. CASE g = h BY <1>1, <1>9, <2>1, <2>2, WhatIsOpened DEF TypeOK
  <2>3. CASE g # h
    <3>1. call[g].path \in Paths BY <1>3, <1>9, <2>3
       DEF CallOK, HandlerOK, Between, Arguments
    <3> QED BY <1>2, <1>3, <1>9, <2>1, <2>3, <3>1
  <2> QED BY <2>2, <2>3
<1> QED BY <1>6, <1>8, <1>9

\* So does every step.
LEMMA ApartKept == ApartInv /\ [Next]_vars => ApartInv'
<1> SUFFICES ASSUME ApartInv, [Next]_vars PROVE ApartInv'
  OBVIOUS
<1> USE DEF ApartInv
<1>1. TypesInv' BY TypesKept
<1>2. CASE \E h \in Handlers : Handler(h)
  BY <1>1, <1>2, HandlerKeepsApart DEF TypesInv
<1>3. CASE Tick \/ UNCHANGED vars
  BY <1>1, <1>3 DEF Tick, vars, disk, handlerVars, InodesApart
<1>4. CASE Crash BY <1>1, <1>4 DEF Crash, InodesApart
<1> QED BY <1>2, <1>3, <1>4 DEF Next

-----------------------------------------------------------------------------
(* The path that one client writes.                                        *)

\* A handler leaves a path alone that its client does not write.
LEMMA Untouched ==
  ASSUME TypeOK, CallOK, InodesApart, NEW h \in Handlers, Handler(h),
         NEW p \in Paths, p \notin Writes[h]
  PROVE  /\ file'[p] = file[p] /\ tmp'[p] = tmp[p]
         /\ \A i \in {file[p], tmp[p]} \ {0} : data'[i] = data[i] /\ mtime'[i] = mtime[i]
<1>1. DiskTypes /\ HandlerTypes /\ HandlerOK(h) BY TypeHalves DEF CallOK
<1>2. fd[h] # 0 /\ pc[h] # "read" => fd[h] \notin {file[p], tmp[p]}
  <2>1. SUFFICES ASSUME fd[h] # 0, pc[h] # "read" PROVE fd[h] \notin {file[p], tmp[p]}
    OBVIOUS
  <2>2. call[h].path \in Writes[h]
    BY <1>1, <2>1 DEF HandlerOK, Holding, Between
  <2> QED BY <2>1, <2>2 DEF InodesApart
<1>3. CASE UNCHANGED disk BY <1>3 DEF disk
<1>4. CASE OpensTmp(h)
  <2> DEFINE q == call[h].path
             i == IF tmp[q] # 0 THEN tmp[q] ELSE NewInode
  <2>1. q \in Paths /\ q # p BY <1>4, PathOfCall DEF OpensTmp, Between
  <2>2. i = tmp[q] \/ i \in Fresh BY <2>1, NewInodeIsFresh
  <2>3. i # 0
    <3>1. 0 \notin Fresh BY Bounds DEF Fresh
    <3>2. tmp[q] = 0 => NewInode \in Fresh BY <2>1, NewInodeIsFresh
    <3> QED BY <3>1, <3>2
  <2>4. i \notin {file[p], tmp[p]} BY <1>1, <2>1, <2>2, <2>3 DEF DiskTypes, Fresh
  <2>5. /\ tmp' = [tmp EXCEPT ![q] = i]
        /\ data' = [data EXCEPT ![i] = <<>>]
        /\ mtime' = [mtime EXCEPT ![i] = now]
        /\ UNCHANGED file
    BY <1>4 DEF OpensTmp, TmpOpened
  <2> HIDE DEF q, i
  <2> QED BY <1>1, <2>1, <2>3, <2>4, <2>5 DEF DiskTypes
<1>5. CASE WritesTmp(h)
  <2>1. fd[h] # 0 /\ pc[h] # "read" BY <1>1, <1>5 DEF WritesTmp, HandlerOK, Holding
  <2> QED BY <1>1, <1>2, <1>5, <2>1 DEF WritesTmp, DiskTypes
<1>6. CASE Renames(h) /\ ~ RenameFails(h)
  <2>1. call[h].path # p BY <1>6, PathOfCall DEF Renames, Between
  <2> QED BY <1>1, <1>6, <2>1 DEF Renames, DiskTypes
<1>7. CASE Creates(h)
  <2>1. call[h].path \in Paths /\ call[h].path # p BY <1>7, PathOfCall DEF Creates, Between
  <2>2. NewInode \in Fresh BY <1>7, <2>1, NewInodeIsFresh DEF Creates
  <2>3. NewInode \notin {file[p], tmp[p]} BY <2>2 DEF Fresh
  <2> QED BY <1>1, <1>7, <2>1, <2>3 DEF Creates, DiskTypes
<1>8. CASE WritesFile(h)
  <2>1. fd[h] # 0 /\ pc[h] # "read" BY <1>1, <1>8 DEF WritesFile, HandlerOK, Holding
  <2> QED BY <1>1, <1>2, <1>8, <2>1 DEF WritesFile, DiskTypes
<1>9. CASE \E q \in Writes[h] : Unlinks(h, q) BY <1>1, <1>9 DEF Unlinks, DiskTypes
<1>10. CASE WriteFails(h)
  <2>1. fd[h] # 0 /\ pc[h] # "read"
    BY <1>1, <1>10 DEF WriteFails, HandlerOK, Holding
  <2>2. PICK d \in Seq(Nat) : data' = [data EXCEPT ![fd[h]] = d]
    BY <1>1, <1>10, PartWritten
  <2>3. mtime' \in {mtime, [mtime EXCEPT ![fd[h]] = now]} /\ UNCHANGED <<file, tmp>>
    BY <1>1, <1>10, PartWritten
  <2> QED BY <1>1, <1>2, <2>1, <2>2, <2>3 DEF DiskTypes
<1> QED BY <1>1, <1>3, <1>4, <1>5, <1>6, <1>7, <1>8, <1>9, <1>10, DiskSteps

\* What the client that alone writes a path relies on, no other handler takes
\* away.
LEMMA OthersKeepSole ==
  ASSUME TypesInv, InodesApart, NEW h \in Handlers, Handler(h),
         NEW g \in Handlers, g # h, pc[g] \notin Between \cup {"read"},
         Sole(call[g].path), SoleStep(g)
  PROVE  SoleStep(g)'
<1> DEFINE p == call[g].path
<1>1. /\ pc'[g] = pc[g] /\ call'[g] = call[g] /\ fd'[g] = fd[g]
  BY HandlerKeepsTypes, TypeHalves DEF TypesInv, Alone, HandlerTypes
<1>2. p \in Paths /\ p \notin Writes[h] BY PathOfCall DEF TypesInv, Sole
<1>3. /\ file'[p] = file[p] /\ tmp'[p] = tmp[p]
      /\ \A i \in {file[p], tmp[p]} \ {0} : data'[i] = data[i] /\ mtime'[i] = mtime[i]
  BY <1>2, Untouched DEF TypesInv
<1>4. pc[g] = "writeTmp" => fd[g] # 0 BY DEF TypesInv, CallOK, HandlerOK, Holding
<1> HIDE DEF p
<1>5. SoleStep(g)'
  BY <1>1, <1>3, <1>4 DEF SoleStep, p
<1> QED BY <1>5

\* Its own handler brings the write a step further.
LEMMA OwnKeepsSole ==
  ASSUME TypesInv, InodesApart, NEW h \in Handlers, Handler(h),
         pc[h] \notin Between \cup {"read"} => SoleStep(h)
  PROVE  SoleStep(h)'
<1> DEFINE p == call[h].path
           Sensitive == {"openTmp", "writeTmp", "rename", "restat", "remove"}
<1>1. DiskTypes /\ HandlerTypes /\ HandlerOK(h) BY TypeHalves DEF TypesInv, CallOK
<1>2. CASE pc'[h] \notin Sensitive BY <1>2 DEF SoleStep
<1>3. CASE StatFails(h)
  <2>1. pc'[h] \in {"openTmp", "open"} /\ call'[h].expected = 0
    BY <1>1, <1>3, CallWithoutTime
  <2> QED BY <2>1 DEF SoleStep
<1>4. CASE pc'[h] \in Sensitive /\ ~ StatFails(h)
  <2>1. ~ Answers(h) /\ ~ Fails(h) BY <1>1, <1>4 DEF Answers, Fails, Goto, HandlerTypes
  <2>2. \/ WriteStats(h) \/ OpensTmp(h) \/ WritesTmp(h) \/ Renames(h) \/ WritesFile(h)
        \/ WriteEnds(h)
    <3>1. ~ CallFails(h) /\ ~ WriteFails(h) BY <2>1 DEF CallFails, WriteFails
    <3>2. Works(h) BY <1>4, <3>1, WorksOrFails
    <3> QED BY <1>1, <1>4, <2>1, <3>2
       DEF HandlerTypes, Goto, Works, Write, FsRead, ReadEnds, FsWrite, FsEdit,
           EditStats, EditReads, FsPatch, AddHunk, DeleteHunk, UpdateHunk, Removes,
           HunkWrites, HunkEnds, OpensFile
  <2>3. p \in Paths /\ call[h] \in Arguments /\ SoleStep(h)
    BY <2>2, PathOfCall
      
         DEF TypesInv, WriteStats, OpensTmp, WritesTmp, Renames, WritesFile, WriteEnds,
             Between
  <2>4. CASE WriteStats(h)
    <3>1. /\ ~ Conflict(h) /\ pc'[h] \in {"openTmp", "open"}
          /\ UNCHANGED <<disk, call>>
      BY <1>1, <2>1, <2>4 DEF WriteStats, Goto, HandlerTypes
    <3> QED BY <3>1 DEF SoleStep, Conflict, disk
  <2>5. CASE OpensTmp(h)
    <3> DEFINE i == IF tmp[p] # 0 THEN tmp[p] ELSE NewInode
    <3>1. i \in Inodes /\ i # file[p] /\ i # 0
      <4>1. tmp[p] = 0 => NewInode \in Fresh BY <2>3, NewInodeIsFresh DEF TypesInv
      <4> QED BY <1>1, <2>3, <4>1, Bounds DEF DiskTypes, Fresh
    <3>2. /\ pc[h] = "openTmp" /\ pc'[h] = "writeTmp"
          /\ tmp' = [tmp EXCEPT ![p] = i] /\ fd'[h] = i
          /\ data' = [data EXCEPT ![i] = <<>>]
          /\ mtime' = [mtime EXCEPT ![i] = now]
          /\ UNCHANGED <<file, call>>
      BY <1>1, <2>5 DEF OpensTmp, TmpOpened, Goto, HandlerTypes
    <3> HIDE DEF i
    <3> QED BY <1>1, <2>3, <3>1, <3>2 DEF SoleStep, DiskTypes
  <2>6. CASE WritesTmp(h)
    <3>1. /\ pc[h] = "writeTmp" /\ pc'[h] = "rename"
          /\ data' = [data EXCEPT ![fd[h]] = Over(call[h].data, @)]
          /\ mtime' = [mtime EXCEPT ![fd[h]] = now]
          /\ UNCHANGED <<file, tmp, call>>
      BY <1>1, <2>6 DEF WritesTmp, Goto, HandlerTypes
    <3>2. fd[h] = tmp[p] /\ data[fd[h]] = <<>> BY <2>3, <3>1 DEF SoleStep
    <3>3. fd[h] \in Inodes /\ fd[h] # 0 BY <1>1, <3>1, Bounds
       DEF HandlerOK, Holding, HandlerTypes
    <3>4. Over(call[h].data, <<>>) = call[h].data
      <4>1. call[h].data \in Seq(Nat) /\ <<>> \in Seq(Nat) BY <2>3 DEF Arguments
      <4> QED BY <4>1, OverType
    <3>5. file[p] # fd[h] BY <1>1, <2>3, <3>2, <3>3 DEF DiskTypes
    <3>6. tmp'[p] # 0 /\ data'[tmp'[p]] = call'[h].data
      BY <1>1, <3>1, <3>2, <3>3, <3>4 DEF DiskTypes
    <3> QED BY <1>1, <2>3, <3>1, <3>3, <3>5, <3>6 DEF SoleStep, DiskTypes
  <2>7. CASE Renames(h)
    <3>1. /\ pc[h] = "rename" /\ pc'[h] = "restat"
          /\ file' = [file EXCEPT ![p] = tmp[p]]
          /\ UNCHANGED <<data, call>>
      BY <1>1, <2>1, <2>7 DEF Renames, Goto, HandlerTypes
    <3> QED BY <1>1, <2>3, <3>1 DEF SoleStep, DiskTypes
  <2>8. CASE WritesFile(h)
    BY <1>1, <2>8 DEF WritesFile, SoleStep, Goto, HandlerTypes, HandlerOK
  <2>9. CASE WriteEnds(h)
    <3>1. Moves(h)
      BY <1>1, <1>4, <2>1, <2>9 DEF WriteEnds, HunkEnds, Goto, HandlerTypes
    <3>2. pc[h] = "restat" /\ pc'[h] = "remove" /\ UNCHANGED <<disk, call>>
      BY <1>1, <2>1, <2>9, <3>1 DEF WriteEnds, Goto, HandlerTypes
    <3> QED BY <2>3, <3>2 DEF SoleStep, disk
  <2> QED BY <2>2, <2>4, <2>5, <2>6, <2>7, <2>8, <2>9
<1> QED BY <1>2, <1>3, <1>4

\* A request is about one path until its answer, a patch until its next hunk.
LEMMA PathStays ==
  ASSUME HandlerTypes, CallOK, NEW h \in Handlers, Handler(h),
         pc[h] \notin Between \cup {"read"}
  PROVE  call'[h].path = call[h].path \/ pc'[h] \in Between
<1> USE DEF Goto, HandlerTypes
<1>1. Answers(h) => pc'[h] \in Between BY DEF Answers, Between
<1>2. CASE EditReads(h)
  <2>1. CASE Fails(h) BY <1>1, <2>1 DEF Fails
  <2>2. CASE ~ Fails(h)
    <3>1. PICK text : call' = [call EXCEPT ![h].data = text] BY <1>2, <2>2 DEF EditReads
    <3>2. call'[h] = [call[h] EXCEPT !.data = text] BY <3>1
    <3>3. call[h] \in Arguments BY PathOfCall
    <3> QED BY <3>2, <3>3 DEF Arguments
  <2> QED BY <2>1, <2>2
<1>3. CASE Answers(h) \/ HunkEnds(h) BY <1>1, <1>3 DEF HunkEnds, Between
<1>4. CASE UNCHANGED call BY <1>4
<1>5. CASE StatFails(h)
  BY <1>5, CallWithoutTime DEF CallOK
<1>6. \/ StatFails(h) \/ EditReads(h) \/ Answers(h) \/ HunkEnds(h)
      \/ UNCHANGED call
  BY WorksOrFails
     DEF Between, Works, CallFails, WriteFails, Write, FsRead, ReadEnds, FsWrite,
         FsEdit, EditStats, FsPatch, AddHunk, DeleteHunk, UpdateHunk, Removes, Fails,
         Request, WriteStats, OpensTmp, WritesTmp, Renames, OpensFile, WritesFile,
         WriteEnds
<1> QED BY <1>2, <1>3, <1>4, <1>5, <1>6

\* Every step keeps what the client relies on.
LEMMA WriterKept == WriterInv /\ [Next]_vars => WriterInv'
<1> SUFFICES ASSUME WriterInv, [Next]_vars PROVE WriterInv'
  OBVIOUS
<1> USE DEF WriterInv
<1>1. ApartInv' BY ApartKept
<1>2. CASE \E h \in Handlers : Handler(h)
  <2>1. PICK h \in Handlers : Handler(h) BY <1>2
  <2>2. Alone(h) /\ HandlerTypes BY <2>1, HandlerKeepsTypes, TypeHalves
     DEF ApartInv, TypesInv
  <2>3. ASSUME NEW g \in Handlers, pc'[g] \notin Between \cup {"read"}, Sole(call'[g].path)
        PROVE  SoleStep(g)'
    <3>1. CASE g # h
      <4>1. pc'[g] = pc[g] /\ call'[g] = call[g] BY <2>2, <3>1 DEF Alone, HandlerTypes
      <4>2. SoleStep(g) BY <2>3, <4>1 DEF SoleInv
      <4> QED BY <2>1, <2>3, <3>1, <4>1, <4>2, OthersKeepSole DEF ApartInv
    <3>2. CASE g = h
      <4>1. CASE pc[h] \in Between \cup {"read"}
        BY <2>1, <3>2, <4>1, OwnKeepsSole DEF ApartInv
      <4>2. CASE pc[h] \notin Between \cup {"read"} /\ call'[h].path = call[h].path
        <5>1. SoleStep(h) BY <2>3, <3>2, <4>2 DEF SoleInv
        <5> QED BY <2>1, <3>2, <5>1, OwnKeepsSole DEF ApartInv
      <4>3. CASE pc[h] \notin Between \cup {"read"} /\ call'[h].path # call[h].path
        <5>1. pc'[h] \in Between
          BY <2>1, <2>2, <4>3, PathStays DEF ApartInv, TypesInv
        <5> QED BY <2>3, <3>2, <5>1
      <4> QED BY <4>1, <4>2, <4>3
    <3> QED BY <3>1, <3>2
  <2> QED BY <1>1, <2>3 DEF SoleInv
<1>3. CASE Tick \/ UNCHANGED vars
  <2>1. UNCHANGED <<file, tmp, data, mtime, pc, call, fd>>
    BY <1>3 DEF Tick, vars, disk, handlerVars
  <2> QED BY <1>1, <2>1 DEF SoleInv, SoleStep
<1>4. CASE Crash BY <1>1, <1>4 DEF Crash, SoleInv, Between
<1> QED BY <1>2, <1>3, <1>4 DEF Next

\* At the start no request is under way.
LEMMA InitWriter == Init => WriterInv
<1>1. Init => InodesApart BY DEF Init, InodesApart
<1>2. Init => SoleInv BY DEF Init, SoleInv, Between
<1> QED BY <1>1, <1>2, InitTypes DEF WriterInv, ApartInv, TypesInv

\* It holds in every state.
LEMMA WriterAlways == Spec => []WriterInv
BY InitWriter, WriterKept, PTL DEF Spec

\* The step that a move ends with leaves the content under the destination.
LEMMA MoveStep ==
  ASSUME WriterInv, NEW h \in Handlers, Removes(h), Exists(moving[h]), Sole(call[h].path)
  PROVE  file'[call[h].path] # 0 /\ data'[file'[call[h].path]] = call[h].data
<1>1. TypeOK /\ CallOK /\ HandlerOK(h)
  BY DEF WriterInv, ApartInv, TypesInv, CallOK
<1>2. pc[h] = "remove" BY DEF Removes
<1>3. call[h].path \in Paths BY <1>1, <1>2, PathOfCall DEF Between
<1>4. moving[h] # call[h].path /\ Atomic(call[h])
  BY <1>1, <1>2 DEF HandlerOK, Between, Atomic
<1>5. file[call[h].path] # 0 /\ data[file[call[h].path]] = call[h].data
  BY <1>2, <1>4 DEF WriterInv, SoleInv, SoleStep, Between
<1>6. file' = [file EXCEPT ![moving[h]] = 0] /\ UNCHANGED data
  BY DEF Removes, Exists
<1> QED BY <1>1, <1>3, <1>4, <1>5, <1>6 DEF TypeOK

\* A file that a patch moves is at its destination when its source goes, with
\* the content of the patch.
THEOREM MovesKeepContent == Spec => MoveKeepsContent
<1>1. WriterInv => \A h \in Handlers :
        Removes(h) /\ Exists(moving[h]) /\ Sole(call[h].path) =>
          file'[call[h].path] # 0 /\ data'[file'[call[h].path]] = call[h].data
  BY MoveStep
<1> QED BY <1>1, WriterAlways, PTL DEF MoveKeepsContent

\* The Rename of a write finds the mtime that its Stat has compared.
LEMMA GuardStep ==
  ASSUME WriterInv, NEW h \in Handlers, Renames(h), Sole(call[h].path),
         call[h].expected > 0, Exists(call[h].path)
  PROVE  mtime[file[call[h].path]] = call[h].expected
BY DEF Renames, Exists, WriterInv, SoleInv, SoleStep, Between

\* No write with expected_mtime replaces a file that has changed since, where
\* no other client writes it.
THEOREM GuardsHold == Spec => GuardHolds
<1>1. WriterInv => \A h \in Handlers :
        LET c == call[h] IN
        /\ Renames(h) /\ ~ RenameFails(h) /\ Sole(c.path)
        /\ c.expected > 0 /\ Exists(c.path)
        => mtime[file[c.path]] = c.expected
  BY GuardStep
<1> QED BY <1>1, WriterAlways, PTL DEF GuardHolds

-----------------------------------------------------------------------------
(* A path that is only replaced.                                           *)

\* A handler that answers or ends a hunk has nothing to write.
LEMMA EndsKeepMethod ==
  ASSUME HandlerTypes, NEW h \in Handlers, MethodKept(h),
         Answers(h) \/ Fails(h) \/ HunkEnds(h)
  PROVE  MethodKept(h)'
<1> USE DEF MethodKept, Goto, HandlerTypes, Between
<1>1. CASE Answers(h) BY <1>1 DEF Answers
<1>2. CASE left[h] # 0 /\ HunkEnds(h) BY <1>2 DEF HunkEnds
<1> QED BY <1>1, <1>2 DEF Fails, HunkEnds

\* A write to a path that is only replaced is atomic, and writes what was sent.
LEMMA HandlerKeepsMethod ==
  ASSUME TypesInv, NEW h \in Handlers, Handler(h), MethodKept(h)
  PROVE  MethodKept(h)'
<1> USE DEF Goto
<1>1. HandlerTypes /\ HandlerOK(h) BY TypeHalves DEF TypesInv, CallOK
<1>2. ASSUME Answers(h) \/ Fails(h) \/ HunkEnds(h) PROVE MethodKept(h)'
  BY <1>1, <1>2, EndsKeepMethod
<1>3. CASE FsWrite(h)
  <2>1. PICK p \in Writes[h], d \in Texts,
             m \in {"replace", "append", "create"} \cap Methods[h] :
          \E e \in Expectations(h, p) : call'[h] = Args(p, d, m, e)
    BY <1>1, <1>3 DEF FsWrite, HandlerTypes
  <2>2. call'[h].path = p /\ call'[h].data = d /\ call'[h].mode = m BY <2>1 DEF Args
  <2>3. Replaced(p) => m # "append" BY <2>1 DEF Replaced
  <2> QED BY <1>1, <1>3, <2>1, <2>2, <2>3
     DEF FsWrite, MethodKept, HandlerTypes, Atomic
<1>4. CASE FsEdit(h) BY <1>1, <1>4 DEF FsEdit, MethodKept, HandlerTypes
<1>5. CASE FsPatch(h)
  BY <1>1, <1>5 DEF FsPatch, MethodKept, HandlerTypes, Between
<1>6. CASE FsRead(h) BY <1>1, <1>6 DEF FsRead, MethodKept, HandlerTypes
<1>7. CASE EditStats(h) \/ EditReads(h)
  <2>1. CASE Fails(h) BY <1>2, <2>1
  <2>2. CASE ~ Fails(h)
    <3>1. "edit" \in Methods[h] BY <1>7 DEF EditStats, EditReads, MethodKept
    <3>2. call[h].path \in Writes[h] /\ pc[h] # "idle"
      BY <1>1, <1>7 DEF EditStats, EditReads, HandlerOK, Between
    <3>3. call'[h].path = call[h].path \/ pc'[h] \in Between
      BY <1>1, <1>7, PathStays DEF TypesInv, EditStats, EditReads, Between
    <3>4. ~ Replaced(call[h].path) BY <3>1, <3>2 DEF Replaced
    <3>5. UNCHANGED <<left, moving>> BY <1>7, <2>2 DEF EditStats, EditReads
    <3> QED BY <3>1, <3>3, <3>4, <3>5 DEF MethodKept, Between
  <2> QED BY <2>1, <2>2
<1>8. CASE AddHunk(h) \/ UpdateHunk(h)
  <2>1. CASE Fails(h) BY <1>2, <2>1
  <2>2. CASE ~ Fails(h)
    <3>0. \E p \in Writes[h] : \E d, mode : HunkWrites(h, p, d, mode)
      BY <1>8, <2>2 DEF AddHunk, UpdateHunk
    <3> PICK p \in Writes[h] : \E d, mode : HunkWrites(h, p, d, mode) BY <3>0
    <3>1. PICK d, mode : HunkWrites(h, p, d, mode) OBVIOUS
    <3>2. call'[h].path = p /\ pc'[h] = "stat" /\ left'[h] = left[h] - 1
      BY <1>1, <3>1 DEF HunkWrites, HandlerTypes, Args
    <3>3. "patch" \in Methods[h]
      BY <1>1, <1>8 DEF AddHunk, UpdateHunk, HandlerOK, MethodKept
    <3>4. ~ Replaced(p) BY <3>1, <3>3 DEF Replaced
    <3> QED BY <3>2, <3>3, <3>4 DEF MethodKept
  <2> QED BY <2>1, <2>2
<1>9. CASE DeleteHunk(h)
  <2>1. CASE Fails(h) BY <1>2, <2>1
  <2>2. CASE ~ Fails(h)
    <3>1. "patch" \in Methods[h] BY <1>1, <1>9 DEF DeleteHunk, HandlerOK, MethodKept
    <3>2. pc'[h] \in Between BY <1>1, <1>9, <2>2 DEF DeleteHunk, HandlerTypes, Between
    <3> QED BY <3>1, <3>2 DEF MethodKept, Between
  <2> QED BY <2>1, <2>2
<1>10. CASE /\ pc[h] \notin Between \cup {"read", "edit", "editRead"}
            /\ UNCHANGED <<call, left, moving>>
            /\ pc'[h] \notin {"edit", "editRead"}
  BY <1>10 DEF MethodKept
<1>11. CASE Write(h)
  BY <1>1, <1>2, <1>10, <1>11
     DEF Write, WriteStats, OpensTmp, WritesTmp, Renames, OpensFile, WritesFile, WriteEnds,
     HandlerTypes, Between
<1>12. CASE ReadEnds(h) \/ Removes(h) BY <1>2, <1>12 DEF ReadEnds, Removes
<1>13. CASE CallFails(h) \/ WriteFails(h) BY <1>2, <1>13 DEF CallFails, WriteFails
<1>14. CASE StatFails(h)
  <2>1. Atomic(call'[h]) <=> Atomic(call[h]) BY <1>1, <1>14, CallWithoutTime DEF Atomic
  <2>2. /\ pc[h] = "stat" /\ pc'[h] \in {"openTmp", "open"}
        /\ call'[h].path = call[h].path /\ call'[h].data = call[h].data
        /\ UNCHANGED <<left, moving>>
    BY <1>1, <1>14, CallWithoutTime
  <2> QED BY <2>1, <2>2 DEF MethodKept, Between
<1> QED BY <1>3, <1>4, <1>5, <1>6, <1>7, <1>8, <1>9, <1>11, <1>12, <1>13, <1>14,
           WorksOrFails
   DEF Works

\* The inode of a path that is only replaced, or the one somebody reads it
\* from, is not written: what is written is its temporary file.
LEMMA NotWritten ==
  ASSUME SentInv, NEW h \in Handlers, Handler(h), NEW p \in Paths, Replaced(p),
         NEW i \in Inodes, i # 0, i # tmp[p], i \notin Fresh,
         \A q \in Paths : q # p => i \notin {file[q], tmp[q]},
         fd[h] = i => call[h].path = p
  PROVE  data'[i] = data[i]
<1>1. DiskTypes /\ HandlerTypes /\ HandlerOK(h) /\ TypeOK /\ CallOK
  BY TypeHalves DEF SentInv, WriterInv, ApartInv, TypesInv, CallOK
<1>2. CASE UNCHANGED disk BY <1>2 DEF disk
<1>3. CASE OpensTmp(h)
  <2> DEFINE j == IF tmp[call[h].path] # 0 THEN tmp[call[h].path] ELSE NewInode
  <2>1. call[h].path \in Paths BY <1>1, <1>3, PathOfCall DEF OpensTmp, Between
  <2>2. tmp[call[h].path] = 0 => NewInode \in Fresh BY <1>1, <2>1, NewInodeIsFresh
  <2>3. i # j BY <2>1, <2>2
  <2>4. data' = [data EXCEPT ![j] = <<>>] BY <1>3 DEF OpensTmp, TmpOpened
  <2> HIDE DEF j
  <2> QED BY <1>1, <2>3, <2>4 DEF DiskTypes
<1>4. CASE WritesTmp(h)
  <2>1. fd[h] # i
    <3>1. SUFFICES ASSUME fd[h] = i PROVE FALSE
      OBVIOUS
    <3>2. pc[h] = "writeTmp" /\ call[h].path = p BY <1>4, <3>1 DEF WritesTmp
    <3>3. fd[h] = tmp[p]
      BY <3>2 DEF SentInv, WriterInv, SoleInv, SoleStep, Between, Replaced
    <3> QED BY <3>1, <3>3
  <2> QED BY <1>1, <1>4, <2>1 DEF WritesTmp, DiskTypes
<1>5. CASE Renames(h) /\ ~ RenameFails(h) BY <1>5 DEF Renames
<1>6. CASE Creates(h)
  <2>1. call[h].path \in Paths BY <1>1, <1>6, PathOfCall DEF Creates, Between
  <2>2. NewInode \in Fresh BY <1>1, <1>6, <2>1, NewInodeIsFresh DEF Creates
  <2> QED BY <1>1, <1>6, <2>2 DEF Creates, DiskTypes
<1>7. CASE WritesFile(h)
  <2>1. fd[h] # i
    <3>1. SUFFICES ASSUME fd[h] = i PROVE FALSE
      OBVIOUS
    <3>2. pc[h] = "write" /\ call[h].path = p BY <1>7, <3>1 DEF WritesFile
    <3>3. Atomic(call[h]) BY <3>2 DEF SentInv, MethodsKept, MethodKept, Between
    <3> QED BY <1>1, <3>2, <3>3 DEF HandlerOK
  <2> QED BY <1>1, <1>7, <2>1 DEF WritesFile, DiskTypes
<1>8. CASE \E q \in Writes[h] : Unlinks(h, q) BY <1>8 DEF Unlinks
<1>9. CASE WriteFails(h)
  <2>1. pc[h] \in {"writeTmp", "write"} BY <1>9 DEF WriteFails
  <2>2. fd[h] # i
    <3>1. SUFFICES ASSUME fd[h] = i PROVE FALSE
      OBVIOUS
    <3>2. call[h].path = p BY <3>1
    <3>3. Atomic(call[h]) BY <2>1, <3>2 DEF SentInv, MethodsKept, MethodKept, Between
    <3>4. pc[h] = "writeTmp" BY <1>1, <2>1, <3>3 DEF HandlerOK
    <3>5. fd[h] = tmp[p]
      BY <3>2, <3>4 DEF SentInv, WriterInv, SoleInv, SoleStep, Between, Replaced
    <3> QED BY <3>1, <3>5
  <2> QED BY <1>1, <1>9, <2>2, PartWritten DEF DiskTypes
<1> QED BY <1>1, <1>2, <1>3, <1>4, <1>5, <1>6, <1>7, <1>8, <1>9, DiskSteps

\* While it keeps its inode, the file of such a path keeps its content.
LEMMA FileStays ==
  ASSUME SentInv, NEW h \in Handlers, Handler(h), NEW p \in Paths, Replaced(p),
         file[p] # 0
  PROVE  data'[file[p]] = data[file[p]]
<1>1. DiskTypes /\ InodesApart BY TypeHalves DEF SentInv, WriterInv, ApartInv, TypesInv
<1>2. /\ file[p] \in Inodes /\ file[p] # tmp[p] /\ file[p] \notin Fresh
      /\ \A q \in Paths : q # p => file[p] \notin {file[q], tmp[q]}
  BY <1>1 DEF DiskTypes, Fresh
<1>3. fd[h] = file[p] => call[h].path = p BY <1>1 DEF InodesApart
<1> QED BY <1>2, <1>3, NotWritten

\* A client that patches writes no such path.
LEMMA NoPatch ==
  ASSUME SentInv, NEW h \in Handlers, NEW p \in Writes[h], Replaced(p)
  PROVE  pc[h] # "hunk" /\ left[h] = 0 /\ moving[h] = "none"
<1>1. left[h] \in Nat /\ HandlerOK(h)
  BY TypeHalves, FileAssumption
     DEF SentInv, WriterInv, ApartInv, TypesInv, CallOK, HandlerTypes
<1>2. "patch" \notin Methods[h] BY DEF Replaced
<1> QED BY <1>1, <1>2 DEF SentInv, MethodsKept, MethodKept, HandlerOK

\* It gets another inode when the temporary file is renamed, and by nothing
\* else, and has then the content of the write.
LEMMA FileReplaced ==
  ASSUME SentInv, NEW h \in Handlers, Handler(h), NEW p \in Paths, Replaced(p),
         file'[p] # file[p]
  PROVE  /\ Renames(h) /\ ~ RenameFails(h) /\ call[h].path = p
         /\ file'[p] # 0 /\ data'[file'[p]] = call[h].data /\ call[h].data \in Texts
<1>1. DiskTypes /\ HandlerTypes /\ HandlerOK(h) /\ TypeOK /\ CallOK
  BY TypeHalves DEF SentInv, WriterInv, ApartInv, TypesInv, CallOK
<1>2. \/ call[h].path = p /\ Renames(h) /\ ~ RenameFails(h)
      \/ call[h].path = p /\ Creates(h)
      \/ p \in Writes[h] /\ Unlinks(h, p)
  BY <1>1, DiskSteps
    
       DEF disk, OpensTmp, WritesTmp, Renames, Creates, WritesFile, WriteFails,
           Unlinks, DiskTypes
<1>3. ~ (p \in Writes[h] /\ Unlinks(h, p))
  BY <1>1, NoPatch DEF Unlinks, HandlerOK
<1>4. ~ (call[h].path = p /\ Creates(h))
  <2>1. SUFFICES ASSUME call[h].path = p, Creates(h) PROVE FALSE
    OBVIOUS
  <2>2. pc[h] = "open" /\ call[h].path = p BY <2>1 DEF Creates
  <2>3. Atomic(call[h]) BY <2>2 DEF SentInv, MethodsKept, MethodKept, Between
  <2> QED BY <1>1, <2>2, <2>3 DEF HandlerOK
<1>5. /\ call[h].path = p /\ Renames(h) /\ ~ RenameFails(h) /\ pc[h] = "rename"
      /\ file'[p] = tmp[p] /\ UNCHANGED data
  BY <1>1, <1>2, <1>3, <1>4 DEF Renames, DiskTypes
<1>6. tmp[p] # 0 /\ data[tmp[p]] = call[h].data
  BY <1>5 DEF SentInv, WriterInv, SoleInv, SoleStep, Between, Replaced
<1>7. call[h].data \in Texts BY <1>5 DEF SentInv, MethodsKept, MethodKept, Between
<1> QED BY <1>5, <1>6, <1>7

\* What it contains has been sent.
LEMMA FileIsSent ==
  ASSUME SentInv, NEW h \in Handlers, Handler(h), NEW p \in Paths, Replaced(p), file'[p] # 0
  PROVE  data'[file'[p]] \in Sent
<1>1. CASE file'[p] = file[p]
  BY <1>1, FileStays DEF SentInv, NoPartialFile, Exists, Content
<1>2. CASE file'[p] # file[p] BY <1>2, FileReplaced DEF Sent
<1> QED BY <1>1, <1>2

\* What somebody reads such a file from keeps its content.
LEMMA OpenStays ==
  ASSUME SentInv, NEW h \in Handlers, Handler(h),
         NEW g \in Handlers, pc[g] = "read", Replaced(call[g].path)
  PROVE  data'[fd[g]] = data[fd[g]]
<1> DEFINE p == call[g].path
<1>1. HandlerTypes /\ HandlerOK(g) /\ InodesApart
  BY TypeHalves DEF SentInv, WriterInv, ApartInv, TypesInv, CallOK
<1>2. p \in Paths BY <1>1 DEF HandlerOK, Between, Arguments
<1>3. fd[g] # 0 /\ fd[g] \in Inodes BY <1>1 DEF HandlerOK, Holding, HandlerTypes
<1>4. /\ fd[g] # tmp[p] /\ fd[g] \notin Fresh
      /\ \A q \in Paths : q # p => fd[g] \notin {file[q], tmp[q]}
      /\ fd[h] = fd[g] => call[h].path = p
  BY <1>1, <1>3 DEF InodesApart, Fresh
<1> QED BY <1>2, <1>3, <1>4, NotWritten

\* What it is open for has been sent.
LEMMA OpenIsSent ==
  ASSUME SentInv, NEW h \in Handlers, Handler(h),
         NEW g \in Handlers, pc'[g] = "read", Replaced(call'[g].path)
  PROVE  data'[fd'[g]] \in Sent
<1>1. HandlerTypes /\ TypeOK /\ CallOK /\ Alone(h) /\ HandlerOK(g)'
  BY TypeHalves, HandlerKeepsTypes DEF SentInv, WriterInv, ApartInv, TypesInv, CallOK
<1>2. CASE g = h
  <2>1. fd'[h] # 0 BY <1>1, <1>2 DEF HandlerOK, Holding
  <2>2. call'[h].path \in Paths /\ fd'[h] = file'[call'[h].path]
    BY <1>1, <1>2, <2>1, WhatIsOpened
  <2> QED BY <1>2, <2>1, <2>2, FileIsSent
<1>3. CASE g # h
  <2>1. pc'[g] = pc[g] /\ call'[g] = call[g] /\ fd'[g] = fd[g]
    BY <1>1, <1>3 DEF Alone, HandlerTypes
  <2> QED BY <2>1, OpenStays DEF SentInv, ReadIsSent
<1> QED BY <1>2, <1>3

\* What a client comes to know of it was sent.
LEMMA SeenIsSent ==
  ASSUME SentInv, NEW h \in Handlers, Handler(h),
         seen'[h] # NotSeen, Replaced(seen'[h].path)
  PROVE  seen'[h].data \in Sent
<1>1. HandlerTypes /\ HandlerOK(h) /\ TypeOK /\ CallOK
  BY TypeHalves DEF SentInv, WriterInv, ApartInv, TypesInv, CallOK
<1>2. CASE UNCHANGED seen BY <1>2 DEF SentInv, NoPartialRead
<1>3. CASE ReadEnds(h)
  <2>1. seen'[h].path = call[h].path /\ seen'[h].data = data[fd[h]] /\ pc[h] = "read"
    BY <1>1, <1>3 DEF ReadEnds, HandlerTypes
  <2> QED BY <2>1 DEF SentInv, ReadIsSent
<1>4. CASE WriteEnds(h) /\ ~ Fails(h)
  <2>1. /\ seen'[h].path = call[h].path /\ seen'[h].data = call[h].data
        /\ pc[h] = "restat"
    BY <1>1, <1>4 DEF WriteEnds, HandlerTypes
  <2> QED BY <2>1 DEF SentInv, MethodsKept, MethodKept, Between, Sent
<1>5. ReadEnds(h) \/ (WriteEnds(h) /\ ~ Fails(h)) \/ UNCHANGED seen
  BY WorksOrFails
     DEF Works, CallFails, WriteFails, StatFails, Write, FsRead, FsWrite, FsEdit,
         EditStats, EditReads, FsPatch, AddHunk, DeleteHunk, UpdateHunk, Removes,
         HunkWrites, Fails, WriteStats, OpensTmp, WritesTmp, Renames, OpensFile,
         WritesFile
<1> QED BY <1>2, <1>3, <1>4, <1>5

\* At the start every file has a content it may have at the start.
LEMMA InitIsSent == Init => NoPartialFile
<1> SUFFICES ASSUME Init, NEW p \in Paths, file[p] # 0 PROVE data[file[p]] \in Sent
  BY DEF NoPartialFile, Exists, Content
<1>1. PICK content \in [Paths -> Starts] :
        data = [i \in Inodes |->
                 IF \E q \in Paths : file[q] = i
                 THEN content[CHOOSE q \in Paths : file[q] = i] ELSE <<>>]
  BY DEF Init
<1>2. file[p] \in Inodes BY InitTypes DEF TypeOK
<1>3. (CHOOSE q \in Paths : file[q] = file[p]) \in Paths OBVIOUS
<1> QED BY <1>1, <1>2, <1>3 DEF Sent

\* Every step keeps what is sent whole.
LEMMA SentKept == SentInv /\ [Next]_vars => SentInv'
<1> SUFFICES ASSUME SentInv, [Next]_vars PROVE SentInv'
  OBVIOUS
<1>1. WriterInv' BY WriterKept DEF SentInv
<1>2. CASE \E h \in Handlers : Handler(h)
  <2>1. PICK h \in Handlers : Handler(h) BY <1>2
  <2>2. Alone(h) /\ HandlerTypes /\ TypesInv
    BY <2>1, HandlerKeepsTypes, TypeHalves DEF SentInv, WriterInv, ApartInv, TypesInv
  <2>3. ASSUME NEW g \in Handlers, g # h
        PROVE  /\ pc'[g] = pc[g] /\ call'[g] = call[g] /\ left'[g] = left[g]
               /\ moving'[g] = moving[g] /\ seen'[g] = seen[g]
    BY <2>2, <2>3 DEF Alone, HandlerTypes
  <2>4. ASSUME NEW g \in Handlers PROVE MethodKept(g)'
    <3>1. CASE g = h
      BY <2>1, <2>2, <3>1, HandlerKeepsMethod DEF SentInv, MethodsKept
    <3>2. CASE g # h
      <4>1. MethodKept(g) BY DEF SentInv, MethodsKept
      <4> QED BY <2>3, <3>2, <4>1 DEF MethodKept
    <3> QED BY <3>1, <3>2
  <2>5. ReadIsSent' BY <2>1, OpenIsSent DEF ReadIsSent
  <2>6. NoPartialFile' BY <2>1, FileIsSent DEF NoPartialFile, Exists, Content
  <2>7. ASSUME NEW g \in Handlers, seen'[g] # NotSeen, Replaced(seen'[g].path)
        PROVE  seen'[g].data \in Sent
    <3>1. CASE g = h BY <2>1, <2>7, <3>1, SeenIsSent
    <3>2. CASE g # h BY <2>3, <2>7, <3>2 DEF SentInv, NoPartialRead
    <3> QED BY <3>1, <3>2
  <2> QED BY <1>1, <2>4, <2>5, <2>6, <2>7 DEF SentInv, MethodsKept, NoPartialRead
<1>3. CASE Tick \/ UNCHANGED vars
  <2>1. UNCHANGED <<file, data, pc, call, fd, left, moving, seen>>
    BY <1>3 DEF Tick, vars, disk, handlerVars
  <2> QED BY <1>1, <2>1
     DEF SentInv, MethodsKept, MethodKept, ReadIsSent, NoPartialFile, NoPartialRead, Exists,
         Content
<1>4. CASE Crash
  <2>1. /\ pc' = [h \in Handlers |-> "idle"] /\ left' = [h \in Handlers |-> 0]
        /\ moving' = [h \in Handlers |-> "none"]
        /\ UNCHANGED <<file, data, seen>>
    BY <1>4 DEF Crash, disk
  <2>2. MethodsKept' /\ ReadIsSent' BY <2>1 DEF MethodsKept, MethodKept, ReadIsSent, Between
  <2> QED BY <1>1, <2>1, <2>2 DEF SentInv, NoPartialFile, NoPartialRead, Exists, Content
<1> QED BY <1>2, <1>3, <1>4 DEF Next

\* It holds in every state.
LEMMA SentAlways == Spec => []SentInv
<1>1. Init => MethodsKept /\ ReadIsSent /\ NoPartialRead
  BY DEF Init, MethodsKept, MethodKept, ReadIsSent, NoPartialRead, Between
<1>2. Init => SentInv BY <1>1, InitWriter, InitIsSent DEF SentInv
<1> QED BY <1>2, SentKept, PTL DEF Spec

\* The file that one client replaces is at all times one of the contents that
\* were sent, whole, also after the program has died within a write.
THEOREM FileIsWhole == Spec => []NoPartialFile
<1>1. SentInv => NoPartialFile BY DEF SentInv
<1> QED BY <1>1, SentAlways, PTL

\* Whoever reads such a file while it is replaced reads one of them, whole.
THEOREM ReadIsWhole == Spec => []NoPartialRead
<1>1. SentInv => NoPartialRead BY DEF SentInv
<1> QED BY <1>1, SentAlways, PTL

-----------------------------------------------------------------------------
(* FileService implements AtomicFiles.                                     *)

Phases == [g \in Handlers |-> Phase(g)]
Jobs == [g \in Handlers |-> Job(g)]
LastAnswers == [g \in Handlers |-> LastAnswer(g)]
Contents == [p \in Registers |-> ContentOf(p)]

\* A step of a handler is one of its client.
LEMMA OthersStay ==
  ASSUME SentInv, NEW h \in Handlers, Handler(h), NEW g \in Handlers, g # h
  PROVE  Phase(g)' = Phase(g) /\ Job(g)' = Job(g) /\ LastAnswer(g)' = LastAnswer(g)
<1>1. /\ pc'[g] = pc[g] /\ call'[g] = call[g] /\ fd'[g] = fd[g] /\ seen'[g] = seen[g]
  BY HandlerKeepsTypes, TypeHalves
     DEF SentInv, WriterInv, ApartInv, TypesInv, Alone, HandlerTypes
<1>2. Concerns(g)' <=> Concerns(g) BY <1>1 DEF Concerns, Registers, Replaced, Sole
<1>3. Concerns(g) /\ pc[g] = "read" => data'[fd[g]] = data[fd[g]]
  BY OpenStays DEF Concerns, Registers
<1>4. Phase(g)' = Phase(g) BY <1>1, <1>2 DEF Phase
<1>5. Job(g)' = Job(g) BY <1>1, <1>2, <1>3 DEF Job, About, Nothing
<1>6. LastAnswer(g)' = LastAnswer(g)
  BY <1>1 DEF LastAnswer, Registers, Replaced, Sole, About, Nothing
<1> QED BY <1>4, <1>5, <1>6

LEMMA StepOfClient ==
  ASSUME SentInv, NEW h \in Handlers, Handler(h)
  PROVE  /\ Phases' = [Phases EXCEPT ![h] = Phase(h)']
         /\ Jobs' = [Jobs EXCEPT ![h] = Job(h)']
         /\ LastAnswers' = [LastAnswers EXCEPT ![h] = LastAnswer(h)']
BY OthersStay DEF Phases, Jobs, LastAnswers

\* Contents are those of the files, except where a write takes effect.
LEMMA ContentsStay ==
  ASSUME SentInv, NEW h \in Handlers, Handler(h),
         ~ (Concerns(h) /\ Renames(h) /\ ~ RenameFails(h))
  PROVE  Contents' = Contents
<1>1. ASSUME NEW p \in Registers PROVE ContentOf(p)' = ContentOf(p)
  <2>1. p \in Paths /\ Replaced(p) BY DEF Registers
  <2>2. file'[p] = file[p]
    <3>1. SUFFICES ASSUME file'[p] # file[p] PROVE FALSE
      OBVIOUS
    <3>2. Renames(h) /\ ~ RenameFails(h) /\ call[h].path = p
      BY <2>1, <3>1, FileReplaced
    <3>3. Concerns(h) BY <3>2 DEF Concerns, Renames
    <3> QED BY <3>2, <3>3
  <2>3. file[p] # 0 => data'[file[p]] = data[file[p]] BY <2>1, FileStays
  <2> QED BY <2>2, <2>3 DEF ContentOf, Exists, Content
<1>2. Registers' = Registers BY DEF Registers, Replaced, Sole
<1> QED BY <1>1, <1>2 DEF Contents

\* The request of a handler that is about such a file, and what it has done.
LEMMA Concerned ==
  ASSUME SentInv, NEW h \in Handlers, Concerns(h)
  PROVE  /\ call[h].path \in Registers /\ call[h].path \in Paths
         /\ Replaced(call[h].path)
         /\ pc[h] # "read" =>
              /\ pc[h] \in {"stat", "openTmp", "writeTmp", "rename", "restat"}
              /\ call[h].path \in Writes[h] /\ call[h].data \in Texts
              /\ left[h] = 0 /\ moving[h] = "none"
              /\ pc[h] = "rename" => tmp[call[h].path] # 0
              /\ pc[h] = "restat" => file[call[h].path] # 0
<1>1. /\ call[h].path \in Registers /\ call[h].path \in Paths /\ Replaced(call[h].path)
      /\ pc[h] \notin Between
  BY DEF Concerns, Registers, Between
<1>2. HandlerTypes /\ HandlerOK(h) /\ MethodKept(h)
  BY TypeHalves DEF SentInv, WriterInv, ApartInv, TypesInv, CallOK, MethodsKept
<1>3. CASE pc[h] = "read" BY <1>1, <1>3
<1>4. CASE pc[h] # "read"
  <2>1. call[h].path \in Writes[h] BY <1>1, <1>2, <1>4 DEF HandlerOK
  <2>2. left[h] = 0 /\ moving[h] = "none" BY <1>1, <2>1, NoPatch
  <2>3. pc[h] \notin {"edit", "editRead"}
    BY <1>1, <1>2, <2>1 DEF MethodKept, Replaced
  <2>4. call[h].data \in Texts /\ Atomic(call[h])
    BY <1>1, <1>2, <1>4, <2>3 DEF MethodKept
  <2>5. pc[h] \notin {"open", "write", "remove"}
    BY <1>2, <2>2, <2>4 DEF HandlerOK
  <2>6. pc[h] \in {"stat", "openTmp", "writeTmp", "rename", "restat"}
    BY <1>1, <1>2, <1>4, <2>3, <2>5 DEF HandlerTypes, Steps, Between
  <2>7. SoleStep(h)
    BY <1>1, <1>4 DEF SentInv, WriterInv, SoleInv, Replaced
  <2>8. /\ pc[h] = "rename" => tmp[call[h].path] # 0
        /\ pc[h] = "restat" => file[call[h].path] # 0
    BY <2>4, <2>7 DEF SoleStep
  <2> QED BY <1>1, <2>1, <2>2, <2>4, <2>6, <2>8
<1> QED BY <1>3, <1>4

\* The next state, as AtomicFiles has it.
LEMMA Registered == Registers' = Registers
BY DEF Registers, Replaced, Sole

\* A request for another file changes nothing but what was answered before.
LEMMA MapsElsewhere ==
  ASSUME SentInv, NEW h \in Handlers, Handler(h), ~ Concerns(h), ~ Concerns(h)'
  PROVE  Replacement!TurnsAway(h) \/ UNCHANGED Replacement!vars
<1>1. HandlerTypes BY TypeHalves DEF SentInv, WriterInv, ApartInv, TypesInv
<1>2. Contents' = Contents BY ContentsStay
<1>3. Phase(h) = "idle" /\ Phase(h)' = "idle" /\ Job(h) = Nothing /\ Job(h)' = Nothing
  BY DEF Phase, Job, Nothing, About
<1>4. LastAnswer(h)' \in {LastAnswer(h), Nothing}
  <2>1. CASE UNCHANGED seen
    BY <2>1, Registered DEF LastAnswer, Nothing, About
  <2>2. CASE ReadEnds(h) \/ (WriteEnds(h) /\ ~ Fails(h))
    <3>1. pc[h] \in {"read", "restat"} BY <2>2 DEF ReadEnds, WriteEnds
    <3>2. call[h].path \notin Registers BY <3>1 DEF Concerns
    <3>3. seen'[h] = NotSeen \/ seen'[h].path = call[h].path
      BY <1>1, <2>2 DEF ReadEnds, WriteEnds, HandlerTypes
    <3> QED BY <3>2, <3>3, Registered DEF LastAnswer, Nothing, About
  <2>3. ReadEnds(h) \/ (WriteEnds(h) /\ ~ Fails(h)) \/ UNCHANGED seen
    BY WorksOrFails
       DEF Works, CallFails, WriteFails, StatFails, Write, FsRead, FsWrite, FsEdit,
           EditStats, EditReads, FsPatch, AddHunk, DeleteHunk, UpdateHunk, Removes,
           HunkWrites, Fails, WriteStats, OpensTmp, WritesTmp, Renames, OpensFile,
           WritesFile
  <2> QED BY <2>1, <2>2, <2>3
<1>5. Phases' = Phases /\ Jobs' = Jobs
  BY <1>3, StepOfClient DEF Phases, Jobs
<1>6. LastAnswers' = LastAnswers \/ LastAnswers' = [LastAnswers EXCEPT ![h] = Nothing]
  BY <1>4, StepOfClient DEF LastAnswers
<1> QED BY <1>2, <1>3, <1>5, <1>6
   DEF Replacement!TurnsAway, Replacement!vars, Replacement!Nothing, Phases, Jobs,
       LastAnswers, Contents, Nothing, About

\* A read or a write of such a file begins.
LEMMA MapsStart ==
  ASSUME SentInv, NEW h \in Handlers, Handler(h), ~ Concerns(h), Concerns(h)'
  PROVE  Replacement!Read(h) \/ Replacement!Write(h)
<1>1. HandlerTypes /\ HandlerOK(h) /\ CallOK
  BY TypeHalves DEF SentInv, WriterInv, ApartInv, TypesInv, CallOK
<1>2. call'[h].path \in Registers /\ pc'[h] \notin Between
  <2>1. (call[h].path \in Registers)' /\ (pc[h] \notin Between)'
    BY DEF Concerns, Between
  <2> QED BY <2>1, Registered
<1>3. pc[h] \in Between
  <2>1. CASE pc[h] = "read"
    <3>1. ~ CallFails(h) /\ ~ WriteFails(h) /\ ~ StatFails(h)
      BY <1>1, <1>2, <2>1
         DEF CallFails, WriteFails, StatFails, Fails, Answers, Goto, HandlerTypes, Between
    <3>2. Works(h) BY <3>1, WorksOrFails
    <3> QED BY <1>1, <1>2, <2>1, <3>2
       DEF Works, Write, FsRead, ReadEnds, FsWrite, FsEdit, EditStats, EditReads, FsPatch,
           AddHunk, DeleteHunk, UpdateHunk, Removes, HunkWrites, WriteStats, OpensTmp,
           WritesTmp, Renames, OpensFile, WritesFile, WriteEnds, Request, Answers, Goto,
           HandlerTypes, Between
  <2>2. CASE pc[h] \notin Between \cup {"read"}
    <3>1. call'[h].path = call[h].path BY <1>1, <1>2, <2>2, PathStays
    <3> QED BY <1>2, <2>2, <3>1 DEF Concerns, Between
  <2> QED BY <2>1, <2>2
<1>4. ~ (AddHunk(h) \/ UpdateHunk(h))
  <2>1. SUFFICES ASSUME AddHunk(h) \/ UpdateHunk(h) PROVE FALSE
    OBVIOUS
  <2>2. ~ Fails(h) BY <1>1, <1>2 DEF Fails, Answers, Goto, HandlerTypes, Between
  <2>3. \E p \in Writes[h] : \E d, mode : HunkWrites(h, p, d, mode)
    BY <2>1, <2>2 DEF AddHunk, UpdateHunk
  <2>4. call'[h].path \in Writes[h] BY <1>1, <2>3 DEF HunkWrites, HandlerTypes, Args
  <2>5. pc[h] = "hunk" BY <2>1 DEF AddHunk, UpdateHunk
  <2> QED BY <1>2, <2>4, <2>5, NoPatch DEF Registers
<1>5. ~ FsEdit(h)
  <2>1. SUFFICES ASSUME FsEdit(h) PROVE FALSE
    OBVIOUS
  <2>2. PICK p \in Writes[h], old \in Texts \cup {<<>>}, new \in Texts, all \in BOOLEAN :
          \E e \in Expectations(h, p) :
            /\ old # new
            /\ call' = [call EXCEPT ![h] =
                 [Args(p, new, "replace", e) EXCEPT !.old = old, !.all = all]]
    BY <2>1, Zenon DEF FsEdit
  <2>3. call'[h].path = p BY <1>1, <2>2 DEF Args, HandlerTypes
  <2>4. "edit" \in Methods[h] BY <2>1 DEF FsEdit
  <2> QED BY <1>2, <2>3, <2>4 DEF Registers, Replaced
<1>6. FsRead(h) \/ FsWrite(h)
  <2>1. ~ CallFails(h) /\ ~ WriteFails(h) /\ ~ StatFails(h)
    BY <1>1, <1>2, <1>3
       DEF CallFails, WriteFails, StatFails, Fails, Answers, Goto, HandlerTypes, Between
  <2>2. Works(h) BY <2>1, WorksOrFails
  <2> QED BY <1>1, <1>2, <1>3, <1>4, <1>5, <2>2
     DEF Works, Write, ReadEnds, EditStats, EditReads, FsPatch, DeleteHunk, Fails, Answers,
         Removes, WriteStats, OpensTmp, WritesTmp, Renames,
         OpensFile, WritesFile, WriteEnds, Goto, HandlerTypes, Between
<1>7. Contents' = Contents BY ContentsStay
<1>8. Phase(h) = "idle" /\ Job(h) = Nothing BY DEF Phase, Job
<1>9. LastAnswers' = LastAnswers
  <2>1. UNCHANGED seen BY <1>6 DEF FsRead, FsWrite
  <2>2. LastAnswer(h)' = LastAnswer(h)
    BY <2>1, Registered DEF LastAnswer, Nothing, About
  <2> QED BY <2>2, StepOfClient DEF LastAnswers
<1>10. CASE FsRead(h)
  <2>1. PICK p \in Paths :
          /\ file[p] # 0 /\ fd'[h] = file[p]
          /\ call'[h] = Args(p, <<>>, "replace", mtime[file[p]])
    BY <1>1, <1>10 DEF FsRead, HandlerTypes
  <2>2. call'[h].path = p /\ pc'[h] = "read" /\ UNCHANGED data
    BY <1>1, <1>10, <2>1 DEF FsRead, Args, Goto, HandlerTypes, disk
  <2>3. p \in Registers BY <1>2, <2>2
  <2>4. Phase(h)' = "reading" BY <2>2 DEF Phase
  <2>5. Job(h)' = About(p, data[file[p]]) BY <2>1, <2>2 DEF Job
  <2>6. data[file[p]] \in Contents[p]
    BY <2>1, <2>3 DEF Contents, ContentOf, Exists, Content
  <2>7. Phases[h] = "idle" BY <1>8 DEF Phases
  <2>8. /\ Phases' = [Phases EXCEPT ![h] = "reading"]
        /\ Jobs' = [Jobs EXCEPT ![h] = [file |-> p, data |-> data[file[p]]]]
    BY <2>4, <2>5, StepOfClient DEF About
  <2>9. Replacement!Begins(h, "reading", p, data[file[p]])
    BY <1>7, <1>9, <2>7, <2>8
       DEF Replacement!Begins, Phases, Jobs, LastAnswers, Contents
  <2> QED BY <2>3, <2>6, <2>9 DEF Replacement!Read, Contents
<1>11. CASE FsWrite(h)
  <2>1. pc'[h] = "stat" BY <1>1, <1>11 DEF FsWrite, Goto, HandlerTypes
  <2>2. PICK p \in Writes[h], d \in Texts,
             m \in {"replace", "append", "create"} \cap Methods[h] :
          \E e \in Expectations(h, p) : call'[h] = Args(p, d, m, e)
    BY <1>1, <1>11 DEF FsWrite, HandlerTypes
  <2>3. call'[h].path \in Writes[h] \cap Registers /\ call'[h].data \in Sent
    BY <1>2, <2>2 DEF Args, Sent
  <2>4. Phase(h)' = "writing" BY <2>1 DEF Phase
  <2>5. Job(h)' = About(call'[h].path, call'[h].data) BY <2>1 DEF Job
  <2>6. Phases[h] = "idle" BY <1>8 DEF Phases
  <2>7. /\ Phases' = [Phases EXCEPT ![h] = "writing"]
        /\ Jobs' = [Jobs EXCEPT ![h] = [file |-> call'[h].path, data |-> call'[h].data]]
    BY <2>4, <2>5, StepOfClient DEF About
  <2>8. Replacement!Begins(h, "writing", call'[h].path, call'[h].data)
    BY <1>7, <1>9, <2>6, <2>7
       DEF Replacement!Begins, Phases, Jobs, LastAnswers, Contents
  <2> QED BY <2>3, <2>8 DEF Replacement!Write
<1> QED BY <1>6, <1>10, <1>11

\* A request that is answered, or fails, is over.
LEMMA RequestEnds ==
  ASSUME HandlerTypes, NEW h \in Handlers, Answers(h)
  PROVE  Phase(h)' = "idle" /\ Job(h)' = Nothing
<1>1. pc'[h] = "idle" BY DEF Answers, Goto, HandlerTypes
<1>2. ~ Concerns(h)' BY <1>1 DEF Concerns
<1> QED BY <1>2 DEF Phase, Job

\* A rename that succeeds is not the end of a request.
LEMMA RenamesGoesOn ==
  ASSUME HandlerTypes, NEW h \in Handlers, Renames(h), ~ RenameFails(h)
  PROVE  ~ Answers(h)
BY DEF Renames, Answers, Goto, HandlerTypes

\* The steps of a read or a write of such a file.
LEMMA MapsStep ==
  ASSUME SentInv, NEW h \in Handlers, Handler(h), Concerns(h)
  PROVE  \/ Replacement!TakesEffect(h) \/ Replacement!Answers(h) \/ Replacement!Refuses(h)
         \/ UNCHANGED Replacement!vars
<1> DEFINE p == call[h].path
<1>1. HandlerTypes /\ DiskTypes
  BY TypeHalves DEF SentInv, WriterInv, ApartInv, TypesInv
<1>2. p \in Registers /\ p \in Paths /\ Replaced(p)
  BY Concerned
<1>3. pc[h] # "read" =>
        /\ pc[h] \in {"stat", "openTmp", "writeTmp", "rename", "restat"}
        /\ call[h].data \in Texts /\ left[h] = 0 /\ moving[h] = "none"
        /\ pc[h] = "rename" => tmp[p] # 0
        /\ pc[h] = "restat" => file[p] # 0
  BY Concerned
<1>4. Nothing = Replacement!Nothing BY DEF Nothing, About, Replacement!Nothing
<1>5. ASSUME Contents' = Contents, Phase(h)' = Phase(h), Job(h)' = Job(h),
             LastAnswer(h)' = LastAnswer(h)
      PROVE  UNCHANGED Replacement!vars
  <2>1. Phases' = Phases /\ Jobs' = Jobs /\ LastAnswers' = LastAnswers
    BY <1>5, StepOfClient DEF Phases, Jobs, LastAnswers
  <2> QED BY <1>5, <2>1 DEF Replacement!vars, Phases, Jobs, LastAnswers, Contents
<1>6. ASSUME Phase(h) # "idle", Phase(h)' = "idle", Job(h)' = Nothing,
             UNCHANGED seen, Contents' = Contents
      PROVE  Replacement!Refuses(h)
  <2>1. LastAnswer(h)' = LastAnswer(h)
    BY <1>6, Registered DEF LastAnswer, Nothing, About
  <2>2. LastAnswers' = LastAnswers BY <2>1, StepOfClient DEF LastAnswers
  <2>3. /\ Phases[h] # "idle" /\ Phases' = [Phases EXCEPT ![h] = "idle"]
        /\ Jobs' = [Jobs EXCEPT ![h] = Replacement!Nothing]
    BY <1>4, <1>6, StepOfClient DEF Phases
  <2> QED BY <1>6, <2>2, <2>3
     DEF Replacement!Refuses, Replacement!Ends, Phases, Jobs, LastAnswers, Contents
<1>7. ASSUME Phase(h) \in {"reading", "written"}, Phase(h)' = "idle", Job(h)' = Nothing,
             LastAnswer(h)' = Job(h), Contents' = Contents
      PROVE  Replacement!Answers(h)
  <2>1. /\ Phases[h] \in {"reading", "written"} /\ Phases' = [Phases EXCEPT ![h] = "idle"]
        /\ Jobs' = [Jobs EXCEPT ![h] = Replacement!Nothing]
        /\ LastAnswers' = [LastAnswers EXCEPT ![h] = Jobs[h]]
    BY <1>4, <1>7, StepOfClient DEF Phases, Jobs
  <2> QED BY <1>7, <2>1
     DEF Replacement!Answers, Replacement!Ends, Phases, Jobs, LastAnswers, Contents
<1>8. CASE Works(h) /\ pc[h] = "read"
  <2>1. ReadEnds(h)
    BY <1>8 DEF Works, Write, FsRead, FsWrite, FsEdit, EditStats, EditReads, FsPatch,
       AddHunk, DeleteHunk, UpdateHunk, Removes, WriteStats, OpensTmp, WritesTmp, Renames,
       OpensFile, WritesFile, WriteEnds, Request
  <2>2. Answers(h) /\ Contents' = Contents
    BY <1>8, <2>1, ContentsStay DEF ReadEnds, Renames
  <2>3. Phase(h)' = "idle" /\ Job(h)' = Nothing BY <1>1, <2>2, RequestEnds
  <2>4. Phase(h) = "reading" /\ Job(h) = About(p, data[fd[h]]) BY <1>8 DEF Phase, Job
  <2>5. seen'[h].path = p /\ seen'[h].data = data[fd[h]] /\ seen'[h] # NotSeen
    <3>1. seen'[h] = [path |-> p, data |-> data[fd[h]], mtime |-> call[h].expected]
      BY <1>1, <2>1 DEF ReadEnds, HandlerTypes
    <3> QED BY <3>1 DEF NotSeen
  <2>6. LastAnswer(h)' = Job(h) BY <1>2, <2>4, <2>5, Registered DEF LastAnswer
  <2> QED BY <1>7, <2>2, <2>3, <2>4, <2>6
<1>9. CASE Works(h) /\ pc[h] \in {"stat", "openTmp", "writeTmp"}
  <2>1. Contents' = Contents BY <1>9, ContentsStay DEF Renames
  <2>2. Phase(h) = "writing" BY <1>9 DEF Phase
  <2>3. WriteStats(h) \/ OpensTmp(h) \/ WritesTmp(h)
    BY <1>9 DEF Works, Write, FsRead, ReadEnds, FsWrite, FsEdit, EditStats, EditReads,
       FsPatch, AddHunk, DeleteHunk, UpdateHunk, Removes, Renames, OpensFile, WritesFile,
       WriteEnds, Request
  <2>4. CASE Fails(h)
    <3>1. Phase(h)' = "idle" /\ Job(h)' = Nothing BY <1>1, <2>4, RequestEnds DEF Fails
    <3> QED BY <1>6, <2>1, <2>2, <2>4, <3>1 DEF Fails
  <2>5. CASE ~ Fails(h)
    <3>1. /\ pc'[h] \in {"openTmp", "open", "writeTmp", "rename"}
          /\ UNCHANGED <<call, seen>>
      BY <1>1, <2>3, <2>5 DEF WriteStats, OpensTmp, WritesTmp, Goto, HandlerTypes
    <3>2. Concerns(h)' BY <1>2, <3>1, Registered DEF Concerns
    <3>3. Phase(h)' = Phase(h) BY <2>2, <3>1, <3>2 DEF Phase
    <3>4. Job(h)' = Job(h) BY <1>9, <3>1, <3>2 DEF Job
    <3>5. LastAnswer(h)' = LastAnswer(h)
      BY <3>1, Registered DEF LastAnswer, Nothing, About
    <3> QED BY <1>5, <2>1, <3>3, <3>4, <3>5
  <2> QED BY <2>4, <2>5
<1>10. CASE Works(h) /\ pc[h] = "rename"
  <2>1. Renames(h)
    BY <1>10 DEF Works, Write, FsRead, ReadEnds, FsWrite, FsEdit, EditStats, EditReads,
       FsPatch, AddHunk, DeleteHunk, UpdateHunk, Removes, WriteStats, OpensTmp, WritesTmp,
       OpensFile, WritesFile, WriteEnds, Request
  <2>2. ~ RenameFails(h) BY <1>3, <1>10 DEF RenameFails
  <2>3. pc'[h] = "restat" /\ file' = [file EXCEPT ![p] = tmp[p]] /\ UNCHANGED <<call, seen>>
    BY <1>1, <2>1, <2>2 DEF Renames, Goto, HandlerTypes
  <2>4. Concerns(h)' BY <1>2, <2>3, Registered DEF Concerns
  <2>5. Phase(h) = "writing" /\ Phase(h)' = "written" BY <1>10, <2>3, <2>4 DEF Phase
  <2>6. Job(h)' = Job(h) /\ Job(h) = About(p, call[h].data)
    BY <1>10, <2>3, <2>4 DEF Job
  <2>7. LastAnswer(h)' = LastAnswer(h) BY <2>3, Registered DEF LastAnswer, Nothing, About
  <2>8. file'[p] # file[p]
    BY <1>1, <1>2, <1>3, <1>10, <2>3 DEF DiskTypes
  <2> PICK r \in Registers : r = p BY <1>2
  <2>9. ContentOf(r)' = {call[h].data}
    BY <1>2, <2>8, FileReplaced DEF ContentOf, Exists, Content
  <2>10. ASSUME NEW q \in Registers, q # r PROVE ContentOf(q)' = ContentOf(q)
    <3>1. q \in Paths /\ Replaced(q) BY DEF Registers
    <3>2. file'[q] = file[q] BY <2>10, <3>1, FileReplaced
    <3>3. file[q] # 0 => data'[file[q]] = data[file[q]] BY <3>1, FileStays
    <3> QED BY <3>2, <3>3 DEF ContentOf, Exists, Content
  <2>11. Contents' = [Contents EXCEPT ![r] = {call[h].data}]
    BY <2>9, <2>10, Registered DEF Contents
  <2>12. /\ Phases[h] = "writing" /\ Phases' = [Phases EXCEPT ![h] = "written"]
         /\ Jobs' = Jobs /\ LastAnswers' = LastAnswers
    BY <2>5, <2>6, <2>7, StepOfClient DEF Phases, Jobs, LastAnswers
  <2>13. Jobs[h].file = r /\ Jobs[h].data = call[h].data BY <2>6 DEF Jobs, About
  <2>14. Replacement!TakesEffect(h)
    BY <2>11, <2>12, <2>13
       DEF Replacement!TakesEffect, Phases, Jobs, LastAnswers, Contents
  <2> QED BY <2>14
<1>11. CASE Works(h) /\ pc[h] = "restat"
  <2>1. WriteEnds(h)
    BY <1>11 DEF Works, Write, FsRead, ReadEnds, FsWrite, FsEdit, EditStats, EditReads,
       FsPatch, AddHunk, DeleteHunk, UpdateHunk, Removes, WriteStats, OpensTmp, WritesTmp,
       Renames, OpensFile, WritesFile, Request
  <2>2. Contents' = Contents BY <1>11, ContentsStay DEF Renames
  <2>3. Answers(h)
    BY <1>3, <1>11, <2>1 DEF WriteEnds, Moves, HunkEnds
  <2>4. Phase(h)' = "idle" /\ Job(h)' = Nothing BY <1>1, <2>3, RequestEnds
  <2>5. Phase(h) = "written" /\ Job(h) = About(p, call[h].data) BY <1>11 DEF Phase, Job
  <2>6. Atomic(call[h])
    BY <1>2, <1>11 DEF SentInv, MethodsKept, MethodKept, Between
  <2>7. seen'[h].path = p /\ seen'[h].data = call[h].data /\ seen'[h] # NotSeen
    <3>1. seen'[h] = [path |-> p, data |-> call[h].data, mtime |-> mtime[file[p]]]
      BY <1>1, <1>3, <1>11, <2>1, <2>6 DEF WriteEnds, Atomic, HandlerTypes
    <3> QED BY <3>1 DEF NotSeen
  <2>8. LastAnswer(h)' = Job(h) BY <1>2, <2>5, <2>7, Registered DEF LastAnswer
  <2> QED BY <1>7, <2>2, <2>4, <2>5, <2>8
<1>12. CASE CallFails(h) \/ WriteFails(h)
  <2>1. Answers(h) /\ UNCHANGED seen BY <1>12 DEF CallFails, WriteFails, Fails
  <2>2. Phase(h)' = "idle" /\ Job(h)' = Nothing BY <1>1, <2>1, RequestEnds
  <2>3. Phase(h) # "idle" BY DEF Phase
  <2>4. ~ (Renames(h) /\ ~ RenameFails(h))
    BY <1>1, <2>1, RenamesGoesOn
  <2>5. Contents' = Contents BY <2>4, ContentsStay
  <2> QED BY <1>6, <2>1, <2>2, <2>3, <2>5
<1>13. CASE StatFails(h)
  <2>1. /\ pc[h] = "stat" /\ pc'[h] \in {"openTmp", "open"}
        /\ call'[h].path = p /\ call'[h].data = call[h].data /\ UNCHANGED seen
    BY <1>1, <1>13, CallWithoutTime
       DEF SentInv, WriterInv, ApartInv, TypesInv, CallOK
  <2>2. Contents' = Contents BY <2>1, ContentsStay DEF Renames
  <2>3. Concerns(h)' BY <1>2, <2>1, Registered DEF Concerns
  <2>4. Phase(h)' = Phase(h) /\ Job(h)' = Job(h) BY <2>1, <2>3 DEF Phase, Job
  <2>5. LastAnswer(h)' = LastAnswer(h) BY <2>1, Registered DEF LastAnswer, Nothing, About
  <2> QED BY <1>5, <2>2, <2>4, <2>5
<1> QED BY <1>3, <1>8, <1>9, <1>10, <1>11, <1>12, <1>13, WorksOrFails

\* Where the program dies, requests end and the files stay.
LEMMA MapsCrash == Crash => Replacement!Dies
<1> SUFFICES ASSUME Crash PROVE Replacement!Dies
  OBVIOUS
<1>1. /\ pc' = [h \in Handlers |-> "idle"]
      /\ UNCHANGED <<file, data, seen>>
  BY DEF Crash, disk
<1>2. ASSUME NEW h \in Handlers
      PROVE  Phase(h)' = "idle" /\ Job(h)' = Nothing /\ LastAnswer(h)' = LastAnswer(h)
  <2>1. ~ Concerns(h)' BY <1>1 DEF Concerns
  <2>2. LastAnswer(h)' = LastAnswer(h) BY <1>1, Registered DEF LastAnswer, Nothing, About
  <2> QED BY <2>1, <2>2 DEF Phase, Job
<1>3. ASSUME NEW p \in Registers PROVE ContentOf(p)' = ContentOf(p)
  BY <1>1 DEF ContentOf, Exists, Content
<1>4. /\ Phases' = [h \in Handlers |-> "idle"] /\ Jobs' = [h \in Handlers |-> Nothing]
      /\ LastAnswers' = LastAnswers
  BY <1>2 DEF Phases, Jobs, LastAnswers
<1>5. Contents' = Contents BY <1>3, Registered DEF Contents
<1> QED BY <1>4, <1>5
   DEF Replacement!Dies, Replacement!Nothing, Nothing, About, Phases, Jobs, LastAnswers,
       Contents

\* At the start the files have what they may have, and no request is made.
LEMMA MapsInit == Init => Replacement!Init
<1> SUFFICES ASSUME Init PROVE Replacement!Init
  OBVIOUS
<1>1. NoPartialFile BY InitIsSent
<1>2. ASSUME NEW p \in Registers PROVE ContentOf(p) \in {{}} \cup {{d} : d \in Sent}
  BY <1>1 DEF NoPartialFile, ContentOf, Registers
<1>3. ASSUME NEW h \in Handlers
      PROVE  Phase(h) = "idle" /\ Job(h) = Nothing /\ LastAnswer(h) = Nothing
  <2>1. pc[h] = "idle" /\ seen[h] = NotSeen BY DEF Init
  <2> QED BY <2>1 DEF Phase, Job, LastAnswer, Concerns
<1> QED BY <1>2, <1>3 DEF Replacement!Init, Replacement!Nothing, Nothing, About

\* Every step is one of AtomicFiles, or none.
LEMMA MapsNext == SentInv /\ [Next]_vars => [Replacement!Next]_(Replacement!vars)
<1> SUFFICES ASSUME SentInv, [Next]_vars
             PROVE  Replacement!Next \/ UNCHANGED Replacement!vars
  OBVIOUS
<1>1. ASSUME NEW h \in Handlers, Handler(h)
      PROVE  Replacement!Next \/ UNCHANGED Replacement!vars
  <2>1. CASE Concerns(h) BY <1>1, <2>1, MapsStep DEF Replacement!Next
  <2>2. CASE ~ Concerns(h) /\ Concerns(h)' BY <1>1, <2>2, MapsStart DEF Replacement!Next
  <2>3. CASE ~ Concerns(h) /\ ~ Concerns(h)'
    BY <1>1, <2>3, MapsElsewhere DEF Replacement!Next
  <2> QED BY <2>1, <2>2, <2>3
<1>2. CASE Tick \/ UNCHANGED vars
  <2>1. UNCHANGED <<file, data, pc, call, fd, seen>>
    BY <1>2 DEF Tick, vars, disk, handlerVars
  <2>2. ASSUME NEW h \in Handlers
        PROVE  /\ Phase(h)' = Phase(h) /\ Job(h)' = Job(h)
               /\ LastAnswer(h)' = LastAnswer(h)
    BY <2>1, Registered DEF Phase, Job, LastAnswer, Concerns, About, Nothing
  <2>3. ASSUME NEW p \in Registers PROVE ContentOf(p)' = ContentOf(p)
    BY <2>1 DEF ContentOf, Exists, Content
  <2> QED BY <2>2, <2>3, Registered DEF Replacement!vars
<1>3. CASE Crash BY <1>3, MapsCrash DEF Replacement!Next
<1> QED BY <1>1, <1>2, <1>3 DEF Next

\* FileService implements AtomicFiles: a write of the client that alone replaces
\* a file takes effect at once, between request and answer, or never; a read
\* answers what the file then contained; and what has taken effect outlives the
\* program.
THEOREM WritesTakeEffectAtOnce == Spec => WritesAreAtomic
BY MapsInit, MapsNext, SentAlways, PTL DEF Spec, WritesAreAtomic, Replacement!Spec
=============================================================================

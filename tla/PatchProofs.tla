---------------------------- MODULE PatchProofs -----------------------------
(***************************************************************************)
(* Theorems about PatchRequest, for every tree, text and working           *)
(* directory, and every sequence of allowed roots.                         *)
(***************************************************************************)
EXTENDS SplicingProofs, PatchClaims
LOCAL INSTANCE FiniteSetsExt
LOCAL INSTANCE SequencesExt

-----------------------------------------------------------------------------
(* Paths and the text of a patch.                                          *)

\* The front and the last of a sequence.
LEMMA FrontAndLast ==
  ASSUME NEW D, NEW s \in Seq(D), s # <<>>
  PROVE  /\ Front(s) \in Seq(D) /\ Len(Front(s)) = Len(s) - 1
         /\ \A i \in 1..(Len(s) - 1) : Front(s)[i] = s[i]
         /\ Len(s) \in 1..Len(s) /\ Last(s) \in D
<1>1. Len(s) \in Nat \ {0} BY EmptySeq
<1>2. \A i \in 1..(Len(s) - 1) : s[i] \in D BY <1>1
<1>3. /\ Front(s) \in Seq(D) /\ Len(Front(s)) = Len(s) - 1
      /\ \A i \in 1..(Len(s) - 1) : Front(s)[i] = s[i]
  <2> DEFINE m == Len(s) - 1
  <2>1. m \in Int /\ 1 \in Int BY <1>1
  <2>2. /\ SubSeq(s, 1, m) \in Seq(D)
        /\ Len(SubSeq(s, 1, m)) = IF 1 <= m THEN m - 1 + 1 ELSE 0
        /\ \A i \in 1..(m - 1 + 1) : SubSeq(s, 1, m)[i] = s[1 + i - 1]
    <3> HIDE DEF m
    <3> QED BY <1>2, <2>1, SubSeqProperties DEF m
  <2>3. Front(s) = SubSeq(s, 1, m) BY DEF Front
  <2>4. \A i \in 1..m : 1 + i - 1 = i /\ i \in 1..(m - 1 + 1) BY <1>1
  <2>5. m \in Nat BY <1>1
  <2> HIDE DEF m
  <2>6. Len(SubSeq(s, 1, m)) = m BY <2>2, <2>5
  <2> QED BY <2>2, <2>3, <2>4, <2>6 DEF m
<1>4. Last(s) \in D BY <1>1 DEF Last
<1> QED BY <1>1, <1>3, <1>4

\* Cleaning a path gives a path of the same names.
LEMMA CleanType ==
  ASSUME NEW D, NEW parts \in Seq(D)
  PROVE  Clean(parts) \in Seq(D)
<1> DEFINE Cleans(f) == f = [i \in 0..Len(parts) |->
             IF i = 0 THEN <<>> ELSE Enter(f[i - 1], parts[i])]
           step == [i \in 1..Len(parts) |-> [done \in Seq(D) |-> Enter(done, parts[i])]]
           f == CHOOSE done : Cleans(done)
           S == {i \in Nat : i \in 0..Len(parts) => f[i] \in Seq(D)}
<1>1. Len(parts) \in Nat OBVIOUS
<1>2. ASSUME NEW done \in Seq(D), NEW i \in 1..Len(parts)
      PROVE  Enter(done, parts[i]) \in Seq(D)
  <2>1. parts[i] \in D OBVIOUS
  <2>2. done # <<>> => Front(done) \in Seq(D) BY FrontAndLast
  <2>3. Append(done, parts[i]) \in Seq(D) BY <2>1, AppendProperties
  <2> QED BY <2>2, <2>3 DEF Enter
<1>3. <<>> \in Seq(D) OBVIOUS
<1>4. \E g : Cleans(g)
  <2>1. step \in [1..Len(parts) -> [Seq(D) -> Seq(D)]] BY <1>2
  <2> HIDE DEF step
  <2>2. PICK g \in [0..Len(parts) -> Seq(D)] : Follows(g, <<>>, step, Len(parts))
    BY <1>1, <1>3, <2>1, RecursionExists
  <2>3. g[0] = <<>> /\ \A i \in 1..Len(parts) : g[i] = step[i][g[i - 1]] BY <2>2 DEF Follows
  <2>4. ASSUME NEW i \in 1..Len(parts) PROVE g[i] = Enter(g[i - 1], parts[i])
    <3>1. g[i - 1] \in Seq(D) BY <1>1
    <3>2. step[i][g[i - 1]] = Enter(g[i - 1], parts[i]) BY <3>1 DEF step
    <3> QED BY <2>3, <3>2
  <2>5. \A i \in 0..Len(parts) : g[i] = IF i = 0 THEN <<>> ELSE Enter(g[i - 1], parts[i])
    BY <1>1, <2>3, <2>4
  <2>6. g = [i \in 0..Len(parts) |-> g[i]] BY <2>2
  <2> QED BY <2>5, <2>6
<1>5. Cleans(f) BY <1>4
<1>6. Clean(parts) = f[Len(parts)] BY DEF Clean
<1> HIDE DEF f
<1>7. 0 \in S BY <1>3, <1>5
<1>8. ASSUME NEW i \in Nat, i \in S PROVE i + 1 \in S
  <2> SUFFICES ASSUME i + 1 \in 0..Len(parts) PROVE f[i + 1] \in Seq(D)
    OBVIOUS
  <2>1. f[i] \in Seq(D) BY <1>1, <1>8
  <2>2. f[i + 1] = Enter(f[i], parts[i + 1]) BY <1>5
  <2> QED BY <1>1, <1>2, <2>1, <2>2
<1>9. Nat \subseteq S
  <2> HIDE DEF S
  <2> QED BY <1>7, <1>8, NatInductionOnSets
<1> QED BY <1>1, <1>6, <1>9

\* The directory of a session is made of names.
LEMMA SessionCwdType ==
  ASSUME NEW asked \in Seq(Path)
  PROVE  SessionCwd(asked) \in Seq(Name)
<1> DEFINE filtered == {i \in DOMAIN asked : Contains(AllowedRoots, asked[i])}
<1>1. CASE filtered # {}
  <2>1. filtered \in SUBSET Nat OBVIOUS
  <2>2. \E i \in filtered : \A j \in filtered : i <= j BY <1>1, <2>1, LeastNumber
  <2>3. (CHOOSE i \in filtered : \A j \in filtered : i <= j) \in filtered BY <2>2
  <2>4. \A i \in filtered : asked[i] \in Seq(Name) BY RootsAssumption DEF Contains
  <2>5. SessionCwd(asked) = asked[CHOOSE i \in filtered : \A j \in filtered : i <= j]
    BY <1>1 DEF SessionCwd
  <2> HIDE DEF filtered
  <2> QED BY <2>3, <2>4, <2>5
<1>2. CASE filtered = {}
  <2>1. AllowedRoots # <<>> => AllowedRoots[1] \in Seq(Name)
    BY RootsAssumption, EmptySeq
  <2> QED BY <1>2, <2>1 DEF SessionCwd
<1> QED BY <1>1, <1>2

\* What a request resolves to is one cleaned path.
LEMMA ResolvePathType ==
  ASSUME NEW dir \in Seq(Name), NEW p \in WrittenPath
  PROVE  ResolvePath(dir, p) \subseteq Seq(Name)
<1>1. Candidate(dir, p) \in Seq(Name) BY ConcatProperties DEF Candidate, WrittenPath
<1> QED BY <1>1, CleanType DEF ResolvePath

\* A sequence of one.
LEMMA OneOf == ASSUME NEW D, NEW e \in D PROVE <<e>> \in Seq(D) /\ Len(<<e>>) = 1
OBVIOUS

\* Names make a path, and the temporary file of it has a path, an other one.
LEMMA TmpOfType ==
  ASSUME NEW path \in Seq(Name)
  PROVE  path \in Path /\ TmpOf(path) \in Path /\ TmpOf(path) # path
<1>1. path \in Seq(STRING) BY NameAssumption, SeqMonotonic
<1>2. CASE path = <<>>
  <2>1. TmpOf(path) = <<NoNameTmp>> BY <1>2 DEF TmpOf
  <2>2. NoNameTmp \in STRING BY NameAssumption
  <2>3. <<NoNameTmp>> \in Seq(STRING) /\ Len(<<NoNameTmp>>) = 1 BY <2>2, OneOf
  <2>4. Len(path) = 0 BY <1>2
  <2> QED BY <1>1, <2>1, <2>3, <2>4 DEF Path
<1>3. CASE path # <<>>
  <2> DEFINE front == Front(path)
             tmp == TmpName[Last(path)]
  <2>1. /\ front \in Seq(STRING) /\ Len(front) = Len(path) - 1
        /\ Len(path) \in Nat /\ Last(path) \in Name
    BY <1>1, <1>3, FrontAndLast
  <2>2. tmp \in STRING /\ tmp # Last(path) BY <2>1, NameAssumption
  <2>3. TmpOf(path) = Append(front, tmp) BY <1>3 DEF TmpOf
  <2> HIDE DEF front, tmp
  <2>4. /\ Append(front, tmp) \in Seq(STRING)
        /\ Append(front, tmp)[Len(front) + 1] = tmp
    BY <2>1, <2>2, AppendProperties
  <2>5. Append(front, tmp)[Len(path)] = tmp BY <2>1, <2>4
  <2>6. path[Len(path)] # tmp BY <2>2 DEF Last
  <2> QED BY <1>1, <2>3, <2>4, <2>5, <2>6 DEF Path
<1> QED BY <1>2, <1>3

\* The last of a sequence, replaced.
LEMMA LastReplaced ==
  ASSUME NEW D, NEW s \in Seq(D), s # <<>>, NEW e \in D
  PROVE  /\ [s EXCEPT ![Len(s)] = e] \in Seq(D)
         /\ [s EXCEPT ![Len(s)] = e] # <<>>
         /\ Last([s EXCEPT ![Len(s)] = e]) = e
<1>1. Len(s) \in 1..Len(s) BY FrontAndLast
<1>2. /\ [s EXCEPT ![Len(s)] = e] \in Seq(D)
      /\ Len([s EXCEPT ![Len(s)] = e]) = Len(s)
      /\ [s EXCEPT ![Len(s)] = e][Len(s)] = e
  BY <1>1, ExceptSeq
<1>3. Len(s) # 0 BY <1>1
<1> QED BY <1>2, <1>3, EmptySeq DEF Last

\* Where the parser is under a header it has a hunk, and in a chunk a chunk.
ParserState ==
  {s \in [at : {"before", "top", "add", "delete", "headed", "update", "chunk", "ended", "error"},
          hunks : Seq(Hunk)] :
     /\ s.at \in {"add", "delete", "headed", "update", "chunk"} => s.hunks # <<>>
     /\ s.at = "chunk" => Last(s.hunks).chunks # <<>>}

\* A header begins a hunk, or gives the last one its target, or ends it.
LEMMA HeaderType ==
  ASSUME NEW s \in ParserState, NEW l \in PatchLine, l.kind \in Stars
  PROVE  Header(s, l) \in ParserState
<1>1. s.hunks \in Seq(Hunk) /\ l.path \in WrittenPath BY DEF ParserState, PatchLine
<1>2. NoPath \in WrittenPath BY DEF NoPath, WrittenPath, Path
<1>3. CASE l.kind \in {"add", "delete", "update"}
  <2>1. NewHunk(l.kind, l.path) \in Hunk
    <3>1. <<>> \in Seq(Line) /\ <<>> \in Seq(Chunk) OBVIOUS
    <3> QED BY <1>1, <1>2, <1>3, <3>1 DEF NewHunk, Hunk
  <2>2. /\ Append(s.hunks, NewHunk(l.kind, l.path)) \in Seq(Hunk)
        /\ Append(s.hunks, NewHunk(l.kind, l.path)) # <<>>
    BY <1>1, <2>1, AppendProperties
  <2> QED BY <1>3, <2>2 DEF Header, ParserState
<1>4. CASE l.kind = "move" /\ s.at = "headed"
  <2>1. s.hunks # <<>> BY <1>4 DEF ParserState
  <2>2. Last(s.hunks) \in Hunk BY <1>1, <2>1, FrontAndLast
  <2>3. [Last(s.hunks) EXCEPT !.move = l.path] \in Hunk BY <1>1, <2>2 DEF Hunk
  <2>4. Header(s, l) =
          [at |-> IF l.path = NoPath THEN "error" ELSE "update",
           hunks |-> [s.hunks EXCEPT ![Len(s.hunks)] = [Last(s.hunks) EXCEPT !.move = l.path]]]
    BY <1>4 DEF Header, OnLast, Last
  <2>5. /\ [s.hunks EXCEPT ![Len(s.hunks)] = [Last(s.hunks) EXCEPT !.move = l.path]] \in Seq(Hunk)
        /\ [s.hunks EXCEPT ![Len(s.hunks)] = [Last(s.hunks) EXCEPT !.move = l.path]] # <<>>
    BY <1>1, <2>1, <2>3, LastReplaced
  <2> QED BY <2>4, <2>5 DEF ParserState
<1>5. CASE l.kind \notin {"add", "delete", "update"} /\ ~ (l.kind = "move" /\ s.at = "headed")
  BY <1>5 DEF Header, ParserState
<1> QED BY <1>3, <1>4, <1>5

\* A line of an added file.
LEMMA AddedLineType ==
  ASSUME NEW s \in ParserState, NEW l \in PatchLine, s.at = "add"
  PROVE  AddedLine(s, l) \in ParserState
<1>1. s.hunks \in Seq(Hunk) /\ s.hunks # <<>> /\ l.line \in Line BY DEF ParserState, PatchLine
<1>2. Last(s.hunks) \in Hunk BY <1>1, FrontAndLast
<1> DEFINE h == [Last(s.hunks) EXCEPT !.contents = Append(@, l.line)]
<1>3. h \in Hunk
  <2>1. Append(Last(s.hunks).contents, l.line) \in Seq(Line)
    BY <1>1, <1>2, AppendProperties DEF Hunk
  <2> QED BY <1>2, <2>1 DEF Hunk
<1>4. AddedLine(s, l) = [s EXCEPT !.hunks = [s.hunks EXCEPT ![Len(s.hunks)] = h]]
  BY DEF AddedLine, OnLast, Last
<1> HIDE DEF h
<1>5. /\ [s.hunks EXCEPT ![Len(s.hunks)] = h] \in Seq(Hunk)
      /\ [s.hunks EXCEPT ![Len(s.hunks)] = h] # <<>>
  BY <1>1, <1>3, LastReplaced
<1> QED BY <1>4, <1>5 DEF ParserState

\* A chunk begins.
LEMMA NewChunkType ==
  ASSUME NEW s \in ParserState, NEW l \in PatchLine, s.at \in {"headed", "update", "chunk"}
  PROVE  NewChunk(s, l) \in ParserState
<1> DEFINE chunk == [context |-> [l.line EXCEPT !.lead = NoSpace, !.trail = NoSpace],
                     old |-> <<>>, new |-> <<>>]
           h == [Last(s.hunks) EXCEPT !.chunks = Append(@, chunk)]
<1>1. s.hunks \in Seq(Hunk) /\ s.hunks # <<>> /\ l.line \in Line BY DEF ParserState, PatchLine
<1>2. Last(s.hunks) \in Hunk BY <1>1, FrontAndLast
<1>3. chunk \in Chunk
  <2>1. [l.line EXCEPT !.lead = NoSpace, !.trail = NoSpace] \in Line
    BY <1>1, LineTextAssumption DEF Line
  <2> QED BY <2>1 DEF Chunk
<1> HIDE DEF chunk
<1>4. h \in Hunk /\ h.chunks # <<>>
  <2>1. /\ Append(Last(s.hunks).chunks, chunk) \in Seq(Chunk)
        /\ Append(Last(s.hunks).chunks, chunk) # <<>>
    BY <1>2, <1>3, AppendProperties DEF Hunk
  <2> QED BY <1>2, <2>1 DEF Hunk
<1>5. NewChunk(s, l) = [at |-> "chunk", hunks |-> [s.hunks EXCEPT ![Len(s.hunks)] = h]]
  BY DEF NewChunk, OnLast, Last, chunk
<1> HIDE DEF h
<1>6. /\ [s.hunks EXCEPT ![Len(s.hunks)] = h] \in Seq(Hunk)
      /\ [s.hunks EXCEPT ![Len(s.hunks)] = h] # <<>>
      /\ Last([s.hunks EXCEPT ![Len(s.hunks)] = h]) = h
  BY <1>1, <1>4, LastReplaced
<1> QED BY <1>4, <1>5, <1>6 DEF ParserState

\* A line of a chunk.
LEMMA ChangedLineType ==
  ASSUME NEW s \in ParserState, NEW l \in PatchLine, s.at = "chunk"
  PROVE  ChangedLine(s, l) \in ParserState
<1> DEFINE cs == Last(s.hunks).chunks
           chunk == Change(Last(cs), l)
           h == [Last(s.hunks) EXCEPT !.chunks = [cs EXCEPT ![Len(cs)] = chunk]]
<1>1. /\ s.hunks \in Seq(Hunk) /\ s.hunks # <<>> /\ l.line \in Line
      /\ cs # <<>>
  BY DEF ParserState, PatchLine
<1>2. Last(s.hunks) \in Hunk BY <1>1, FrontAndLast
<1>3. cs \in Seq(Chunk) BY <1>2 DEF Hunk
<1>4. chunk \in Chunk
  <2> DEFINE c == Last(cs)
  <2>1. c \in Chunk BY <1>1, <1>3, FrontAndLast
  <2>2. Append(c.old, l.line) \in Seq(Line) /\ Append(c.new, l.line) \in Seq(Line)
    BY <1>1, <2>1, AppendProperties DEF Chunk
  <2> HIDE DEF c
  <2> QED BY <2>1, <2>2 DEF Change, Chunk, c
<1>5. ChangedLine(s, l) = [s EXCEPT !.hunks = [s.hunks EXCEPT ![Len(s.hunks)] = h]]
  BY DEF ChangedLine, OnLast, Last
<1>6. h \in Hunk /\ h.chunks # <<>>
  <2> HIDE DEF cs, chunk
  <2>1. /\ [cs EXCEPT ![Len(cs)] = chunk] \in Seq(Chunk)
        /\ [cs EXCEPT ![Len(cs)] = chunk] # <<>>
    BY <1>1, <1>3, <1>4, LastReplaced
  <2> QED BY <1>2, <2>1 DEF Hunk
<1> HIDE DEF h
<1>7. /\ [s.hunks EXCEPT ![Len(s.hunks)] = h] \in Seq(Hunk)
      /\ [s.hunks EXCEPT ![Len(s.hunks)] = h] # <<>>
      /\ Last([s.hunks EXCEPT ![Len(s.hunks)] = h]) = h
  BY <1>1, <1>6, LastReplaced
<1> QED BY <1>5, <1>6, <1>7 DEF ParserState

\* A line leaves the parser in a state of it.
LEMMA ReadLineType ==
  ASSUME NEW s \in ParserState, NEW l \in PatchLine
  PROVE  ReadLine(s, l) \in ParserState
<1>1. /\ [s EXCEPT !.at = "top"] \in ParserState
      /\ [s EXCEPT !.at = "ended"] \in ParserState
  BY DEF ParserState
<1>2. s.at = "headed" => [s EXCEPT !.at = "update"] \in ParserState BY DEF ParserState
<1>3. l.kind \in Stars => Header(s, l) \in ParserState BY HeaderType
<1>4. s.at = "add" => AddedLine(s, l) \in ParserState BY AddedLineType
<1>5. s.at \in {"headed", "update", "chunk"} => NewChunk(s, l) \in ParserState BY NewChunkType
<1>6. s.at = "chunk" => ChangedLine(s, l) \in ParserState BY ChangedLineType
<1> QED BY <1>1, <1>2, <1>3, <1>4, <1>5, <1>6 DEF ReadLine

\* The states it is in from line to line.
LEMMA ReadTextSteps ==
  ASSUME NEW text \in Seq(PatchLine)
  PROVE  \E f : /\ f[0] = Start /\ f[Len(text)] = ReadText(text)
                /\ \A i \in 1..Len(text) : f[i] = ReadLine(f[i - 1], text[i])
                /\ \A i \in 0..Len(text) : f[i] \in ParserState
<1> DEFINE Reads(f) == f = [i \in 0..Len(text) |->
             IF i = 0 THEN Start ELSE ReadLine(f[i - 1], text[i])]
           step == [i \in 1..Len(text) |-> [s \in ParserState |-> ReadLine(s, text[i])]]
           f == CHOOSE read : Reads(read)
           S == {i \in Nat : i \in 0..Len(text) => f[i] \in ParserState}
<1>1. Len(text) \in Nat OBVIOUS
<1>2. ASSUME NEW s \in ParserState, NEW i \in 1..Len(text)
      PROVE  ReadLine(s, text[i]) \in ParserState
  BY ReadLineType
<1>3. Start \in ParserState BY DEF Start, ParserState
<1>4. \E g : Reads(g)
  <2>1. step \in [1..Len(text) -> [ParserState -> ParserState]] BY <1>2
  <2> HIDE DEF step
  <2>2. PICK g \in [0..Len(text) -> ParserState] : Follows(g, Start, step, Len(text))
    BY <1>1, <1>3, <2>1, RecursionExists
  <2>3. g[0] = Start /\ \A i \in 1..Len(text) : g[i] = step[i][g[i - 1]] BY <2>2 DEF Follows
  <2>4. ASSUME NEW i \in 1..Len(text) PROVE g[i] = ReadLine(g[i - 1], text[i])
    <3>1. g[i - 1] \in ParserState BY <1>1
    <3>2. step[i][g[i - 1]] = ReadLine(g[i - 1], text[i]) BY <3>1 DEF step
    <3> QED BY <2>3, <3>2
  <2>5. \A i \in 0..Len(text) : g[i] = IF i = 0 THEN Start ELSE ReadLine(g[i - 1], text[i])
    BY <1>1, <2>3, <2>4
  <2>6. g = [i \in 0..Len(text) |-> g[i]] BY <2>2
  <2> QED BY <2>5, <2>6
<1>5. Reads(f) BY <1>4
<1>6. ReadText(text) = f[Len(text)] BY DEF ReadText
<1> HIDE DEF f
<1>7. 0 \in S BY <1>3, <1>5
<1>8. ASSUME NEW i \in Nat, i \in S PROVE i + 1 \in S
  <2> SUFFICES ASSUME i + 1 \in 0..Len(text) PROVE f[i + 1] \in ParserState
    OBVIOUS
  <2>1. f[i] \in ParserState BY <1>1, <1>8
  <2>2. f[i + 1] = ReadLine(f[i], text[i + 1]) BY <1>5
  <2> QED BY <1>1, <1>2, <2>1, <2>2
<1>9. Nat \subseteq S
  <2> HIDE DEF S
  <2> QED BY <1>7, <1>8, NatInductionOnSets
<1>10. \A i \in 0..Len(text) : f[i] \in ParserState BY <1>1, <1>9
<1>11. f[0] = Start /\ \A i \in 1..Len(text) : f[i] = ReadLine(f[i - 1], text[i])
  BY <1>1, <1>5
<1> HIDE DEF S
<1> QED BY <1>6, <1>10, <1>11

LEMMA ReadTextType ==
  ASSUME NEW text \in Seq(PatchLine)
  PROVE  ReadText(text) \in ParserState
<1>1. Len(text) \in 0..Len(text) OBVIOUS
<1> QED BY <1>1, ReadTextSteps

\* What is parsed is hunks.
LEMMA ParsePatchType ==
  ASSUME NEW text \in Seq(PatchLine)
  PROVE  ParsePatch(text) \subseteq Seq(Hunk)
BY ReadTextType DEF ParsePatch, ParserState

-----------------------------------------------------------------------------
(* Where chunks are placed.                                                *)

\* A place that is found is one where the pattern stands.
LEMMA SoughtIsThere ==
  ASSUME lines \in Seq(Line), NEW pattern \in Seq(Line), NEW from \in Nat,
         NEW i \in SeekSequence(pattern, from)
  PROVE  pattern # <<>> /\ i \in Places(pattern, from)
<1> DEFINE found == {m \in DOMAIN Comparisons : Matches(pattern, from, Comparisons[m]) # {}}
           M == Matches(pattern, from, Comparisons[Min(found)])
<1>1. pattern # <<>> /\ found # {} /\ i = Min(M) BY DEF SeekSequence
<1>2. M # {}
  <2>1. found \in SUBSET Nat BY DEF Comparisons
  <2>2. Min(found) \in found BY <1>1, <2>1, LeastNumber DEF Min
  <2> QED BY <2>2
<1>3. i \in M
  <2>1. M \in SUBSET Nat BY DEF Matches
  <2> HIDE DEF M
  <2> QED BY <1>1, <1>2, <2>1, LeastNumber DEF Min
<1>4. /\ i \in from..(Len(lines) - Len(pattern))
      /\ \A m \in 1..Len(pattern) : lines[i + m].text = pattern[m].text
  BY <1>3 DEF Matches, Same
<1>5. Len(pattern) \in Nat /\ Len(lines) \in Nat OBVIOUS
<1> DEFINE there == SubSeq(lines, i + 1, i + Len(pattern))
<1>6. /\ Len(there) = Len(pattern)
      /\ \A m \in 1..Len(pattern) : there[m] = lines[i + m]
  <2> DEFINE a == i + 1
             b == i + Len(pattern)
  <2>1. a \in Int /\ b \in Int BY <1>4, <1>5
  <2>2. \A m \in a..b : lines[m] \in Line BY <1>4, <1>5
  <2>3. /\ b - a + 1 = Len(pattern) /\ (a <= b <=> Len(pattern) # 0)
        /\ \A m \in 1..Len(pattern) : a + m - 1 = i + m
    BY <1>4, <1>5
  <2>4. /\ Len(SubSeq(lines, a, b)) = IF a <= b THEN b - a + 1 ELSE 0
        /\ \A m \in 1..(b - a + 1) : SubSeq(lines, a, b)[m] = lines[a + m - 1]
    <3> HIDE DEF a, b
    <3> QED BY <2>1, <2>2, SubSeqProperties
  <2>5. there = SubSeq(lines, a, b) OBVIOUS
  <2> HIDE DEF a, b, there
  <2> QED BY <2>3, <2>4, <2>5, <1>5
<1> HIDE DEF there
<1>7. SameLines(pattern, there) BY <1>4, <1>6 DEF SameLines
<1> QED BY <1>1, <1>4, <1>7 DEF Places, there

\* The replacement r does to the file what the chunk says, and the search goes on
\* at next.
Fits(r, chunk, from, next) ==
  \/ /\ chunk.old = <<>>
     /\ r = [start |-> Len(lines), oldLen |-> 0, new |-> chunk.new] /\ next = from
  \/ /\ chunk.old # <<>>
     /\ \E reading \in Readings(chunk) : \E i \in Places(reading[1], from) :
          /\ reading[1] # <<>>
          /\ r = [start |-> i, oldLen |-> Len(reading[1]), new |-> reading[2]]
          /\ next = i + Len(reading[1])

\* The places where the search for the chunk may begin.
Froms(chunk, from) ==
  IF chunk.context = Empty THEN {from} ELSE {i + 1 : i \in Places(<<chunk.context>>, from)}

\* A chunk is not found, or replaces what it says at a place it means.
LEMMA PlaceChunkFits ==
  ASSUME DerivationTypeOK, PlaceChunk, k \in DOMAIN chunks
  PROVE  \/ Fail("not found")
         \/ \E from \in Froms(chunks[k], lineIndex) : \E r \in Replacement : \E next \in Nat :
              Fits(r, chunks[k], from, next) /\ Replace(r.start, r.oldLen, r.new, next)
<1> DEFINE chunk == chunks[k]
<1>1. /\ lines \in Seq(Line) /\ chunk \in Chunk /\ lineIndex \in Nat /\ Len(lines) \in Nat
  <2>1. lines \in Seq(Line) /\ chunks \in Seq(Chunk) /\ lineIndex \in 0..Len(lines)
    BY DEF DerivationTypeOK
  <2>2. DOMAIN chunks = 1..Len(chunks) BY <2>1
  <2> QED BY <2>1, <2>2, ElementOfSeq
<1>2. chunk.old \in Seq(Line) /\ chunk.new \in Seq(Line) /\ chunk.context \in Line
  BY <1>1 DEF Chunk
<1>3. \/ Fail("not found")
      \/ \E from \in Froms(chunk, lineIndex) : from \in Nat /\ PlaceFrom(chunk, from)
  <2>1. CASE chunk.context = Empty BY <2>1, <1>1 DEF PlaceChunk, Froms
  <2>2. CASE chunk.context # Empty
    <3>1. <<chunk.context>> \in Seq(Line) BY <1>2
    <3> DEFINE pattern == <<chunk.context>>
    <3> HIDE DEF pattern
    <3>2. SeekSequence(pattern, lineIndex) \subseteq Places(pattern, lineIndex)
      BY <1>1, <3>1, SoughtIsThere DEF pattern
    <3>3. Places(pattern, lineIndex) \subseteq Nat BY <1>1 DEF Places
    <3>4. \/ Fail("not found")
          \/ \E i \in SeekSequence(pattern, lineIndex) : PlaceFrom(chunk, i + 1)
      BY <2>2 DEF PlaceChunk, pattern
    <3>5. Froms(chunk, lineIndex) = {i + 1 : i \in Places(pattern, lineIndex)}
      BY <2>2 DEF Froms, pattern
    <3>6. ASSUME NEW i \in SeekSequence(pattern, lineIndex), PlaceFrom(chunk, i + 1)
          PROVE  i + 1 \in Froms(chunk, lineIndex) /\ i + 1 \in Nat
      BY <3>2, <3>3, <3>5
    <3> HIDE DEF chunk
    <3> QED BY <3>4, <3>6
  <2> QED BY <2>1, <2>2
<1>4. ASSUME NEW from \in Nat, PlaceFrom(chunk, from)
      PROVE  \/ Fail("not found")
             \/ \E r \in Replacement : \E next \in Nat :
                  Fits(r, chunk, from, next) /\ Replace(r.start, r.oldLen, r.new, next)
  <2> DEFINE shorter == Front(chunk.old)
             new == IF EndsEmpty(chunk.new) THEN Front(chunk.new) ELSE chunk.new
  <2> HIDE DEF chunk
  <2>1. CASE chunk.old = <<>> /\ Replace(Len(lines), 0, chunk.new, from)
    <3> DEFINE r == [start |-> Len(lines), oldLen |-> 0, new |-> chunk.new]
    <3>1. r \in Replacement BY <1>1, <1>2 DEF Replacement
    <3> QED BY <2>1, <3>1 DEF Fits
  <2>2. ASSUME chunk.old # <<>>, NEW i \in SeekSequence(chunk.old, from),
               Replace(i, Len(chunk.old), chunk.new, i + Len(chunk.old))
        PROVE  \E r \in Replacement : \E next \in Nat :
                 Fits(r, chunk, from, next) /\ Replace(r.start, r.oldLen, r.new, next)
    <3> DEFINE r == [start |-> i, oldLen |-> Len(chunk.old), new |-> chunk.new]
    <3>1. i \in Places(chunk.old, from) BY <1>1, <1>2, SoughtIsThere
    <3>2. i \in Nat /\ Len(chunk.old) \in Nat BY <1>2, <3>1 DEF Places
    <3>3. r \in Replacement BY <1>2, <3>2 DEF Replacement
    <3>4. <<chunk.old, chunk.new>> \in Readings(chunk) BY DEF Readings
    <3>5. Fits(r, chunk, from, i + Len(chunk.old)) BY <2>2, <3>1, <3>4 DEF Fits
    <3> QED BY <2>2, <3>2, <3>3, <3>5
  <2>3. ASSUME EndsEmpty(chunk.old), NEW i \in SeekSequence(shorter, from),
               Replace(i, Len(shorter), new, i + Len(shorter))
        PROVE  \E r \in Replacement : \E next \in Nat :
                 Fits(r, chunk, from, next) /\ Replace(r.start, r.oldLen, r.new, next)
    <3> DEFINE r == [start |-> i, oldLen |-> Len(shorter), new |-> new]
    <3>1. chunk.old # <<>> BY <2>3 DEF EndsEmpty
    <3>2. shorter \in Seq(Line) BY <1>2, <3>1, FrontAndLast
    <3>3. new \in Seq(Line) /\ new = Shortened(chunk.new)
      BY <1>2, FrontAndLast DEF EndsEmpty, Shortened
    <3>4. <<shorter, new>> \in Readings(chunk) BY <2>3, <3>3 DEF Readings
    <3> HIDE DEF shorter, new
    <3>5. i \in Places(shorter, from) /\ shorter # <<>> BY <1>1, <3>2, SoughtIsThere
    <3>6. i \in Nat /\ Len(shorter) \in Nat BY <3>2, <3>5 DEF Places
    <3>7. r \in Replacement BY <3>3, <3>6 DEF Replacement
    <3>8. Fits(r, chunk, from, i + Len(shorter)) BY <3>1, <3>4, <3>5 DEF Fits
    <3> QED BY <2>3, <3>6, <3>7, <3>8
  <2> QED BY <1>4, <2>1, <2>2, <2>3 DEF PlaceFrom
<1> QED BY <1>3, <1>4

\* A chunk is placed at or below the line where its search begins, inside the
\* file, and the search of the next one goes on below what it takes.
LEMMA FitsBounds ==
  ASSUME DerivationTypeOK, NEW chunk \in Chunk, NEW from \in Froms(chunk, lineIndex),
         NEW r \in Replacement, NEW next \in Nat, Fits(r, chunk, from, next)
  PROVE  /\ from \in lineIndex..Len(lines) /\ r.start >= from
         /\ r.start + r.oldLen <= Len(lines) /\ next \in from..Len(lines)
         /\ r.oldLen > 0 => next = r.start + r.oldLen
         /\ r.oldLen = 0 <=> chunk.old = <<>>
<1>1. lines \in Seq(Line) /\ lineIndex \in 0..Len(lines) BY DEF DerivationTypeOK
<1>2. Len(lines) \in Nat BY <1>1
<1>3. from \in lineIndex..Len(lines)
  <2>1. CASE chunk.context = Empty BY <2>1, <1>1, <1>2 DEF Froms
  <2>2. CASE chunk.context # Empty
    <3>1. PICK i \in Places(<<chunk.context>>, lineIndex) : from = i + 1 BY <2>2 DEF Froms
    <3>2. i \in lineIndex..(Len(lines) - 1) BY DEF Places
    <3> QED BY <1>1, <1>2, <3>1, <3>2
  <2> QED BY <2>1, <2>2
<1>4. CASE /\ chunk.old = <<>> /\ next = from
           /\ r = [start |-> Len(lines), oldLen |-> 0, new |-> chunk.new]
  BY <1>2, <1>3, <1>4
<1>5. ASSUME chunk.old # <<>>,
             NEW reading \in Readings(chunk), NEW i \in Places(reading[1], from),
             reading[1] # <<>>,
             r = [start |-> i, oldLen |-> Len(reading[1]), new |-> reading[2]],
             next = i + Len(reading[1])
      PROVE  /\ r.start >= from
             /\ r.start + r.oldLen <= Len(lines) /\ next \in from..Len(lines)
             /\ r.oldLen > 0 /\ next = r.start + r.oldLen
  <2>1. reading[1] \in Seq(Line)
    <3>1. chunk.old \in Seq(Line) BY DEF Chunk
    <3>2. Front(chunk.old) \in Seq(Line) BY <1>5, <3>1, FrontAndLast
    <3>3. \/ reading = <<chunk.old, chunk.new>>
          \/ reading = <<Front(chunk.old), Shortened(chunk.new)>>
      BY DEF Readings
    <3> QED BY <3>1, <3>2, <3>3
  <2>2. Len(reading[1]) \in Nat \ {0} BY <1>5, <2>1, EmptySeq
  <2>3. i \in from..(Len(lines) - Len(reading[1])) BY DEF Places
  <2>4. r.start = i /\ r.oldLen = Len(reading[1]) BY <1>5
  <2> QED BY <1>2, <1>3, <1>5, <2>2, <2>3, <2>4
<1> QED
  <2>1. CASE chunk.old = <<>> BY <2>1, <1>3, <1>4 DEF Fits
  <2>2. CASE chunk.old # <<>>
    <3>1. PICK reading \in Readings(chunk) : \E i \in Places(reading[1], from) :
          /\ reading[1] # <<>>
          /\ r = [start |-> i, oldLen |-> Len(reading[1]), new |-> reading[2]]
          /\ next = i + Len(reading[1])
      BY <2>2 DEF Fits
    <3> QED BY <2>2, <3>1, <1>3, <1>5
  <2> QED BY <2>1, <2>2

\* One replacement is kept for every chunk that has been placed; what takes lines
\* away ends where the search has come to at the latest.
DerivationInv ==
  /\ DerivationTypeOK
  /\ Len(replacements) <= Len(chunks)
  /\ pc = "place" => k = Len(replacements) + 1
  /\ pc = "replace" => k <= Len(replacements)
  /\ pc = "done" => result # <<>>
  /\ \A j \in DOMAIN replacements :
       replacements[j].oldLen > 0 => replacements[j].start + replacements[j].oldLen <= lineIndex
  /\ ChunksInOrder

\* Outside a derivation there is nothing to place.
LEMMA ReturnedInv == (DerivationInit => DerivationInv) /\ (Returned => DerivationInv')
<1>1. /\ <<>> \in Seq(Replacement) /\ <<>> \in Seq(Line) /\ <<>> \in Seq(Chunk)
      /\ Len(<<>>) = 0 /\ DOMAIN <<>> = {} /\ 0 \in 0..0 /\ 0 \in 0..(0 + 1)
  OBVIOUS
<1>2. DerivationInit => DerivationInv
  BY <1>1 DEF DerivationInit, DerivationInv, DerivationTypeOK, ChunksInOrder
<1>3. Returned => DerivationInv'
  BY <1>1 DEF Returned, DerivationInv, DerivationTypeOK, ChunksInOrder
<1> QED BY <1>2, <1>3

\* A derivation begins with nothing placed.
LEMMA DeriveInv ==
  ASSUME NEW content \in Content, NEW cs \in Seq(Chunk), DerivePatchedContent(content, cs)
  PROVE  DerivationInv'
<1>1. SplitPatchLines(content) \in Seq(Line)
  BY FrontAndLast DEF Content, SplitPatchLines, EndsEmpty
<1>2. lines' \in Seq(Line) /\ result' \in Seq(Line) BY <1>1 DEF DerivePatchedContent
<1>3. Len(cs) \in Nat /\ Len(lines') \in Nat BY <1>2
<1>4. /\ chunks' = cs /\ k' = 1 /\ lineIndex' = 0 /\ replacements' = <<>> /\ pc' = "place"
  BY DEF DerivePatchedContent
<1>5. /\ <<>> \in Seq(Replacement) /\ Len(<<>>) = 0 /\ DOMAIN <<>> = {} OBVIOUS
<1>6. 1 \in 0..(Len(cs) + 1) /\ 0 \in 0..Len(lines') BY <1>3
<1>7. DerivationTypeOK' BY <1>2, <1>4, <1>5, <1>6 DEF DerivationTypeOK
<1>8. ChunksInOrder' BY <1>4, <1>5 DEF ChunksInOrder
<1> QED BY <1>3, <1>4, <1>5, <1>7, <1>8 DEF DerivationInv

\* Replacing part of a text gives a text.
LEMMA SplicedType ==
  ASSUME NEW s \in Seq(Line), NEW r \in Replacement, r.start + r.oldLen <= Len(s)
  PROVE  Spliced(s, r) \in Seq(Line)
<1> DEFINE a == r.start
           b == r.start + r.oldLen + 1
<1>1. a \in Nat /\ b \in Nat \ {0} /\ a <= Len(s) /\ Len(s) \in Nat /\ r.new \in Seq(Line)
  BY DEF Replacement
<1> HIDE DEF a, b
<1>2. \A i \in 1..a : s[i] \in Line BY <1>1
<1>3. SubSeq(s, 1, a) \in Seq(Line) BY <1>1, <1>2, SubSeqProperties
<1>4. \A i \in b..Len(s) : s[i] \in Line BY <1>1
<1>5. SubSeq(s, b, Len(s)) \in Seq(Line) BY <1>1, <1>4, SubSeqProperties
<1>6. SubSeq(s, 1, a) \o r.new \o SubSeq(s, b, Len(s)) \in Seq(Line)
  BY <1>1, <1>3, <1>5, ConcatProperties
<1> QED BY <1>6 DEF Spliced, a, b

\* A step of a derivation keeps the places in order.
LEMMA DerivationInvKept == ASSUME DerivationInv, DerivationStep PROVE DerivationInv'
<1>1. /\ lines \in Seq(Line) /\ result \in Seq(Line) /\ chunks \in Seq(Chunk)
      /\ k \in 0..(Len(chunks) + 1) /\ lineIndex \in 0..Len(lines)
      /\ replacements \in Seq(Replacement)
  BY DEF DerivationInv, DerivationTypeOK
<1>2. Len(lines) \in Nat /\ Len(chunks) \in Nat /\ Len(replacements) \in Nat BY <1>1
<1>3. ASSUME NEW reason \in {"not found", "out of range"}, Fail(reason) PROVE DerivationInv'
  BY <1>3 DEF Fail, DerivationInv, DerivationTypeOK, ChunksInOrder
<1>4. CASE PlaceChunk
  <2>1. k \in DOMAIN chunks /\ k = Len(replacements) + 1 /\ pc = "place"
    <3>1. pc = "place" /\ k <= Len(chunks) /\ k = Len(replacements) + 1
      BY <1>4 DEF PlaceChunk, DerivationInv
    <3>2. DOMAIN chunks = 1..Len(chunks) BY <1>1
    <3> QED BY <1>2, <3>1, <3>2
  <2>2. chunks[k] \in Chunk BY <1>1, <2>1
  <2> SUFFICES ASSUME NEW from \in Froms(chunks[k], lineIndex),
                      NEW r \in Replacement, NEW next \in Nat,
                      Fits(r, chunks[k], from, next), Replace(r.start, r.oldLen, r.new, next)
               PROVE  DerivationInv'
    BY <1>3, <1>4, <2>1, PlaceChunkFits DEF DerivationInv
  <2>3. /\ from \in lineIndex..Len(lines) /\ r.start >= from
        /\ r.start + r.oldLen <= Len(lines) /\ next \in from..Len(lines)
        /\ r.oldLen > 0 => next = r.start + r.oldLen
    BY <2>2, FitsBounds DEF DerivationInv
  <2>4. r = [start |-> r.start, oldLen |-> r.oldLen, new |-> r.new] BY DEF Replacement
  <2>5. /\ replacements' = Append(replacements, r)
        /\ lineIndex' = next /\ k' = k + 1 /\ UNCHANGED <<lines, chunks, result, pc>>
    BY <2>4 DEF Replace
  <2>6. /\ replacements' \in Seq(Replacement) /\ Len(replacements') = Len(replacements) + 1
        /\ \A j \in 1..Len(replacements) : replacements'[j] = replacements[j]
        /\ replacements'[Len(replacements) + 1] = r
    BY <1>1, <2>5, AppendProperties
  <2>7. r.start \in Nat /\ r.oldLen \in Nat BY DEF Replacement
  <2>8. DerivationTypeOK'
    <3>1. lineIndex' \in 0..Len(lines) /\ k' \in 0..(Len(chunks) + 1)
      BY <1>1, <1>2, <2>1, <2>3, <2>5
    <3> QED BY <1>1, <2>1, <2>5, <2>6, <3>1 DEF DerivationTypeOK
  <2>9. \A j \in 1..Len(replacements) :
          /\ replacements[j].start \in Nat /\ replacements[j].oldLen \in Nat
          /\ replacements[j].oldLen > 0 =>
               replacements[j].start + replacements[j].oldLen <= lineIndex
    <3>1. \A j \in 1..Len(replacements) :
            replacements[j] \in Replacement /\ j \in DOMAIN replacements
      BY <1>1
    <3> QED BY <3>1 DEF DerivationInv, Replacement
  <2>10. \A j \in DOMAIN replacements' :
           replacements'[j].oldLen > 0 =>
             replacements'[j].start + replacements'[j].oldLen <= lineIndex'
    <3>1. DOMAIN replacements' = 1..(Len(replacements) + 1) BY <1>2, <2>6
    <3>2. \A j \in 1..Len(replacements) :
            replacements'[j].oldLen > 0 =>
              replacements'[j].start + replacements'[j].oldLen <= lineIndex'
      BY SMTT(30), <1>1, <1>2, <2>3, <2>5, <2>6, <2>9
    <3>3. r.oldLen > 0 => r.start + r.oldLen <= lineIndex' BY <2>3, <2>5
    <3> QED BY <1>2, <2>6, <3>1, <3>2, <3>3
  <2>11. ChunksInOrder'
    <3> SUFFICES ASSUME NEW i \in 1..(Len(replacements) + 1), NEW j \in 1..(Len(replacements) + 1),
                        i < j, replacements'[i].oldLen > 0, replacements'[j].oldLen > 0
                 PROVE  replacements'[i].start + replacements'[i].oldLen <= replacements'[j].start
      BY <1>2, <2>6 DEF ChunksInOrder
    <3>1. CASE j \in 1..Len(replacements)
      <4>1. i \in 1..Len(replacements) BY <1>2, <3>1
      <4>2. replacements'[i] = replacements[i] /\ replacements'[j] = replacements[j]
        BY <2>6, <3>1, <4>1
      <4>3. i \in DOMAIN replacements /\ j \in DOMAIN replacements BY <1>1, <3>1, <4>1
      <4> QED BY <4>2, <4>3 DEF DerivationInv, ChunksInOrder
    <3>2. CASE j = Len(replacements) + 1
      <4>1. i \in 1..Len(replacements) BY <1>2, <3>2
      <4>2. replacements'[i] = replacements[i] /\ replacements'[j] = r BY <2>6, <3>2, <4>1
      <4>3. replacements[i].start + replacements[i].oldLen <= lineIndex BY <2>9, <4>1, <4>2
      <4>4. /\ replacements[i].start \in Nat /\ replacements[i].oldLen \in Nat
            /\ lineIndex \in Nat /\ from \in Nat /\ lineIndex <= from
        BY <1>1, <1>2, <2>3, <2>9, <4>1
      <4> QED BY <2>3, <2>7, <4>2, <4>3, <4>4
    <3> QED BY <1>2, <3>1, <3>2
  <2> QED BY <1>2, <2>1, <2>5, <2>6, <2>8, <2>10, <2>11 DEF DerivationInv
<1>5. CASE Placed
  BY <1>1, <1>2, <1>5 DEF Placed, DerivationInv, DerivationTypeOK, ChunksInOrder
<1>6. CASE Make
  <2>1. k \in DOMAIN replacements
    <3>1. k > 0 /\ k <= Len(replacements) BY <1>6 DEF Make, DerivationInv
    <3>2. DOMAIN replacements = 1..Len(replacements) BY <1>1
    <3> QED BY <1>1, <1>2, <3>1, <3>2
  <2>2. replacements[k] \in Replacement BY <1>1, <2>1
  <2>3. CASE Fail("out of range") BY <1>3, <2>3
  <2>4. CASE /\ replacements[k].start + replacements[k].oldLen <= Len(result)
             /\ result' = Spliced(result, replacements[k])
             /\ k' = k - 1
             /\ UNCHANGED <<lines, chunks, lineIndex, replacements, pc>>
    <3>1. result' \in Seq(Line) BY <1>1, <2>2, <2>4, SplicedType
    <3>2. k' \in 0..(Len(chunks) + 1) /\ k' <= Len(replacements) /\ pc = "replace"
      <4>1. pc = "replace" /\ k > 0 /\ k <= Len(replacements) /\ k' = k - 1
        BY <1>6, <2>4 DEF Make, DerivationInv
      <4> QED BY <1>1, <1>2, <4>1
    <3>3. DerivationTypeOK' BY <2>4, <3>1, <3>2 DEF DerivationInv, DerivationTypeOK
    <3> QED BY <2>4, <3>2, <3>3 DEF DerivationInv, ChunksInOrder
  <2> QED BY <1>6, <2>3, <2>4 DEF Make
<1>7. CASE Finish
  <2>1. Empty \in Line BY LineTextAssumption DEF Empty, Line
  <2>2. Append(result, Empty) \in Seq(Line) /\ Append(result, Empty) # <<>>
    BY <1>1, <2>1, AppendProperties
  <2>3. result' \in Seq(Line) /\ result' # <<>> BY <1>1, <1>7, <2>2 DEF Finish, EndsEmpty
  <2> QED BY <1>7, <2>3 DEF Finish, DerivationInv, DerivationTypeOK, ChunksInOrder
<1> QED BY <1>4, <1>5, <1>6, <1>7 DEF DerivationStep

-----------------------------------------------------------------------------
(* The request.                                                            *)

\* What a path resolves to is what it names.
LEMMA ResolvedIsNamed == ASSUME NEW p, NEW path \in Resolved(p) PROVE path = Named(p)
BY DEF Resolved, ResolvePath, Named

TreeOK(t) == \A path \in DOMAIN t : path \in Path /\ t[path] \in Content

Updating == n <= Len(hunks) /\ hunks[n].type = "update"
OnItsFile == \A path \in Resolved(hunks[n].path) : path \in DOMAIN tree
HalfMoved ==
  \E to \in Destination :
    to \notin Resolved(hunks[n].path) /\ tree = Rewritten(was, to, nextContent)

\* While a hunk is applied it is one of the patch; a derivation is of the chunks
\* of an update, and a write of a file that is there; the tree is the one that the
\* hunk began with until the first half of a move is done; and until the text is
\* read it is the one before.
PatchInv ==
  /\ PatchTypeOK /\ DerivationInv
  /\ request \in Request
  /\ TreeOK(was)
  /\ at \in {"hunk", "derive", "write", "remove"} => n > 0
  /\ at \in {"derive", "write", "remove"} => Updating
  /\ at \in {"derive", "write"} => OnItsFile
  /\ at = "remove" => HalfMoved
  /\ at = "failed" => n <= Len(hunks)
  /\ at \notin {"remove", "failed"} \/ n = 0 => tree = was
  /\ at = "parse" => n = 0 /\ was = request.before

\* What DerivationInv and the types say of one hunk.
LEMMA HunkType ==
  ASSUME PatchInv, n \in DOMAIN hunks
  PROVE  /\ hunks[n] \in Hunk /\ hunks[n].chunks \in Seq(Chunk)
         /\ hunks[n].contents \in Seq(Line)
         /\ Resolved(hunks[n].path) \subseteq Seq(Name)
         /\ Destination \subseteq Seq(Name)
<1>1. hunks[n] \in Hunk /\ cwd \in Seq(Name)
  <2>1. hunks \in Seq(Hunk) /\ cwd \in Seq(Name) BY DEF PatchInv, PatchTypeOK
  <2> QED BY <2>1
<1>2. hunks[n].path \in WrittenPath /\ hunks[n].move \in WrittenPath BY <1>1 DEF Hunk
<1> QED BY <1>1, <1>2, ResolvePathType DEF Hunk, Resolved, Destination

\* A file of lines, and one ended by a newline, are contents.
LEMMA AddedType == ASSUME NEW s \in Seq(Line) PROVE Added(s) \in Content
<1>1. Empty \in Line BY LineTextAssumption DEF Empty, Line
<1>2. Append(s, Empty) \in Seq(Line) /\ Append(s, Empty) # <<>> BY <1>1, AppendProperties
<1> QED BY <1>2 DEF Added, Content, EndsEmpty

\* What a failed write leaves of a content is one.
LEMMA PartsType ==
  ASSUME NEW content \in Content, NEW part \in PartsOf(content)
  PROVE  part \in Content
<1>1. CASE part = content BY <1>1
<1>2. ASSUME NEW i \in 0..(Len(content) - 1), part = Append(SubSeq(content, 1, i), Empty)
      PROVE  part \in Content
  <2>1. content \in Seq(Line) /\ Len(content) \in Nat BY DEF Content
  <2>2. \A j \in 1..i : content[j] \in Line BY <2>1
  <2>3. i \in Int /\ 1 \in Int BY <2>1
  <2>4. SubSeq(content, 1, i) \in Seq(Line) BY <2>2, <2>3, SubSeqProperties
  <2>5. Empty \in Line BY LineTextAssumption DEF Empty, Line
  <2>6. part \in Seq(Line) /\ part # <<>> BY <1>2, <2>4, <2>5, AppendProperties
  <2> QED BY <2>6 DEF Content
<1> QED BY <1>1, <1>2 DEF PartsOf

\* Putting and taking files leaves a tree.
LEMMA TreeStays ==
  ASSUME NEW t, TreeOK(t), NEW path \in Path, NEW content \in Content
  PROVE  TreeOK(With(t, path, content)) /\ TreeOK(Without(t, path))
BY DEF TreeOK, With, Without

\* And so does a write, also one that fails.
LEMMA RewrittenStays ==
  ASSUME NEW t, TreeOK(t), NEW path \in Seq(Name), NEW content \in Content
  PROVE  TreeOK(Rewritten(t, path, content)) /\ \A h \in HalfWritten(t, path, content) : TreeOK(h)
<1>1. path \in Path /\ TmpOf(path) \in Path BY TmpOfType
<1>2. TreeOK(With(t, path, content)) BY <1>1, TreeStays
<1>3. TreeOK(Rewritten(t, path, content)) BY <1>1, <1>2, TreeStays DEF Rewritten
<1>4. \A part \in PartsOf(content) : TreeOK(With(t, TmpOf(path), part))
  BY <1>1, PartsType, TreeStays
<1> QED BY <1>3, <1>4 DEF HalfWritten

\* A hunk that has been applied leaves the tree one, and the next hunk is next.
LEMMA AppliedInv ==
  ASSUME PatchInv, n > 0, n \in DOMAIN hunks,
         NEW t, TreeOK(t), Applied(t), pc' = "idle", DerivationInv'
  PROVE  PatchInv'
<1>1. /\ hunks \in Seq(Hunk) /\ n \in 0..(Len(hunks) + 1)
      /\ request \in Request /\ cwd \in Seq(Name)
  BY DEF PatchInv, PatchTypeOK
<1>2. n \in 1..Len(hunks) BY <1>1
<1>3. /\ n' = n + 1 /\ at' = "hunk" /\ tree' = t /\ was' = t /\ nextContent' = <<>>
      /\ UNCHANGED <<request, cwd, hunks>>
  BY DEF Applied
<1>4. n' \in 0..(Len(hunks') + 1) /\ n' > 0 BY <1>2, <1>3
<1>5. DerivationTypeOK' /\ <<>> \in Seq(Line) BY DEF DerivationInv
<1>6. PatchTypeOK' BY <1>1, <1>3, <1>4, <1>5 DEF PatchTypeOK, TreeOK
<1>7. TreeOK(was)' BY <1>3 DEF TreeOK
<1> QED BY <1>1, <1>3, <1>4, <1>6, <1>7 DEF PatchInv

\* A request that fails leaves everything else.
LEMMA FailInv ==
  ASSUME PatchInv, n <= Len(hunks), NEW t, TreeOK(t), n = 0 => t = tree,
         FailsWith(t), pc' = "idle", DerivationInv'
  PROVE  PatchInv'
<1>1. /\ at' = "failed" /\ tree' = t
      /\ UNCHANGED <<request, cwd, hunks, n, nextContent, was>>
  BY DEF FailsWith
<1>2. DerivationTypeOK' BY DEF DerivationInv
<1>3. PatchTypeOK' BY <1>1, <1>2 DEF PatchInv, PatchTypeOK, TreeOK
<1>4. TreeOK(was)' BY <1>1 DEF PatchInv, TreeOK
<1>5. n = 0 => t = was BY DEF PatchInv
<1> QED BY <1>1, <1>3, <1>4, <1>5 DEF PatchInv

\* A step that leaves the patch, the place in it and the trees alone, and goes on
\* with an update.
LEMMA GoesOnInv ==
  ASSUME PatchInv, n \in DOMAIN hunks, n > 0, hunks[n].type = "update", OnItsFile,
         at \in {"hunk", "derive"}, at' \in {"derive", "write"},
         at' = "derive" <=> pc' # "idle",
         nextContent' \in Seq(Line), at' = "write" => nextContent' # <<>>,
         UNCHANGED <<request, cwd, hunks, n, tree, was>>, DerivationInv'
  PROVE  PatchInv'
<1>1. DerivationTypeOK' BY DEF DerivationInv
<1>2. PatchTypeOK' BY <1>1 DEF PatchInv, PatchTypeOK
<1>3. TreeOK(was)' BY DEF PatchInv, TreeOK
<1>4. OnItsFile' BY DEF OnItsFile, Resolved
<1>5. Updating'
  <2>1. n <= Len(hunks) BY DEF PatchInv, PatchTypeOK
  <2> QED BY <2>1 DEF Updating
<1> QED BY <1>2, <1>3, <1>4, <1>5 DEF PatchInv

\* The write of an update keeps it.
LEMMA WriteUpdateInv == ASSUME PatchInv, WriteUpdate, DerivationInv' PROVE PatchInv'
<1>1. /\ at = "write" /\ pc' = "idle" /\ n \in DOMAIN hunks /\ n > 0 /\ n <= Len(hunks)
      /\ TreeOK(tree) /\ nextContent \in Content /\ tree = was /\ Updating
  <2>1. /\ at = "write" /\ pc = "idle" /\ pc' = pc
    BY DEF WriteUpdate, derivation, PatchInv, PatchTypeOK
  <2>2. hunks \in Seq(Hunk) /\ n \in 0..(Len(hunks) + 1) BY DEF PatchInv, PatchTypeOK
  <2>3. n > 0 /\ n <= Len(hunks) /\ Updating BY <2>1 DEF PatchInv, Updating
  <2>4. TreeOK(tree) /\ nextContent \in Content /\ tree = was
    BY <2>1 DEF PatchInv, PatchTypeOK, TreeOK, Content
  <2> QED BY <2>1, <2>2, <2>3, <2>4
<1>2. CASE FailPatch BY <1>1, <1>2, FailInv DEF FailPatch
<1>3. ASSUME NEW to \in Destination, NEW t \in HalfWritten(tree, to, nextContent), FailsWith(t)
      PROVE  PatchInv'
  <2>1. TreeOK(t) BY <1>1, HunkType, RewrittenStays
  <2> QED BY <1>1, <1>3, <2>1, FailInv
<1>4. ASSUME NEW to \in Destination, Applied(Rewritten(tree, to, nextContent))
      PROVE  PatchInv'
  <2>1. TreeOK(Rewritten(tree, to, nextContent)) BY <1>1, HunkType, RewrittenStays
  <2> QED BY <1>1, <1>4, <2>1, AppliedInv
<1>5. ASSUME NEW path \in Resolved(hunks[n].path), NEW to \in Destination, to # path,
             tree' = Rewritten(tree, to, nextContent), at' = "remove",
             UNCHANGED <<request, cwd, hunks, n, nextContent, was>>
      PROVE  PatchInv'
  <2>1. TreeOK(tree)' /\ TreeOK(was)'
    <3>1. TreeOK(Rewritten(tree, to, nextContent)) BY <1>1, HunkType, RewrittenStays
    <3> QED BY <1>1, <1>5, <3>1 DEF TreeOK
  <2>2. PatchTypeOK'
    <3>1. DerivationTypeOK' BY DEF DerivationInv
    <3> QED BY <1>1, <1>5, <2>1, <3>1 DEF PatchInv, PatchTypeOK, TreeOK
  <2>3. HalfMoved'
    <3>1. Resolved(hunks[n].path) \subseteq {path} BY ResolvedIsNamed
    <3>2. Destination' = Destination /\ Resolved(hunks[n].path)' = Resolved(hunks[n].path)
      BY <1>5 DEF Destination, Resolved
    <3>3. tree' = Rewritten(was, to, nextContent) BY <1>1, <1>5
    <3>4. Rewritten(was, to, nextContent)' = Rewritten(was, to, nextContent)
      BY <1>5 DEF Rewritten, With, Without
    <3> QED BY <1>5, <3>1, <3>2, <3>3, <3>4 DEF HalfMoved
  <2>4. Updating' BY <1>1, <1>5 DEF Updating
  <2> QED BY <1>1, <1>5, <2>1, <2>2, <2>3, <2>4 DEF PatchInv
<1> QED BY <1>2, <1>3, <1>4, <1>5 DEF WriteUpdate

\* A request begins as PatchInv says.
LEMMA PatchInvInit == PatchInit => PatchInv
<1> SUFFICES ASSUME NEW r \in Request, Asked(r) PROVE PatchInv
  BY DEF PatchInit
<1>1. DerivationInv /\ pc = "idle" BY ReturnedInv DEF Asked, DerivationInit
<1>2. TreeOK(r.before)
  <2>1. r.before \in Tree BY DEF Request
  <2>2. PICK paths \in SUBSET Path : r.before \in [paths -> Content] BY <2>1 DEF Tree
  <2> QED BY <2>2 DEF TreeOK
<1>3. /\ <<>> \in Seq(Hunk) /\ <<>> \in Seq(Name) /\ <<>> \in Seq(Line)
      /\ Len(<<>>) = 0 /\ 0 \in 0..(0 + 1)
  OBVIOUS
<1>4. PatchTypeOK BY <1>1, <1>2, <1>3 DEF PatchTypeOK, Asked, TreeOK, DerivationInv
<1> QED BY <1>1, <1>2, <1>4 DEF PatchInv, Asked

\* No step of a request breaks PatchInv.
LEMMA PatchInvKept == PatchInv /\ [PatchNext]_patchVars => PatchInv'
<1> SUFFICES ASSUME PatchInv, [PatchNext]_patchVars PROVE PatchInv'
  OBVIOUS
<1>1. /\ hunks \in Seq(Hunk) /\ n \in 0..(Len(hunks) + 1) /\ cwd \in Seq(Name)
      /\ request \in Request /\ DerivationInv /\ TreeOK(tree)
      /\ nextContent \in Seq(Line)
      /\ pc # "idle" <=> at = "derive"
  BY DEF PatchInv, PatchTypeOK, TreeOK
<1>2. UNCHANGED derivation => DerivationInv'
  BY <1>1 DEF derivation, DerivationInv, DerivationTypeOK, ChunksInOrder
<1>3. UNCHANGED derivation => pc' = pc BY DEF derivation
<1>4. n > 0 /\ n <= Len(hunks) => n \in DOMAIN hunks BY <1>1
<1>5. at \in {"hunk", "derive", "write", "remove"} => n > 0 BY DEF PatchInv
<1>6. CASE Parse
  <2>1. pc' = "idle" /\ DerivationInv' /\ n = 0 /\ tree = was
    BY <1>1, <1>2, <1>3, <1>6 DEF Parse, PatchInv
  <2>2. CASE FailPatch BY <1>1, <2>1, <2>2, FailInv DEF FailPatch
  <2> DEFINE session == SessionCwd(request.roots)
             dir == IF request.cwd = NoPath THEN {session} ELSE ResolvePath(session, request.cwd)
  <2>3. CASE /\ cwd' \in dir /\ hunks' \in ParsePatch(request.text)
             /\ at' = "hunk" /\ n' = 1 /\ UNCHANGED <<request, nextContent, tree, was>>
    <3>1. request.roots \in Seq(Path) /\ request.cwd \in WrittenPath
          /\ request.text \in Seq(PatchLine)
      BY <1>1 DEF Request
    <3>2. session \in Seq(Name) BY <3>1, SessionCwdType
    <3>3. cwd' \in Seq(Name)
      <4> HIDE DEF session
      <4> QED BY <2>3, <3>1, <3>2, ResolvePathType
    <3>4. hunks' \in Seq(Hunk) BY <2>3, <3>1, ParsePatchType
    <3>5. 1 \in 0..(Len(hunks') + 1) BY <3>4
    <3>6. PatchTypeOK' BY <1>1, <2>1, <2>3, <3>3, <3>4, <3>5 DEF PatchTypeOK, TreeOK, DerivationInv
    <3>7. TreeOK(was)' BY <2>3 DEF PatchInv, TreeOK
    <3> HIDE DEF dir
    <3> QED BY <1>1, <2>1, <2>3, <3>6, <3>7 DEF PatchInv
  <2> QED BY <1>6, <2>2, <2>3 DEF Parse
<1>7. CASE Forbidden
  BY <1>1, <1>2, <1>3, <1>5, <1>7, FailInv DEF Forbidden, FailPatch
<1>8. CASE AddFile \/ DeleteFile
  <2>1. /\ pc' = "idle" /\ DerivationInv' /\ at = "hunk" /\ n \in DOMAIN hunks
        /\ n > 0 /\ n <= Len(hunks)
    BY <1>1, <1>2, <1>3, <1>4, <1>5, <1>8 DEF AddFile, DeleteFile, Applies
  <2>2. CASE FailPatch BY <1>1, <2>1, <2>2, FailInv DEF FailPatch
  <2> DEFINE content == Added(hunks[n].contents)
  <2>3. content \in Content BY <2>1, HunkType, AddedType
  <2> HIDE DEF content
  <2>4. ASSUME NEW path \in Resolved(hunks[n].path),
               Applied(With(tree, path, content)) \/ Applied(Without(tree, path))
        PROVE  PatchInv'
    <3>1. path \in Path BY <2>1, HunkType, TmpOfType
    <3>2. TreeOK(With(tree, path, content)) /\ TreeOK(Without(tree, path))
      BY <1>1, <2>3, <3>1, TreeStays
    <3> QED BY <2>1, <2>4, <3>2, AppliedInv
  <2>5. ASSUME NEW path \in Resolved(hunks[n].path), NEW part \in PartsOf(content),
               FailsWith(With(tree, path, part))
        PROVE  PatchInv'
    <3>1. path \in Path /\ part \in Content BY <2>1, <2>3, HunkType, TmpOfType, PartsType
    <3>2. TreeOK(With(tree, path, part)) BY <1>1, <3>1, TreeStays
    <3> QED BY <2>1, <2>5, <3>2, FailInv
  <2> QED BY <1>8, <2>2, <2>4, <2>5 DEF AddFile, DeleteFile, content
<1>9. CASE ReadUpdate
  <2>1. /\ at = "hunk" /\ n \in DOMAIN hunks /\ pc = "idle"
        /\ n > 0 /\ n <= Len(hunks) /\ hunks[n].type = "update"
    BY <1>1, <1>4, <1>5, <1>9 DEF ReadUpdate, Applies
  <2>2. CASE FailPatch /\ UNCHANGED derivation
    BY <1>1, <1>2, <1>3, <2>1, <2>2, FailInv DEF FailPatch
  <2>3. ASSUME NEW path \in Resolved(hunks[n].path), path \in DOMAIN tree
        PROVE  OnItsFile /\ tree[path] \in Content /\ tree[path] \in Seq(Line) \ {<<>>}
    <3>1. Resolved(hunks[n].path) \subseteq {path} BY ResolvedIsNamed
    <3> QED BY <1>1, <2>3, <3>1 DEF OnItsFile, TreeOK, Content
  <2>4. ASSUME NEW path \in Resolved(hunks[n].path), path \in DOMAIN tree,
               nextContent' = tree[path], at' = "write",
               UNCHANGED <<derivation, request, cwd, hunks, n, tree, was>>
        PROVE  PatchInv'
    <3>1. DerivationInv' /\ pc' = "idle" BY <1>2, <1>3, <2>1, <2>4
    <3> QED BY <2>1, <2>3, <2>4, <3>1, GoesOnInv
  <2>5. ASSUME NEW path \in Resolved(hunks[n].path), path \in DOMAIN tree,
               DerivePatchedContent(tree[path], hunks[n].chunks),
               at' = "derive", UNCHANGED <<request, cwd, hunks, n, nextContent, tree, was>>
        PROVE  PatchInv'
    <3>1. tree[path] \in Content /\ hunks[n].chunks \in Seq(Chunk) BY <2>1, <2>3, <2>5, HunkType
    <3>2. DerivationInv' BY <2>5, <3>1, DeriveInv
    <3>3. pc' = "place" BY <2>5 DEF DerivePatchedContent
    <3> QED BY <1>1, <2>1, <2>3, <2>5, <3>2, <3>3, GoesOnInv
  <2> QED BY <1>9, <2>2, <2>4, <2>5 DEF ReadUpdate
<1>10. CASE Derive
  <2>1. DerivationInv' BY <1>1, <1>10, DerivationInvKept DEF Derive
  <2>2. /\ pc # "idle" /\ pc' # "idle"
        /\ UNCHANGED <<request, at, cwd, hunks, n, nextContent, tree, was>>
    BY <1>10 DEF Derive, DerivationStep, PlaceChunk, PlaceFrom, Placed, Make, Finish, Replace, Fail
  <2>3. at = "derive" BY <1>1, <2>2
  <2>4. n > 0 /\ n \in DOMAIN hunks /\ hunks[n].type = "update" /\ OnItsFile
    BY <1>4, <2>3 DEF PatchInv, Updating
  <2> QED BY <1>1, <2>1, <2>2, <2>3, <2>4, GoesOnInv
<1>11. CASE Derived
  <2>1. /\ at = "derive" /\ pc = "done" /\ pc' = "idle" /\ DerivationInv'
        /\ nextContent' = result /\ at' = "write"
        /\ UNCHANGED <<request, cwd, hunks, n, tree, was>>
    BY <1>11, ReturnedInv DEF Derived, Returned
  <2>2. n > 0 /\ n \in DOMAIN hunks /\ hunks[n].type = "update" /\ OnItsFile
    BY <1>4, <2>1 DEF PatchInv, Updating
  <2>3. result \in Seq(Line) /\ result # <<>> BY <1>1, <2>1 DEF DerivationInv, DerivationTypeOK
  <2> QED BY <2>1, <2>2, <2>3, GoesOnInv
<1>12. CASE DeriveFails
  <2>1. at = "derive" /\ pc' = "idle" /\ DerivationInv' /\ FailPatch
    BY <1>12, ReturnedInv DEF DeriveFails, Returned
  <2>2. n > 0 /\ n <= Len(hunks) BY <2>1 DEF PatchInv, Updating
  <2> QED BY <1>1, <2>1, <2>2, FailInv DEF FailPatch
<1>13. CASE WriteUpdate BY <1>2, <1>13, WriteUpdateInv DEF WriteUpdate
<1>14. CASE RemoveSource
  <2>1. /\ pc' = "idle" /\ DerivationInv' /\ n \in DOMAIN hunks /\ n > 0 /\ n <= Len(hunks)
    BY <1>1, <1>2, <1>3, <1>4, <1>14 DEF RemoveSource, PatchInv, Updating
  <2>2. CASE FailPatch BY <1>1, <2>1, <2>2, FailInv DEF FailPatch
  <2>3. ASSUME NEW path \in Resolved(hunks[n].path), Applied(Without(tree, path))
        PROVE  PatchInv'
    <3>1. TreeOK(Without(tree, path)) BY <1>1 DEF TreeOK, Without
    <3> QED BY <2>1, <2>3, <3>1, AppliedInv
  <2> QED BY <1>14, <2>2, <2>3 DEF RemoveSource
<1>15. CASE Answer
  <2>1. /\ at = "hunk" /\ at' = "answered" /\ DerivationInv' /\ pc' = pc
        /\ UNCHANGED <<request, cwd, hunks, n, nextContent, tree, was>>
    BY <1>2, <1>3, <1>15 DEF Answer
  <2>2. PatchTypeOK' BY <1>1, <2>1 DEF PatchInv, PatchTypeOK, DerivationInv
  <2>3. TreeOK(was)' BY <2>1 DEF PatchInv, TreeOK
  <2> QED BY <2>1, <2>2, <2>3 DEF PatchInv
<1>16. CASE UNCHANGED patchVars
  <2>1. /\ UNCHANGED derivation
        /\ UNCHANGED <<request, at, cwd, hunks, n, nextContent, tree, was>>
    BY <1>16 DEF patchVars
  <2>2. PatchTypeOK' BY <1>1, <1>2, <1>3, <2>1 DEF PatchInv, PatchTypeOK, DerivationInv
  <2>3. TreeOK(was)' BY <2>1 DEF PatchInv, TreeOK
  <2>4. OnItsFile' = OnItsFile /\ Updating' = Updating BY <2>1 DEF OnItsFile, Resolved, Updating
  <2>5. HalfMoved' = HalfMoved
    BY <2>1 DEF HalfMoved, Destination, Resolved, Rewritten, With, Without
  <2> QED BY <1>2, <2>1, <2>2, <2>3, <2>4, <2>5 DEF PatchInv
<1> QED
  BY <1>6, <1>7, <1>8, <1>9, <1>10, <1>11, <1>12, <1>13, <1>14, <1>15, <1>16 DEF PatchNext

\* The parser gives hunks, a derivation runs exactly while the handler waits for
\* it, its search never begins past the end of the file, no update writes a file
\* of no lines at all, and every file of the tree is a sequence of lines that is
\* not empty.
THEOREM PatchTypeCorrect == PatchSpec => []PatchTypeOK
<1>1. PatchInv => PatchTypeOK BY DEF PatchInv
<1> QED BY <1>1, PatchInvInit, PatchInvKept, PTL DEF PatchSpec

\* However often a place is looked for with a looser comparison or without the
\* blank line at the end, the stretches taken away are disjoint and in order.
THEOREM PlacedInOrder == PatchSpec => []ChunksInOrder
<1>1. PatchInv => ChunksInOrder BY DEF PatchInv, DerivationInv
<1> QED BY <1>1, PatchInvInit, PatchInvKept, PTL DEF PatchSpec

-----------------------------------------------------------------------------
(* Where a patch writes.                                                   *)

Below(path) ==
  \E n1 \in DOMAIN AllowedRoots :
    IsPrefix(AllowedRoots[n1], path) \/ path = TmpOf(AllowedRoots[n1])

\* The files of a tree that are not below a root are those of the tree before.
KeepsOutside(t) ==
  \A path \in DOMAIN t \cup DOMAIN request.before :
    \/ Below(path)
    \/ /\ path \in DOMAIN t \cap DOMAIN request.before
       /\ t[path] = request.before[path]

\* A path the policy allows is below a root, or is one, and so is that of its
\* temporary file, unless the path is a root.
LEMMA ResolvedIsBelow ==
  ASSUME NEW p, NEW path \in Resolved(p), path \in Seq(Name)
  PROVE  Below(path) /\ Below(TmpOf(path))
<1>1. IsAllowed(path) BY DEF Resolved, ResolvePath
<1>2. PICK i \in DOMAIN AllowedRoots :
        LET root == AllowedRoots[i] IN path = root \/ (root # <<>> /\ IsStrictPrefix(root, path))
  BY <1>1 DEF IsAllowed
<1> DEFINE root == AllowedRoots[i]
<1>3. root \in Seq(Name) BY RootsAssumption
<1>4. CASE path = root
  <2>1. IsPrefix(root, path) BY <1>3, <1>4 DEF IsPrefix
  <2> QED BY <1>4, <2>1 DEF Below
<1>5. CASE path # root
  <2> DEFINE m == Len(root)
             front == Front(path)
             tmp == TmpName[Last(path)]
  <2> HIDE DEF root
  <2>1. /\ m \in Nat /\ Len(path) \in Nat /\ m <= Len(path)
        /\ SubSeq(root, 1, m) = SubSeq(path, 1, m)
    BY <1>2, <1>3, <1>5 DEF IsStrictPrefix, IsPrefix, root
  <2>2. /\ \A j \in 1..m : root[j] \in Name
        /\ \A j \in 1..m : path[j] \in Name
    BY <1>3, <2>1
  <2>3. 1 \in Int /\ m \in Int /\ m - 1 + 1 = m /\ \A j \in 1..m : 1 + j - 1 = j BY <2>1
  <2>4. \A j \in 1..m : SubSeq(root, 1, m)[j] = root[j] /\ SubSeq(path, 1, m)[j] = path[j]
    <3> HIDE DEF m
    <3> QED BY <2>2, <2>3, SubSeqProperties
  <2>5. \A j \in 1..m : root[j] = path[j] BY <2>1, <2>4
  <2>6. m < Len(path)
    <3>1. m = Len(path) => root = path BY <1>3, <2>5, SeqEqual
    <3> QED BY <1>5, <2>1, <3>1
  <2>7. /\ front \in Seq(STRING) /\ Len(front) = Len(path) - 1
        /\ \A j \in 1..(Len(path) - 1) : front[j] = path[j]
        /\ tmp \in STRING
    <3>1. path # <<>> BY <2>1, <2>6
    <3>2. Last(path) \in Name /\ path \in Seq(STRING)
      BY <3>1, FrontAndLast, NameAssumption, SeqMonotonic
    <3>3. tmp \in STRING BY <3>2, NameAssumption
    <3> QED BY <3>1, <3>2, <3>3, FrontAndLast
  <2>8. TmpOf(path) = Append(front, tmp)
    <3>1. path # <<>> BY <2>1, <2>6
    <3> QED BY <3>1 DEF TmpOf
  <2> HIDE DEF front, tmp
  <2>9. /\ TmpOf(path) \in Seq(STRING) /\ Len(TmpOf(path)) = Len(path)
        /\ \A j \in 1..m : TmpOf(path)[j] = root[j]
    <3>1. /\ Append(front, tmp) \in Seq(STRING) /\ Len(Append(front, tmp)) = Len(front) + 1
          /\ \A j \in 1..Len(front) : Append(front, tmp)[j] = front[j]
      BY <2>7, AppendProperties
    <3>2. \A j \in 1..m : j \in 1..Len(front) /\ j \in 1..(Len(path) - 1)
      BY <2>1, <2>6, <2>7
    <3>3. Len(front) + 1 = Len(path) BY <2>1, <2>7
    <3>4. \A j \in 1..m : Append(front, tmp)[j] = root[j] BY <2>5, <2>7, <3>1, <3>2
    <3> QED BY <2>8, <3>1, <3>3, <3>4
  <2>10. SubSeq(root, 1, m) = SubSeq(TmpOf(path), 1, m)
    <3> DEFINE t == TmpOf(path)
    <3> HIDE DEF t
    <3>1. \A j \in 1..m : root[j] \in Name /\ t[j] \in Name BY <2>2, <2>9 DEF t
    <3> HIDE DEF m
    <3>2. /\ SubSeq(root, 1, m) \in Seq(Name) /\ SubSeq(t, 1, m) \in Seq(Name)
          /\ Len(SubSeq(root, 1, m)) = Len(SubSeq(t, 1, m))
          /\ \A j \in 1..(m - 1 + 1) : SubSeq(root, 1, m)[j] = root[1 + j - 1]
          /\ \A j \in 1..(m - 1 + 1) : SubSeq(t, 1, m)[j] = t[1 + j - 1]
          /\ Len(SubSeq(root, 1, m)) = IF 1 <= m THEN m - 1 + 1 ELSE 0
      BY <2>3, <3>1, SubSeqProperties
    <3>3. \A j \in 1..m : SubSeq(root, 1, m)[j] = SubSeq(t, 1, m)[j] BY <2>3, <2>9, <3>2 DEF t
    <3>4. Len(SubSeq(root, 1, m)) = m BY <2>1, <2>3, <3>2 DEF m
    <3> QED BY <3>2, <3>3, <3>4, SeqEqual DEF t
  <2>11. IsPrefix(root, path) /\ IsPrefix(root, TmpOf(path))
    BY <2>1, <2>9, <2>10 DEF IsPrefix, m
  <2> QED BY <2>11 DEF Below, root
<1> QED BY <1>4, <1>5

\* A file put below a root changes nothing outside, nor does one taken away.
LEMMA ChangeKeepsOutside ==
  ASSUME NEW t, KeepsOutside(t), NEW path, Below(path)
  PROVE  /\ \A content : KeepsOutside(With(t, path, content))
         /\ KeepsOutside(Without(t, path))
BY DEF KeepsOutside, With, Without

\* Nor does a write, also one that fails.
LEMMA RewriteKeepsOutside ==
  ASSUME NEW t, KeepsOutside(t), NEW path, Below(path), Below(TmpOf(path)), NEW content
  PROVE  /\ KeepsOutside(Rewritten(t, path, content))
         /\ \A h \in HalfWritten(t, path, content) : KeepsOutside(h)
<1>1. KeepsOutside(Rewritten(t, path, content)) BY ChangeKeepsOutside DEF Rewritten
<1>2. \A part : KeepsOutside(With(t, TmpOf(path), part)) BY ChangeKeepsOutside
<1> QED BY <1>1, <1>2 DEF HalfWritten

\* No step of a request changes a file outside the roots.
LEMMA OutsideKept ==
  PatchInv /\ KeepsOutside(tree) /\ [PatchNext]_patchVars => KeepsOutside(tree)'
<1> SUFFICES ASSUME PatchInv, KeepsOutside(tree), [PatchNext]_patchVars
             PROVE  KeepsOutside(tree)'
  OBVIOUS
<1>1. \A t : tree' = t /\ KeepsOutside(t) /\ request' = request => KeepsOutside(tree)'
  BY DEF KeepsOutside, Below
<1>2. CASE UNCHANGED <<request, tree>> BY <1>1, <1>2
<1>3. \A t : /\ Applied(t) => tree' = t /\ request' = request
             /\ FailsWith(t) => tree' = t /\ request' = request
  BY DEF Applied, FailsWith
<1>4. CASE FailPatch BY <1>2, <1>3, <1>4 DEF FailPatch
<1>5. at \in {"hunk", "write", "remove"} /\ n <= Len(hunks) =>
        /\ \A path \in Resolved(hunks[n].path) : Below(path)
        /\ \A to \in Destination : Below(to) /\ Below(TmpOf(to))
  <2> SUFFICES ASSUME at \in {"hunk", "write", "remove"}, n <= Len(hunks)
               PROVE  /\ \A path \in Resolved(hunks[n].path) : Below(path)
                      /\ \A to \in Destination : Below(to) /\ Below(TmpOf(to))
    OBVIOUS
  <2>1. n \in DOMAIN hunks
    <3>1. hunks \in Seq(Hunk) /\ n \in 0..(Len(hunks) + 1) /\ n > 0 BY DEF PatchInv, PatchTypeOK
    <3> QED BY <3>1
  <2>2. Resolved(hunks[n].path) \subseteq Seq(Name) /\ Destination \subseteq Seq(Name)
    BY <2>1, HunkType
  <2>3. \A path \in Resolved(hunks[n].path) : Below(path) BY <2>2, ResolvedIsBelow
  <2>4. \A to \in Destination : Below(to) /\ Below(TmpOf(to))
    BY <2>2, ResolvedIsBelow DEF Destination
  <2> QED BY <2>3, <2>4
<1>6. CASE AddFile
  <2>1. ASSUME NEW path \in Resolved(hunks[n].path), NEW content,
               Applied(With(tree, path, content)) \/ FailsWith(With(tree, path, content))
        PROVE  KeepsOutside(tree)'
    <3>1. Below(path) BY <1>5, <1>6 DEF AddFile, Applies
    <3>2. KeepsOutside(With(tree, path, content)) BY <3>1, ChangeKeepsOutside
    <3> QED BY <1>1, <1>3, <2>1, <3>2
  <2> QED BY <1>4, <1>6, <2>1 DEF AddFile
<1>7. CASE DeleteFile \/ RemoveSource
  <2>1. ASSUME NEW path \in Resolved(hunks[n].path), Applied(Without(tree, path))
        PROVE  KeepsOutside(tree)'
    <3>1. Below(path)
      BY <1>5, <1>7 DEF DeleteFile, RemoveSource, Applies, PatchInv, Updating
    <3>2. KeepsOutside(Without(tree, path)) BY <3>1, ChangeKeepsOutside
    <3> QED BY <1>1, <1>3, <2>1, <3>2
  <2> QED BY <1>4, <1>7, <2>1 DEF DeleteFile, RemoveSource
<1>8. CASE WriteUpdate
  <2>1. ASSUME NEW to \in Destination
        PROVE  /\ KeepsOutside(Rewritten(tree, to, nextContent))
               /\ \A h \in HalfWritten(tree, to, nextContent) : KeepsOutside(h)
    <3>1. Below(to) /\ Below(TmpOf(to)) BY <1>5, <1>8 DEF WriteUpdate, PatchInv, Updating
    <3> QED BY <3>1, RewriteKeepsOutside
  <2>2. ASSUME NEW to \in Destination, NEW t \in HalfWritten(tree, to, nextContent), FailsWith(t)
        PROVE  KeepsOutside(tree)'
    BY <1>1, <1>3, <2>1, <2>2
  <2>3. ASSUME NEW to \in Destination, request' = request,
               tree' = Rewritten(tree, to, nextContent)
        PROVE  KeepsOutside(tree)'
    BY <1>1, <2>1, <2>3
  <2> QED BY <1>3, <1>4, <1>8, <2>2, <2>3 DEF WriteUpdate
<1>9. CASE Parse \/ Forbidden \/ ReadUpdate \/ Derive \/ Derived \/ DeriveFails \/ Answer
  BY <1>2, <1>4, <1>9 DEF Parse, Forbidden, ReadUpdate, Derive, Derived, DeriveFails, Answer
<1>10. CASE UNCHANGED patchVars BY <1>10, <1>2 DEF patchVars
<1> QED BY <1>6, <1>7, <1>8, <1>9, <1>10 DEF PatchNext

\* Whatever a patch contains and however it ends, it changes files only below
\* an allowed root, or the temporary file of one: every path of every hunk, and
\* of every move, has been cleaned before it is compared.
THEOREM PatchStaysInRoots == PatchSpec => []OnlyInRoots
<1>1. PatchInit => PatchInv /\ KeepsOutside(tree)
  BY PatchInvInit DEF PatchInit, Asked, KeepsOutside
<1>2. KeepsOutside(tree) => OnlyInRoots BY DEF KeepsOutside, Below, OnlyInRoots
<1> QED BY <1>1, <1>2, PatchInvKept, OutsideKept, PTL DEF PatchSpec

-----------------------------------------------------------------------------
(* The tree that a hunk begins with is the one before the request, changed  *)
(* by the hunks so far.                                                    *)

\* A path as the last hunk on it has left it.
Stands(path) ==
  LET i == LastOn(path) IN
  /\ i = 0 => (path \in DOMAIN was <=> path \in DOMAIN request.before)
  /\ i = 0 /\ path \in DOMAIN was => was[path] = request.before[path]
  /\ i # 0 => (path \in DOMAIN was <=> path \in Puts(hunks[i]))
  /\ i # 0 /\ hunks[i].type = "add" =>
       path \in DOMAIN was /\ Shortened(was[path]) = Shortened(hunks[i].contents)

PrefixInv == PatchInv /\ (n > 0 => \A path : Stands(path))

\* What a hunk does to the tree it begins with.
Effect(hunk, t) ==
  \A path :
    /\ path \in Puts(hunk) =>
         /\ path \in DOMAIN t
         /\ hunk.type = "add" => Shortened(t[path]) = Shortened(hunk.contents)
    /\ path \in Takes(hunk) => path \notin DOMAIN t
    /\ path \notin Puts(hunk) \cup Takes(hunk) =>
         /\ path \in DOMAIN t <=> path \in DOMAIN was
         /\ path \in DOMAIN t => t[path] = was[path]

\* The newline that ends an added file is not among its lines.
LEMMA ShortenedAdded == ASSUME NEW s \in Seq(Line) PROVE Shortened(Added(s)) = Shortened(s)
<1>1. CASE EndsEmpty(s) BY <1>1 DEF Added
<1>2. CASE ~ EndsEmpty(s)
  <2> DEFINE a == Append(s, Empty)
  <2>1. Empty \in Line BY LineTextAssumption DEF Empty, Line
  <2>2. /\ a \in Seq(Line) /\ a # <<>> /\ Len(a) = Len(s) + 1 /\ a[Len(s) + 1] = Empty
        /\ \A i \in 1..Len(s) : a[i] = s[i]
    BY <2>1, AppendProperties
  <2> HIDE DEF a
  <2>3. Last(a) = Empty BY <2>2 DEF Last
  <2>4. Len(s) \in Nat OBVIOUS
  <2>5. /\ Front(a) \in Seq(Line) /\ Len(Front(a)) = Len(s)
        /\ \A i \in 1..Len(s) : Front(a)[i] = s[i]
    <3>1. /\ Front(a) \in Seq(Line) /\ Len(Front(a)) = Len(a) - 1
          /\ \A i \in 1..(Len(a) - 1) : Front(a)[i] = a[i]
      BY <2>2, FrontAndLast
    <3>2. Len(a) - 1 = Len(s) BY <2>2, <2>4
    <3> QED BY <2>2, <3>1, <3>2
  <2>6. Front(a) = s BY <2>5, SeqEqual
  <2>7. Shortened(a) = s BY <2>2, <2>3, <2>6 DEF Shortened, EndsEmpty
  <2>8. Shortened(s) = s BY <1>2 DEF Shortened
  <2>9. Added(s) = a BY <1>2 DEF Added, a
  <2> QED BY <2>7, <2>8, <2>9
<1> QED BY <1>1, <1>2

\* The last hunk on a path is the one just applied, if it is on the path.
LEMMA LastOnNext ==
  ASSUME hunks \in Seq(Hunk), n \in 1..Len(hunks), n' = n + 1, UNCHANGED <<hunks, cwd>>,
         NEW path
  PROVE  LastOn(path)' = IF path \in Puts(hunks[n]) \cup Takes(hunks[n]) THEN n ELSE LastOn(path)
<1> DEFINE On(i) == path \in Puts(hunks[i]) \cup Takes(hunks[i])
           before == {i \in DOMAIN AppliedHunks : On(i)}
           after == {i \in DOMAIN (AppliedHunks') : On(i)}
           Greatest(S) == IF S = {} THEN 0 ELSE CHOOSE i \in S : \A j \in S : j <= i
<1>1. Len(hunks) \in Nat OBVIOUS
<1>2. ASSUME NEW m \in 0..Len(hunks) PROVE DOMAIN SubSeq(hunks, 1, m) = 1..m
  <2>1. m \in Int /\ 1 \in Int BY <1>1
  <2>2. \A i \in 1..m : hunks[i] \in Hunk BY <1>1
  <2>3. /\ SubSeq(hunks, 1, m) \in Seq(Hunk)
        /\ Len(SubSeq(hunks, 1, m)) = IF 1 <= m THEN m - 1 + 1 ELSE 0
    BY <2>1, <2>2, SubSeqProperties
  <2> QED BY <1>1, <2>3
<1>3. DOMAIN AppliedHunks = 1..(n - 1) /\ DOMAIN (AppliedHunks') = 1..n
  <2>1. n - 1 \in 0..Len(hunks) /\ n \in 0..Len(hunks) /\ n' - 1 = n BY <1>1
  <2> QED BY <1>2, <2>1 DEF AppliedHunks
<1>6. LastOn(path) = Greatest(before) BY DEF LastOn, HunksOn
<1>7. LastOn(path)' = Greatest(after)
  <2>1. HunksOn(path)' = after BY DEF HunksOn, Puts, Takes, Named, Candidate, TmpOf
  <2> QED BY <2>1 DEF LastOn
<1> HIDE DEF On
<1>8. CASE On(n)
  <2>1. n \in after /\ \A j \in after : j <= n BY <1>3, <1>8
  <2>2. \A i \in after : (\A j \in after : j <= i) => i = n BY <1>3, <2>1
  <2> HIDE DEF after
  <2>3. Greatest(after) = n BY <2>1, <2>2
  <2> QED BY <1>7, <1>8, <2>3 DEF On
<1>9. CASE ~ On(n)
  <2>1. after = before BY <1>1, <1>3, <1>9
  <2> QED BY <1>6, <1>7, <1>9, <2>1 DEF On
<1> QED BY <1>8, <1>9

\* The tree changed as a hunk says stands as the patch up to it says.
LEMMA AppliedStands ==
  ASSUME PrefixInv, n > 0, n \in DOMAIN hunks, NEW t, Applied(t), Effect(hunks[n], t)
  PROVE  \A path : Stands(path)'
<1> SUFFICES ASSUME NEW path PROVE Stands(path)'
  OBVIOUS
<1>1. /\ was' = t /\ n' = n + 1 /\ UNCHANGED <<request, cwd, hunks>> BY DEF Applied
<1>2. hunks \in Seq(Hunk) /\ n \in 1..Len(hunks) BY DEF PrefixInv, PatchInv, PatchTypeOK
<1>3. LastOn(path)' = IF path \in Puts(hunks[n]) \cup Takes(hunks[n]) THEN n ELSE LastOn(path)
  BY <1>1, <1>2, LastOnNext
<1>4. \A hunk : Puts(hunk)' = Puts(hunk) BY <1>1 DEF Puts, Named, Candidate
<1>5. Stands(path) BY DEF PrefixInv
<1>6. CASE path \in Puts(hunks[n]) \cup Takes(hunks[n])
  <2>1. LastOn(path)' = n BY <1>3, <1>6
  <2>2. path \in DOMAIN t <=> path \in Puts(hunks[n])
    <3>1. hunks[n].type \in {"add", "delete", "update"}
      <4>1. hunks[n] \in Hunk BY <1>2
      <4> QED BY <4>1 DEF Hunk
    <3>2. path \in Takes(hunks[n]) => path \notin Puts(hunks[n]) BY <3>1 DEF Takes, Puts
    <3> QED BY <1>6, <3>2 DEF Effect
  <2>3. hunks[n].type = "add" =>
          path \in DOMAIN t /\ Shortened(t[path]) = Shortened(hunks[n].contents)
    <3>1. hunks[n].type = "add" => Takes(hunks[n]) = {} BY DEF Takes
    <3> QED BY <1>6, <3>1 DEF Effect
  <2> QED BY <1>1, <1>2, <1>4, <2>1, <2>2, <2>3 DEF Stands
<1>7. CASE path \notin Puts(hunks[n]) \cup Takes(hunks[n])
  <2>1. LastOn(path)' = LastOn(path) BY <1>3, <1>7
  <2>2. /\ path \in DOMAIN t <=> path \in DOMAIN was
        /\ path \in DOMAIN t => t[path] = was[path]
    BY <1>7 DEF Effect
  <2> QED BY <1>1, <1>4, <1>5, <2>1, <2>2 DEF Stands
<1> QED BY <1>6, <1>7

\* What an update puts and takes: its target, and the temporary file of that.
LEMMA UpdateNames ==
  ASSUME PatchInv, n \in DOMAIN hunks, hunks[n].type = "update",
         NEW path \in Resolved(hunks[n].path), NEW to \in Destination
  PROVE  /\ Puts(hunks[n]) = {to}
         /\ Takes(hunks[n]) = {path, TmpOf(to)} \ {to}
         /\ TmpOf(to) # to
<1>1. path = Named(hunks[n].path) BY ResolvedIsNamed
<1>2. to = Named(IF hunks[n].move = NoPath THEN hunks[n].path ELSE hunks[n].move)
  BY ResolvedIsNamed DEF Destination
<1>3. Puts(hunks[n]) = {to} BY <1>2 DEF Puts
<1>4. {TmpOf(q) : q \in Puts(hunks[n])} = {TmpOf(to)} BY <1>3
<1>5. Takes(hunks[n]) = {path, TmpOf(to)} \ {to} BY <1>1, <1>3, <1>4 DEF Takes
<1>6. TmpOf(to) # to BY HunkType, TmpOfType
<1> QED BY <1>3, <1>5, <1>6

\* What a write has done.
LEMMA RewrittenIs ==
  ASSUME NEW t, NEW to, NEW content, TmpOf(to) # to
  PROVE  LET w == Rewritten(t, to, content) IN
         /\ to \in DOMAIN w /\ w[to] = content /\ TmpOf(to) \notin DOMAIN w
         /\ \A q : q \notin {to, TmpOf(to)} =>
              /\ q \in DOMAIN w <=> q \in DOMAIN t
              /\ q \in DOMAIN w => w[q] = t[q]
BY DEF Rewritten, With, Without

\* An update that stays where it is has the effect of its hunk.
LEMMA WriteEffect ==
  ASSUME PatchInv, n \in DOMAIN hunks, hunks[n].type = "update", tree = was,
         NEW path \in Resolved(hunks[n].path), path \in Destination
  PROVE  Effect(hunks[n], Rewritten(tree, path, nextContent))
<1> DEFINE w == Rewritten(tree, path, nextContent)
<1>1. /\ Puts(hunks[n]) = {path} /\ Takes(hunks[n]) = {path, TmpOf(path)} \ {path}
      /\ TmpOf(path) # path
  BY UpdateNames
<1>2. /\ path \in DOMAIN w /\ TmpOf(path) \notin DOMAIN w
      /\ \A q : q \notin {path, TmpOf(path)} =>
           /\ q \in DOMAIN w <=> q \in DOMAIN tree
           /\ q \in DOMAIN w => w[q] = tree[q]
  BY <1>1, RewrittenIs
<1> HIDE DEF w
<1> QED BY <1>1, <1>2 DEF Effect, w

\* So has a move, when it has removed the file it has read.
LEMMA MoveEffect ==
  ASSUME PatchInv, n \in DOMAIN hunks, hunks[n].type = "update", HalfMoved,
         NEW path \in Resolved(hunks[n].path)
  PROVE  Effect(hunks[n], Without(tree, path))
<1>1. PICK to \in Destination : to # path /\ tree = Rewritten(was, to, nextContent)
  BY DEF HalfMoved
<1>2. /\ Puts(hunks[n]) = {to} /\ Takes(hunks[n]) = {path, TmpOf(to)} \ {to}
      /\ TmpOf(to) # to
  BY UpdateNames
<1>3. /\ to \in DOMAIN tree /\ TmpOf(to) \notin DOMAIN tree
      /\ \A q : q \notin {to, TmpOf(to)} =>
           /\ q \in DOMAIN tree <=> q \in DOMAIN was
           /\ q \in DOMAIN tree => tree[q] = was[q]
  <2> DEFINE w == Rewritten(was, to, nextContent)
  <2>1. /\ to \in DOMAIN w /\ TmpOf(to) \notin DOMAIN w
        /\ \A q : q \notin {to, TmpOf(to)} =>
             /\ q \in DOMAIN w <=> q \in DOMAIN was
             /\ q \in DOMAIN w => w[q] = was[q]
    BY <1>2, RewrittenIs
  <2> HIDE DEF w
  <2> QED BY <1>1, <2>1 DEF w
<1>4. /\ DOMAIN Without(tree, path) = DOMAIN tree \ {path}
      /\ \A q \in DOMAIN tree \ {path} : Without(tree, path)[q] = tree[q]
  BY DEF Without
<1> QED BY <1>1, <1>2, <1>3, <1>4 DEF Effect

\* What leaves the tree of the last hunk and the place in the patch leaves what stands.
LEMMA StandsStill ==
  ASSUME NEW path, Stands(path), UNCHANGED <<request, cwd, hunks, n, was>>
  PROVE  Stands(path)'
<1>1. \A hunk : Puts(hunk)' = Puts(hunk) /\ Takes(hunk)' = Takes(hunk)
  BY DEF Puts, Takes, Named, Candidate, TmpOf
<1>2. AppliedHunks' = AppliedHunks BY DEF AppliedHunks
<1>3. LastOn(path)' = LastOn(path)
  <2>1. HunksOn(path)' = HunksOn(path) BY <1>2 DEF HunksOn, Puts, Takes, Named, Candidate, TmpOf
  <2> QED BY <2>1 DEF LastOn
<1> QED BY <1>1, <1>3 DEF Stands

\* No step breaks PrefixInv.
LEMMA PrefixInvKept == PrefixInv /\ [PatchNext]_patchVars => PrefixInv'
<1> SUFFICES ASSUME PrefixInv, [PatchNext]_patchVars PROVE PrefixInv'
  OBVIOUS
<1>1. PatchInv' BY PatchInvKept DEF PrefixInv
<1> SUFFICES ASSUME n' > 0 PROVE \A path : Stands(path)'
  BY <1>1 DEF PrefixInv
<1>2. hunks \in Seq(Hunk) /\ n \in 0..(Len(hunks) + 1) /\ PatchInv
  BY DEF PrefixInv, PatchInv, PatchTypeOK
<1>3. at \in {"hunk", "write", "remove"} => n > 0 BY <1>2 DEF PatchInv
<1>4. n > 0 /\ n <= Len(hunks) => n \in DOMAIN hunks BY <1>2
<1>5. CASE UNCHANGED <<request, cwd, hunks, n, was>>
  BY <1>5, StandsStill DEF PrefixInv
<1>6. ASSUME NEW t, FailsWith(t) PROVE \A path : Stands(path)'
  BY <1>5, <1>6 DEF FailsWith
<1>7. CASE Parse
  <2>1. CASE FailPatch BY <1>6, <2>1 DEF FailPatch
  <2>2. CASE n' = 1 /\ UNCHANGED <<request, was>>
    <3>1. was = request.before BY <1>2, <1>7 DEF PatchInv, Parse
    <3>2. DOMAIN (AppliedHunks') = {}
      <4>1. SubSeq(hunks', 1, 0) = <<>> BY SubSeqEmpty
      <4> QED BY <2>2, <4>1 DEF AppliedHunks
    <3>3. ASSUME NEW path PROVE LastOn(path)' = 0
      <4>1. HunksOn(path)' = {} BY <3>2 DEF HunksOn
      <4> QED BY <4>1 DEF LastOn
    <3> QED BY <2>2, <3>1, <3>3 DEF Stands
  <2> QED BY <1>7, <2>1, <2>2 DEF Parse
<1>8. CASE AddFile
  <2>1. n > 0 /\ n \in DOMAIN hunks /\ hunks[n].type = "add" /\ tree = was
    BY <1>2, <1>3, <1>4, <1>8 DEF AddFile, Applies, PatchInv
  <2>2. ASSUME NEW path \in Resolved(hunks[n].path), path \notin DOMAIN tree,
               Applied(With(tree, path, Added(hunks[n].contents)))
        PROVE  \A q : Stands(q)'
    <3>1. Puts(hunks[n]) = {path} /\ Takes(hunks[n]) = {}
      BY <2>1, ResolvedIsNamed DEF Puts, Takes
    <3>2. Shortened(Added(hunks[n].contents)) = Shortened(hunks[n].contents)
      BY <1>2, <2>1, HunkType, ShortenedAdded
    <3>3. Effect(hunks[n], With(tree, path, Added(hunks[n].contents)))
      BY <2>1, <3>1, <3>2 DEF Effect, With
    <3> QED BY <2>1, <2>2, <3>3, AppliedStands
  <2> QED BY <1>6, <1>8, <2>2 DEF AddFile, FailPatch
<1>9. CASE DeleteFile
  <2>1. n > 0 /\ n \in DOMAIN hunks /\ hunks[n].type = "delete" /\ tree = was
    BY <1>2, <1>3, <1>4, <1>9 DEF DeleteFile, Applies, PatchInv
  <2>2. ASSUME NEW path \in Resolved(hunks[n].path), Applied(Without(tree, path))
        PROVE  \A q : Stands(q)'
    <3>1. Puts(hunks[n]) = {} /\ Takes(hunks[n]) = {path}
      BY <2>1, ResolvedIsNamed DEF Puts, Takes
    <3>2. Effect(hunks[n], Without(tree, path)) BY <2>1, <3>1 DEF Effect, Without
    <3> QED BY <2>1, <2>2, <3>2, AppliedStands
  <2> QED BY <1>6, <1>9, <2>2 DEF DeleteFile, FailPatch
<1>10. CASE WriteUpdate
  <2>1. /\ n > 0 /\ n \in DOMAIN hunks /\ hunks[n].type = "update" /\ tree = was
    BY <1>2, <1>3, <1>4, <1>10 DEF WriteUpdate, PatchInv, Updating
  <2>2. ASSUME NEW path \in Resolved(hunks[n].path), path \in Destination,
               Applied(Rewritten(tree, path, nextContent))
        PROVE  \A q : Stands(q)'
    <3>1. Effect(hunks[n], Rewritten(tree, path, nextContent)) BY <1>2, <2>1, <2>2, WriteEffect
    <3> QED BY <2>1, <2>2, <3>1, AppliedStands
  <2> QED BY <1>5, <1>6, <1>10, <2>2 DEF WriteUpdate, FailPatch
<1>11. CASE RemoveSource
  <2>1. n > 0 /\ n \in DOMAIN hunks /\ hunks[n].type = "update" /\ HalfMoved
    BY <1>2, <1>3, <1>4, <1>11 DEF RemoveSource, PatchInv, Updating
  <2>2. ASSUME NEW path \in Resolved(hunks[n].path), Applied(Without(tree, path))
        PROVE  \A q : Stands(q)'
    <3>1. Effect(hunks[n], Without(tree, path)) BY <1>2, <2>1, MoveEffect
    <3> QED BY <2>1, <2>2, <3>1, AppliedStands
  <2> QED BY <1>6, <1>11, <2>2 DEF RemoveSource, FailPatch
<1>12. CASE Forbidden \/ ReadUpdate \/ Derive \/ Derived \/ DeriveFails \/ Answer
  BY <1>5, <1>6, <1>12 DEF Forbidden, ReadUpdate, Derive, Derived, DeriveFails, Answer, FailPatch
<1>13. CASE UNCHANGED patchVars BY <1>5, <1>13 DEF patchVars
<1> QED BY <1>7, <1>8, <1>9, <1>10, <1>11, <1>12, <1>13 DEF PatchNext

\* With whatever paths and however it ends, a patch leaves the tree before it
\* changed by the hunks it got to, in their order, and by nothing else, when it
\* has not failed; and the hunk that fails has begun with such a tree.
THEOREM PatchLeavesAPrefix == PatchSpec => []PatchIsAPrefix
<1>1. PatchInit => PrefixInv
  BY PatchInvInit DEF PatchInit, Asked, PrefixInv
<1>2. PrefixInv => PatchIsAPrefix
  BY DEF PrefixInv, PatchInv, Stands, PatchIsAPrefix
<1> QED BY <1>1, <1>2, PrefixInvKept, PTL DEF PatchSpec

-----------------------------------------------------------------------------
(* What a hunk that is not done has changed.                               *)

\* A tree that the hunk under way may have made.
Keeps(hunk, t) ==
  LET tmps == IF hunk.type = "update" THEN {TmpOf(path) : path \in Puts(hunk)} ELSE {} IN
  \A path \in (DOMAIN t \cup DOMAIN was) \ tmps :
    \/ path \in DOMAIN t \cap DOMAIN was /\ t[path] = was[path]
    \/ /\ path \in DOMAIN t /\ path \in Puts(hunk)
       /\ IF hunk.type = "add"
          THEN path \notin DOMAIN was /\ t[path] \in PartsOf(Added(hunk.contents))
          ELSE t[path] = nextContent

\* What a step leaves alone that makes such a tree, or has made one, it has kept.
LEMMA KeepsKept ==
  ASSUME NEW t, tree' = t, Keeps(hunks[n], t), UNCHANGED <<cwd, hunks, n, nextContent, was>>
  PROVE  FailedHunkKeepsFiles'
<1>1. Puts(hunks[n])' = Puts(hunks[n]) BY DEF Puts, Named, Candidate
<1>2. hunks[n]' = hunks[n] OBVIOUS
<1>3. \A path :
        MayLeave(hunks[n], path)' <=>
          IF hunks[n].type = "add"
          THEN path \notin DOMAIN was /\ t[path] \in PartsOf(Added(hunks[n].contents))
          ELSE t[path] = nextContent
  BY DEF MayLeave, PartsOf, Added, EndsEmpty
<1> QED BY <1>1, <1>2, <1>3 DEF FailedHunkKeepsFiles, Keeps

\* No step breaks FailedHunkKeepsFiles.
LEMMA FailedHunkKept ==
  PatchInv /\ FailedHunkKeepsFiles /\ [PatchNext]_patchVars => FailedHunkKeepsFiles'
<1> SUFFICES ASSUME PatchInv, FailedHunkKeepsFiles, [PatchNext]_patchVars,
                    at' \in {"remove", "failed"}, n' > 0
             PROVE  FailedHunkKeepsFiles'
  BY DEF FailedHunkKeepsFiles
<1>1. CASE tree = was /\ FailPatch
  <2>1. Keeps(hunks[n], tree) BY <1>1 DEF Keeps
  <2> QED BY <1>1, <2>1, KeepsKept DEF FailPatch, FailsWith
<1>2. CASE Parse \/ Forbidden \/ DeleteFile \/ ReadUpdate \/ DeriveFails
  BY <1>1, <1>2
  DEF Parse, Forbidden, DeleteFile, ReadUpdate, DeriveFails, Applies, Applied, PatchInv
<1>3. CASE AddFile
  <2>1. hunks[n].type = "add" /\ tree = was BY <1>3 DEF AddFile, Applies, PatchInv
  <2>2. ASSUME NEW path \in Resolved(hunks[n].path), path \notin DOMAIN tree,
               NEW part \in PartsOf(Added(hunks[n].contents)), FailsWith(With(tree, path, part))
        PROVE  FailedHunkKeepsFiles'
    <3>1. Puts(hunks[n]) = {path} BY <2>1, ResolvedIsNamed DEF Puts
    <3>2. Keeps(hunks[n], With(tree, path, part)) BY <2>1, <2>2, <3>1 DEF Keeps, With
    <3> QED BY <2>2, <3>2, KeepsKept DEF FailsWith
  <2> QED BY <1>1, <1>3, <2>1, <2>2 DEF AddFile, Applied
<1>4. CASE WriteUpdate
  <2>1. n \in DOMAIN hunks /\ hunks[n].type = "update" /\ tree = was
    <3>1. hunks \in Seq(Hunk) /\ n \in 0..(Len(hunks) + 1) BY DEF PatchInv, PatchTypeOK
    <3> QED BY <1>4, <3>1 DEF WriteUpdate, PatchInv, Updating
  <2>2. ASSUME NEW path \in Resolved(hunks[n].path), NEW to \in Destination,
               NEW t \in HalfWritten(tree, to, nextContent)
        PROVE  Keeps(hunks[n], t)
    <3>1. Puts(hunks[n]) = {to} /\ TmpOf(to) # to BY <2>1, UpdateNames
    <3>2. {TmpOf(q) : q \in Puts(hunks[n])} = {TmpOf(to)} BY <3>1
    <3>3. CASE t = tree BY <2>1, <3>3 DEF Keeps
    <3>4. CASE t = Rewritten(tree, to, nextContent)
      <4>1. /\ to \in DOMAIN t /\ t[to] = nextContent
            /\ \A q : q \notin {to, TmpOf(to)} =>
                 /\ q \in DOMAIN t <=> q \in DOMAIN was
                 /\ q \in DOMAIN t => t[q] = was[q]
        BY <2>1, <3>1, <3>4, RewrittenIs
      <4> QED BY <2>1, <3>1, <3>2, <4>1 DEF Keeps
    <3>5. CASE \E part : t = With(tree, TmpOf(to), part)
      BY <2>1, <3>1, <3>2, <3>5 DEF Keeps, With
    <3> QED BY <3>3, <3>4, <3>5 DEF HalfWritten
  <2>3. ASSUME NEW path \in Resolved(hunks[n].path), NEW to \in Destination,
               NEW t \in HalfWritten(tree, to, nextContent), FailsWith(t)
        PROVE  FailedHunkKeepsFiles'
    BY <2>2, <2>3, KeepsKept DEF FailsWith
  <2>4. ASSUME NEW path \in Resolved(hunks[n].path), NEW to \in Destination,
               tree' = Rewritten(tree, to, nextContent),
               UNCHANGED <<cwd, hunks, n, nextContent, was>>
        PROVE  FailedHunkKeepsFiles'
    BY <2>2, <2>4, KeepsKept DEF HalfWritten
  <2> QED BY <1>1, <1>4, <2>1, <2>3, <2>4 DEF WriteUpdate, Applied
<1>5. CASE RemoveSource
  <2>1. at = "remove" /\ n > 0 /\ FailPatch BY <1>5 DEF RemoveSource, Applied, PatchInv
  <2>2. Keeps(hunks[n], tree) BY <2>1 DEF FailedHunkKeepsFiles, Keeps, MayLeave
  <2> QED BY <2>1, <2>2, KeepsKept DEF FailPatch, FailsWith
<1>6. CASE Derive \/ Derived \/ Answer
  <2>1. CASE Derive
    <3>1. at \in {"remove", "failed"} /\ pc # "idle"
      BY <2>1 DEF Derive, DerivationStep, PlaceChunk, PlaceFrom, Placed, Make, Finish, Replace, Fail
    <3> QED BY <3>1 DEF PatchInv, PatchTypeOK
  <2> QED BY <1>6, <2>1 DEF Derived, Answer
<1>7. CASE UNCHANGED patchVars
  <2>1. UNCHANGED <<at, cwd, hunks, n, nextContent, tree, was>> BY <1>7 DEF patchVars
  <2>2. Keeps(hunks[n], tree) BY <2>1 DEF FailedHunkKeepsFiles, Keeps, MayLeave
  <2> QED BY <2>1, <2>2, KeepsKept
<1> QED BY <1>2, <1>3, <1>4, <1>5, <1>6, <1>7 DEF PatchNext

\* Whatever call of a hunk fails, and between the two steps of a move, no file is
\* lost: the source is there and the target is there as before or whole.
THEOREM FailedHunkLosesNothing == PatchSpec => []FailedHunkKeepsFiles
<1>1. PatchInit => PatchInv /\ FailedHunkKeepsFiles
  BY PatchInvInit DEF PatchInit, Asked, FailedHunkKeepsFiles
<1> QED BY <1>1, PatchInvKept, FailedHunkKept, PTL DEF PatchSpec
=============================================================================

------------------------- MODULE PatchMeaningProofs -------------------------
(***************************************************************************)
(* The file that an update makes is the one its chunks mean, for every     *)
(* file and every sequence of chunks: with each place found goes the walk  *)
(* down the file that the chunks so far stand for, and each replacement    *)
(* made, from the last to the first, leaves the end of the file as that    *)
(* walk has written it.                                                    *)
(*                                                                         *)
(* And a text is read as it was meant, for every sequence of hunks: the    *)
(* lines of the tidy text lead the parser from hunk to hunk, and in a text *)
(* with other lines among them it stands where the next line of the tidy   *)
(* one takes it to the same.                                               *)
(***************************************************************************)
EXTENDS PatchProofs
LOCAL INSTANCE SequencesExt

-----------------------------------------------------------------------------
(* Sequences put together and taken apart.                                 *)

\* The parts of a concatenation.
LEMMA Parts ==
  ASSUME NEW D, NEW s \in Seq(D), NEW t \in Seq(D)
  PROVE  /\ \A i \in 0..Len(s) : SubSeq(s \o t, 1, i) = SubSeq(s, 1, i)
         /\ SubSeq(s \o t, Len(s) + 1, Len(s \o t)) = t
<1>1. Len(s) \in Nat /\ Len(t) \in Nat OBVIOUS
<1>2. s \o t \in Seq(D) /\ Len(s \o t) = Len(s) + Len(t) BY ConcatProperties
<1>3. ASSUME NEW i \in 0..Len(s) PROVE SubSeq(s \o t, 1, i) = SubSeq(s, 1, i)
  <2>1. CASE i = 0
    <3>1. 1 \in Int /\ 0 \in Int /\ 0 < 1 OBVIOUS
    <3>2. SubSeq(s \o t, 1, 0) = <<>> /\ SubSeq(s, 1, 0) = <<>> BY <3>1, SubSeqEmpty
    <3> QED BY <2>1, <3>2
  <2>2. CASE i # 0
    <3>1. 1 \in 1..Len(s) /\ i \in 1..Len(s) BY <1>1, <2>2
    <3> QED BY <3>1, SubSeqOfConcat1
  <2> QED BY <2>1, <2>2
<1>4. SubSeq(s \o t, Len(s) + 1, Len(s) + Len(t)) = t
  <2>1. CASE t = <<>>
    <3>1. Len(t) = 0 BY <2>1
    <3>2. Len(s) + 1 \in Int /\ Len(s) + Len(t) \in Int /\ Len(s) + Len(t) < Len(s) + 1
      BY <1>1, <3>1
    <3> QED BY <2>1, <3>2, SubSeqEmpty
  <2>2. CASE t # <<>>
    <3>1. Len(t) \in Nat \ {0} BY <2>2, EmptySeq
    <3>2. /\ Len(s) + 1 \in (Len(s) + 1)..(Len(s) + Len(t))
          /\ Len(s) + Len(t) \in (Len(s) + 1)..(Len(s) + Len(t))
      BY <1>1, <3>1
    <3>3. SubSeq(s \o t, Len(s) + 1, Len(s) + Len(t))
            = SubSeq(t, Len(s) + 1 - Len(s), Len(s) + Len(t) - Len(s))
      BY <3>2, SubSeqOfConcat2
    <3>4. Len(s) + 1 - Len(s) = 1 /\ Len(s) + Len(t) - Len(s) = Len(t) BY <1>1
    <3>5. SubSeq(t, 1, Len(t)) = t BY SubSeqFull
    <3> QED BY <3>3, <3>4, <3>5
  <2> QED BY <2>1, <2>2
<1> QED BY <1>2, <1>3, <1>4

\* The beginning of a beginning.
LEMMA Beginning ==
  ASSUME NEW D, NEW s \in Seq(D), NEW a \in 0..Len(s), NEW b \in 0..a
  PROVE  /\ SubSeq(s, 1, a) \in Seq(D) /\ Len(SubSeq(s, 1, a)) = a
         /\ SubSeq(SubSeq(s, 1, a), 1, b) = SubSeq(s, 1, b)
         /\ SubSeq(s, b + 1, a) \in Seq(D)
         /\ SubSeq(s, 1, b) \o SubSeq(s, b + 1, a) = SubSeq(s, 1, a)
<1>1. Len(s) \in Nat /\ a \in Nat /\ b \in Nat /\ b <= a /\ a <= Len(s) OBVIOUS
<1>2. ASSUME NEW c \in 0..Len(s), NEW d \in 1..(c + 1) PROVE SubSeq(s, d, c) \in Seq(D)
  <2>1. \A i \in d..c : s[i] \in D BY <1>1
  <2>2. c \in Int /\ d \in Int BY <1>1
  <2> QED BY <2>1, <2>2, SubSeqProperties
<1>3. ASSUME NEW c \in 0..Len(s)
      PROVE  /\ Len(SubSeq(s, 1, c)) = c
             /\ \A i \in 1..c : SubSeq(s, 1, c)[i] = s[i]
  <2>1. \A i \in 1..c : s[i] \in D BY <1>1
  <2>2. c \in Int /\ 1 \in Int /\ c \in Nat BY <1>1
  <2>3. /\ Len(SubSeq(s, 1, c)) = IF 1 <= c THEN c - 1 + 1 ELSE 0
        /\ \A i \in 1..(c - 1 + 1) : SubSeq(s, 1, c)[i] = s[1 + i - 1]
    BY <2>1, <2>2, SubSeqProperties
  <2>4. c - 1 + 1 = c /\ \A i \in 1..c : 1 + i - 1 = i BY <2>2
  <2> QED BY <2>2, <2>3, <2>4
<1>4. /\ SubSeq(s, 1, a) \in Seq(D) /\ SubSeq(s, 1, b) \in Seq(D)
      /\ SubSeq(s, b + 1, a) \in Seq(D)
  <2>1. a \in 0..Len(s) /\ b \in 0..Len(s) /\ 1 \in 1..(a + 1) /\ 1 \in 1..(b + 1)
        /\ b + 1 \in 1..(a + 1)
    BY <1>1
  <2> QED BY <1>2, <2>1
<1>5. SubSeq(s, 1, b) \o SubSeq(s, b + 1, a) = SubSeq(s, 1, a)
  <2>1. 1 \in 1..(Len(s) + 1) /\ b \in (1 - 1)..Len(s) /\ a \in b..Len(s) BY <1>1
  <2> QED BY <2>1, ConcatAdjacentSubSeq
<1>6. SubSeq(SubSeq(s, 1, a), 1, b) = SubSeq(s, 1, b)
  <2>1. Len(SubSeq(s, 1, b)) = b /\ b \in 0..Len(SubSeq(s, 1, b)) BY <1>1, <1>3
  <2>2. SubSeq(SubSeq(s, 1, b) \o SubSeq(s, b + 1, a), 1, b) = SubSeq(SubSeq(s, 1, b), 1, b)
    BY <1>4, <2>1, Parts
  <2>3. SubSeq(SubSeq(s, 1, b), 1, Len(SubSeq(s, 1, b))) = SubSeq(s, 1, b)
    BY <1>4, SubSeqFull
  <2> QED BY <1>5, <2>1, <2>2, <2>3
<1> QED BY <1>3, <1>4, <1>5, <1>6

\* A replacement at the end of a first part leaves the second.
LEMMA SplicedEnd ==
  ASSUME NEW s \in Seq(Line), NEW t \in Seq(Line), NEW r \in Replacement,
         r.start + r.oldLen = Len(s)
  PROVE  /\ r.start + r.oldLen <= Len(s \o t)
         /\ Spliced(s \o t, r) = SubSeq(s, 1, r.start) \o (r.new \o t)
<1>1. /\ r.start \in Nat /\ r.oldLen \in Nat /\ r.new \in Seq(Line)
      /\ Len(s) \in Nat /\ Len(t) \in Nat
  BY DEF Replacement
<1>2. s \o t \in Seq(Line) /\ Len(s \o t) = Len(s) + Len(t) BY ConcatProperties
<1>3. r.start \in 0..Len(s) BY <1>1
<1>4. SubSeq(s \o t, 1, r.start) = SubSeq(s, 1, r.start) BY <1>3, Parts
<1>5. SubSeq(s \o t, Len(s) + 1, Len(s \o t)) = t BY Parts
<1>6. Spliced(s \o t, r) = SubSeq(s, 1, r.start) \o r.new \o t
  BY <1>4, <1>5 DEF Spliced
<1>7. SubSeq(s, 1, r.start) \in Seq(Line)
  <2>1. r.start \in 0..Len(s) /\ r.start \in 0..r.start BY <1>1, <1>3
  <2> QED BY <2>1, Beginning
<1>8. SubSeq(s, 1, r.start) \o r.new \o t = SubSeq(s, 1, r.start) \o (r.new \o t)
  <2> DEFINE a == SubSeq(s, 1, r.start)
             b == r.new
  <2>1. a \in Seq(Line) /\ b \in Seq(Line) BY <1>1, <1>7
  <2> HIDE DEF a, b
  <2>2. (a \o b) \o t = a \o (b \o t) BY SMTT(30), <2>1, ConcatAssociative
  <2> QED BY <2>2 DEF a, b
<1>9. r.start + r.oldLen <= Len(s \o t) BY <1>1, <1>2
<1> QED BY <1>6, <1>8, <1>9

-----------------------------------------------------------------------------
(* Walks down the file.                                                    *)

WalkType == [from : Nat, copied : Nat, out : Seq(Line), tail : Seq(Line)]

NoWalk == Walk(0, 0, <<>>, <<>>)

\* The walk v over one more chunk, which r replaces.
Further(v, r, next) ==
  IF r.oldLen = 0 THEN Walk(next, v.copied, v.out, v.tail \o r.new)
  ELSE Walk(next, next, v.out \o SubSeq(lines, v.copied + 1, r.start) \o r.new, v.tail)

\* What the chunk says is one of the ways to read it.
LEMMA ReadingType ==
  ASSUME NEW chunk \in Chunk, NEW reading \in Readings(chunk), chunk.old # <<>>
  PROVE  reading[1] \in Seq(Line) /\ reading[2] \in Seq(Line)
<1>1. chunk.old \in Seq(Line) /\ chunk.new \in Seq(Line) BY DEF Chunk
<1>2. Front(chunk.old) \in Seq(Line) BY <1>1, FrontAndLast
<1>3. Shortened(chunk.new) \in Seq(Line)
  BY <1>1, FrontAndLast DEF Shortened, EndsEmpty
<1>4. \/ reading = <<chunk.old, chunk.new>>
      \/ reading = <<Front(chunk.old), Shortened(chunk.new)>>
  BY DEF Readings
<1> QED BY <1>1, <1>2, <1>3, <1>4

\* A walk goes on as a walk.
LEMMA WalksOnType ==
  ASSUME lines \in Seq(Line), NEW chunk \in Chunk, NEW v \in WalkType
  PROVE  WalksOn(v, chunk) \subseteq WalkType
<1> SUFFICES ASSUME NEW w \in WalksOn(v, chunk) PROVE w \in WalkType
  OBVIOUS
<1>1. Len(lines) \in Nat OBVIOUS
<1>2. /\ v.from \in Nat /\ v.copied \in Nat /\ v.out \in Seq(Line) /\ v.tail \in Seq(Line)
      /\ chunk.new \in Seq(Line)
  BY DEF WalkType, Chunk
<1>3. ASSUME NEW from \in Nat, NEW pattern, NEW i \in Places(pattern, from), Len(pattern) \in Nat
      PROVE  i \in 0..Len(lines)
  BY <1>1, <1>3 DEF Places
<1>4. Froms(chunk, v.from) \subseteq Nat
  <2>1. CASE chunk.context = Empty BY <1>2, <2>1 DEF Froms
  <2>2. CASE chunk.context # Empty
    <3>1. Len(<<chunk.context>>) \in Nat OBVIOUS
    <3>2. Places(<<chunk.context>>, v.from) \subseteq 0..Len(lines) BY <1>2, <1>3, <3>1
    <3> QED BY <2>2, <3>2 DEF Froms
  <2> QED BY <2>1, <2>2
<1>5. CASE chunk.old = <<>>
  <2>1. PICK from \in Froms(chunk, v.from) :
          w = Walk(from, v.copied, v.out, v.tail \o chunk.new)
    BY <1>5 DEF WalksOn, Froms
  <2>2. v.tail \o chunk.new \in Seq(Line) BY <1>2, ConcatProperties
  <2> QED BY <1>2, <1>4, <2>1, <2>2 DEF Walk, WalkType
<1>6. CASE chunk.old # <<>>
  <2>1. PICK reading \in Readings(chunk) : \E from \in Froms(chunk, v.from) :
          \E i \in Places(reading[1], from) :
            w = Walk(i + Len(reading[1]), i + Len(reading[1]),
                     v.out \o SubSeq(lines, v.copied + 1, i) \o reading[2], v.tail)
    BY <1>6 DEF WalksOn, Froms
  <2>2. PICK from \in Froms(chunk, v.from) : \E i \in Places(reading[1], from) :
            w = Walk(i + Len(reading[1]), i + Len(reading[1]),
                     v.out \o SubSeq(lines, v.copied + 1, i) \o reading[2], v.tail)
    BY <2>1
  <2>3. PICK i \in Places(reading[1], from) :
            w = Walk(i + Len(reading[1]), i + Len(reading[1]),
                     v.out \o SubSeq(lines, v.copied + 1, i) \o reading[2], v.tail)
    BY <2>2
  <2>4. reading[1] \in Seq(Line) /\ reading[2] \in Seq(Line) BY <1>6, ReadingType
  <2>5. Len(reading[1]) \in Nat BY <2>4
  <2>6. i \in 0..Len(lines) BY <1>3, <1>4, <2>5
  <2>7. SubSeq(lines, v.copied + 1, i) \in Seq(Line)
    <3>1. \A j \in (v.copied + 1)..i : lines[j] \in Line BY <1>1, <1>2, <2>6
    <3>2. v.copied + 1 \in Int /\ i \in Int BY <1>2, <2>6
    <3> QED BY <3>1, <3>2, SubSeqProperties
  <2>8. v.out \o SubSeq(lines, v.copied + 1, i) \o reading[2] \in Seq(Line)
    <3> DEFINE mid == SubSeq(lines, v.copied + 1, i)
               new == reading[2]
    <3>1. mid \in Seq(Line) /\ new \in Seq(Line) BY <2>4, <2>7
    <3> HIDE DEF mid, new
    <3>2. v.out \o mid \o new \in Seq(Line) BY <1>2, <3>1, ConcatProperties
    <3> QED BY <3>2 DEF mid, new
  <2>9. i + Len(reading[1]) \in Nat BY <2>5, <2>6
  <2> QED BY <1>2, <2>3, <2>8, <2>9 DEF Walk, WalkType
<1> QED BY <1>5, <1>6

\* A replacement that fits its chunk takes the walk where the chunk may.
LEMMA FurtherIsOn ==
  ASSUME DerivationTypeOK, NEW chunk \in Chunk, NEW v \in WalkType, v.from = lineIndex,
         NEW from \in Froms(chunk, lineIndex), NEW r \in Replacement, NEW next \in Nat,
         Fits(r, chunk, from, next)
  PROVE  Further(v, r, next) \in WalksOn(v, chunk)
<1>1. r.oldLen = 0 <=> chunk.old = <<>> BY FitsBounds
<1>2. CASE chunk.old = <<>>
  <2>1. r.new = chunk.new /\ next = from BY <1>2 DEF Fits
  <2>2. Further(v, r, next) = Walk(from, v.copied, v.out, v.tail \o chunk.new)
    BY <1>1, <1>2, <2>1 DEF Further
  <2>3. WalksOn(v, chunk) =
          {Walk(place, v.copied, v.out, v.tail \o chunk.new) : place \in Froms(chunk, lineIndex)}
    BY <1>2 DEF WalksOn, Froms
  <2> QED BY <2>2, <2>3
<1>3. CASE chunk.old # <<>>
  <2>1. PICK reading \in Readings(chunk) : \E i \in Places(reading[1], from) :
          /\ reading[1] # <<>>
          /\ r = [start |-> i, oldLen |-> Len(reading[1]), new |-> reading[2]]
          /\ next = i + Len(reading[1])
    BY <1>3 DEF Fits
  <2>2. PICK i \in Places(reading[1], from) :
          /\ r = [start |-> i, oldLen |-> Len(reading[1]), new |-> reading[2]]
          /\ next = i + Len(reading[1])
    BY <2>1
  <2>3. r.start = i /\ r.new = reading[2] BY <2>2
  <2> DEFINE w == Walk(i + Len(reading[1]), i + Len(reading[1]),
                       v.out \o SubSeq(lines, v.copied + 1, i) \o reading[2], v.tail)
  <2>4. Further(v, r, next) = w BY <1>1, <1>3, <2>2, <2>3 DEF Further
  <2>5. w \in WalksOn(v, chunk)
    <3> DEFINE At(rd, place) ==
                 {Walk(j + Len(rd[1]), j + Len(rd[1]),
                       v.out \o SubSeq(lines, v.copied + 1, j) \o rd[2], v.tail) :
                    j \in Places(rd[1], place)}
               Read(rd) == UNION {At(rd, place) : place \in Froms(chunk, lineIndex)}
    <3>1. WalksOn(v, chunk) = UNION {Read(rd) : rd \in Readings(chunk)}
      BY <1>3 DEF WalksOn, Froms
    <3>2. w \in At(reading, from) OBVIOUS
    <3> HIDE DEF At, w
    <3>3. w \in Read(reading) BY <3>2
    <3> HIDE DEF Read
    <3> QED BY <3>1, <3>3
  <2> QED BY <2>4, <2>5
<1> QED BY <1>2, <1>3

\* The walk over the first j chunks is one the first j chunks mean.
LEMMA TrailWalks ==
  ASSUME lines \in Seq(Line), chunks \in Seq(Chunk),
         NEW trail \in [0..Len(chunks) -> WalkType], trail[0] = NoWalk,
         \A j \in DOMAIN chunks : trail[j] \in WalksOn(trail[j - 1], chunks[j])
  PROVE  trail[Len(chunks)] \in Walks
<1> DEFINE Goes(f) == f = [i \in 0..Len(chunks) |->
             IF i = 0 THEN {Walk(0, 0, <<>>, <<>>)}
             ELSE UNION {WalksOn(w, chunks[i]) : w \in f[i - 1]}]
           All == SUBSET WalkType
           base == {NoWalk}
           step == [i \in 1..Len(chunks) |-> [ws \in All |->
                      UNION {WalksOn(w, chunks[i]) : w \in ws}]]
           f == CHOOSE walks : Goes(walks)
           S == {i \in Nat : i \in 0..Len(chunks) => trail[i] \in f[i]}
<1>1. Len(chunks) \in Nat /\ DOMAIN chunks = 1..Len(chunks)
      /\ \A i \in 1..Len(chunks) : chunks[i] \in Chunk
  OBVIOUS
<1>2. base \in All
  <2>1. <<>> \in Seq(Line) OBVIOUS
  <2> QED BY <2>1 DEF NoWalk, Walk, WalkType
<1>3. ASSUME NEW ws \in All, NEW i \in 1..Len(chunks)
      PROVE  UNION {WalksOn(w, chunks[i]) : w \in ws} \in All
  <2>1. \A w \in ws : WalksOn(w, chunks[i]) \subseteq WalkType BY <1>1, WalksOnType
  <2> QED BY <2>1
<1>4. \E g : Goes(g)
  <2>1. step \in [1..Len(chunks) -> [All -> All]] BY <1>3
  <2> HIDE DEF step, All, base
  <2>2. PICK g \in [0..Len(chunks) -> All] : Follows(g, base, step, Len(chunks))
    BY <1>1, <1>2, <2>1, RecursionExists
  <2>3. g[0] = base /\ \A i \in 1..Len(chunks) : g[i] = step[i][g[i - 1]] BY <2>2 DEF Follows
  <2>4. ASSUME NEW i \in 1..Len(chunks)
        PROVE  g[i] = UNION {WalksOn(w, chunks[i]) : w \in g[i - 1]}
    <3>1. g[i - 1] \in All BY SMTT(30), <1>1, <2>2
    <3>2. step[i][g[i - 1]] = UNION {WalksOn(w, chunks[i]) : w \in g[i - 1]} BY <3>1 DEF step
    <3> QED BY <2>3, <3>2
  <2>5. \A i \in 0..Len(chunks) : g[i] =
          IF i = 0 THEN {Walk(0, 0, <<>>, <<>>)} ELSE UNION {WalksOn(w, chunks[i]) : w \in g[i - 1]}
    BY <1>1, <2>3, <2>4 DEF base, NoWalk
  <2>6. g = [i \in 0..Len(chunks) |-> g[i]] BY <2>2
  <2> QED BY <2>5, <2>6
<1>5. Goes(f) BY <1>4
<1>6. Walks = f[Len(chunks)] BY DEF Walks
<1> HIDE DEF f
<1>7. 0 \in S BY <1>5 DEF NoWalk
<1>8. ASSUME NEW i \in Nat, i \in S PROVE i + 1 \in S
  <2> SUFFICES ASSUME i + 1 \in 0..Len(chunks) PROVE trail[i + 1] \in f[i + 1]
    OBVIOUS
  <2>1. trail[i] \in f[i] BY <1>1, <1>8
  <2>2. f[i + 1] = UNION {WalksOn(w, chunks[i + 1]) : w \in f[i]}
    <3>1. f[i + 1] = UNION {WalksOn(w, chunks[i + 1]) : w \in f[(i + 1) - 1]}
      <4>1. i + 1 # 0 OBVIOUS
      <4> QED BY <1>5, <4>1
    <3>2. (i + 1) - 1 = i OBVIOUS
    <3> QED BY <3>1, <3>2
  <2>3. trail[i + 1] \in WalksOn(trail[i], chunks[i + 1])
    <3>1. i + 1 \in DOMAIN chunks /\ (i + 1) - 1 = i BY <1>1
    <3> QED BY <3>1
  <2> QED BY <2>1, <2>2, <2>3
<1>9. Nat \subseteq S
  <2> HIDE DEF S
  <2> QED BY <1>7, <1>8, NatInductionOnSets
<1> QED BY <1>1, <1>6, <1>9

-----------------------------------------------------------------------------
(* The walk that goes with the replacements.                               *)

\* w is v gone on over the chunk, which r replaces.
Leg(v, w, r, chunk) ==
  /\ w \in WalksOn(v, chunk) /\ w = Further(v, r, w.from)
  /\ r.oldLen = 0 <=> chunk.old = <<>>
  /\ r.oldLen = 0 => r.start = Len(lines)
  /\ r.oldLen > 0 => w.from = r.start + r.oldLen
  /\ v.from <= r.start /\ r.start + r.oldLen <= Len(lines)

\* The walks over the chunks placed so far, each one chunk longer than the last.
\* Only chunks that add lines leave something for the end of the file.
IsTrail(trail) ==
  /\ trail \in [0..Len(replacements) -> WalkType]
  /\ trail[0] = NoWalk
  /\ \A j \in 0..Len(replacements) :
       /\ trail[j].copied <= trail[j].from /\ trail[j].from <= Len(lines)
       /\ trail[j].tail = <<>> \/ \E i \in 1..j : replacements[i].oldLen = 0
  /\ \A j \in DOMAIN replacements : Leg(trail[j - 1], trail[j], replacements[j], chunks[j])

\* The file that a walk writes.
Written(w) == w.out \o SubSeq(lines, w.copied + 1, Len(lines)) \o w.tail

\* The file is as far as the walk over i chunks has come what it was, and from
\* there what it will be.
EndMade(trail, i, made) ==
  \E t \in Seq(Line) :
    /\ made = SubSeq(lines, 1, trail[i].copied) \o t
    /\ Written(trail[Len(replacements)]) = trail[i].out \o t

\* With i replacements still to make: those made have added lines to the end of
\* the file, or no other is left and they have made the end of it what it will be.
RestAt(trail, i, made) ==
  LET v == trail[i]
      last == trail[Len(replacements)]
  IN \/ \E t \in Seq(Line) :
          /\ made = lines \o t
          /\ last.tail = v.tail \o t /\ last.out = v.out /\ last.copied = v.copied
     \/ (\A j \in 1..i : replacements[j].oldLen > 0) /\ EndMade(trail, i, made)

\* Concatenations of three, put together either way.
LEMMA Regroup == \A s, t, u \in Seq(Line) : (s \o t) \o u = s \o (t \o u)
BY ConcatAssociative

\* The parts of a walk.
LEMMA WalkParts ==
  ASSUME NEW from, NEW copied, NEW out, NEW tail
  PROVE  LET w == Walk(from, copied, out, tail) IN
         w.from = from /\ w.copied = copied /\ w.out = out /\ w.tail = tail
BY DEF Walk

\* The parts of what is known of a derivation, by name.
LEMMA TrailFacts ==
  ASSUME DerivationTypeOK, NEW trail, IsTrail(trail), NEW i \in 0..Len(replacements)
  PROVE  /\ lines \in Seq(Line) /\ Len(lines) \in Nat /\ Len(replacements) \in Nat
         /\ trail[i] \in WalkType /\ trail[i].out \in Seq(Line) /\ trail[i].tail \in Seq(Line)
         /\ trail[i].copied \in 0..Len(lines) /\ trail[i].from \in trail[i].copied..Len(lines)
<1>1. lines \in Seq(Line) /\ replacements \in Seq(Replacement) BY DEF DerivationTypeOK
<1>2. Len(lines) \in Nat /\ Len(replacements) \in Nat BY <1>1
<1>3. trail[i] \in WalkType BY DEF IsTrail
<1>4. trail[i].copied <= trail[i].from /\ trail[i].from <= Len(lines) BY DEF IsTrail
<1>5. /\ trail[i].copied \in Nat /\ trail[i].from \in Nat
      /\ trail[i].out \in Seq(Line) /\ trail[i].tail \in Seq(Line)
  BY <1>3 DEF WalkType
<1> QED BY <1>1, <1>2, <1>3, <1>4, <1>5

\* Once no addition is left, the end of the file is what it will be.
LEMMA AdditionsMade ==
  ASSUME DerivationTypeOK, NEW trail, IsTrail(trail), NEW i \in 0..Len(replacements),
         NEW made, RestAt(trail, i, made), \A j \in 1..i : replacements[j].oldLen > 0
  PROVE  EndMade(trail, i, made)
<1> DEFINE v == trail[i]
           last == trail[Len(replacements)]
<1>1. /\ lines \in Seq(Line) /\ Len(lines) \in Nat
      /\ v.out \in Seq(Line) /\ v.copied \in 0..Len(lines)
  BY TrailFacts
<1> SUFFICES ASSUME NEW t \in Seq(Line), made = lines \o t,
                    last.tail = v.tail \o t, last.out = v.out, last.copied = v.copied
             PROVE  \E u \in Seq(Line) :
                      /\ made = SubSeq(lines, 1, v.copied) \o u
                      /\ Written(last) = v.out \o u
  BY DEF RestAt, EndMade
<1>2. v.tail = <<>>
  <2>1. v.tail = <<>> \/ \E j \in 1..i : replacements[j].oldLen = 0 BY DEF IsTrail
  <2>2. ASSUME NEW j \in 1..i PROVE replacements[j].oldLen # 0
    <3>1. replacements[j].oldLen > 0 OBVIOUS
    <3> QED BY <3>1
  <2> QED BY <2>1, <2>2
<1>3. last.tail = t BY <1>2, ConcatEmptySeq
<1> DEFINE c == v.copied
           a == SubSeq(lines, 1, c)
           b == SubSeq(lines, c + 1, Len(lines))
<1>4. /\ a \in Seq(Line) /\ b \in Seq(Line) /\ a \o b = lines
  <2>1. Len(lines) \in 0..Len(lines) /\ c \in 0..Len(lines) BY <1>1
  <2>2. SubSeq(lines, 1, Len(lines)) = lines BY <1>1, SubSeqFull
  <2>3. c \in 0..Len(lines) /\ 0 \in 0..c BY <1>1
  <2>4. a \in Seq(Line) BY <1>1, <2>3, Beginning
  <2> QED BY <1>1, <2>1, <2>2, <2>4, Beginning
<1>5. Written(last) = v.out \o b \o t BY <1>3 DEF Written
<1> DEFINE o == v.out
<1>6. o \in Seq(Line) BY <1>1
<1> HIDE DEF a, b, o
<1>7. (a \o b) \o t = a \o (b \o t) /\ (o \o b) \o t = o \o (b \o t)
  BY <1>4, <1>6, Regroup
<1>8. b \o t \in Seq(Line) BY <1>4, ConcatProperties
<1>9. made = a \o (b \o t) BY <1>4, <1>7
<1>10. Written(last) = o \o (b \o t) BY <1>5, <1>7 DEF o
<1> QED BY <1>8, <1>9, <1>10 DEF a, o

\* A replacement is inside the file when its turn comes, and leaves what the walk
\* before it asks for.
LEMMA MakeRest ==
  ASSUME DerivationTypeOK, AdditionsLast, Len(replacements) = Len(chunks),
         NEW trail, IsTrail(trail), NEW i \in 1..Len(replacements),
         NEW made, RestAt(trail, i, made)
  PROVE  /\ replacements[i].start + replacements[i].oldLen <= Len(made)
         /\ RestAt(trail, i - 1, Spliced(made, replacements[i]))
<1> DEFINE r == replacements[i]
           v == trail[i - 1]
           w == trail[i]
           last == trail[Len(replacements)]
<1>1. /\ lines \in Seq(Line) /\ Len(lines) \in Nat /\ replacements \in Seq(Replacement)
      /\ Len(replacements) \in Nat /\ chunks \in Seq(Chunk)
      /\ DOMAIN replacements = 1..Len(replacements)
      /\ DOMAIN chunks = 1..Len(replacements)
  <2>1. /\ lines \in Seq(Line) /\ replacements \in Seq(Replacement) /\ chunks \in Seq(Chunk)
    BY DEF DerivationTypeOK
  <2> QED BY <2>1
<1>2. r \in Replacement /\ r.start \in Nat /\ r.oldLen \in Nat /\ r.new \in Seq(Line)
  <2>1. r \in Replacement BY <1>1
  <2> HIDE DEF r
  <2> QED BY <2>1 DEF Replacement
<1>3. /\ i - 1 \in 0..Len(replacements) /\ i \in 0..Len(replacements) /\ i \in DOMAIN replacements
      /\ i \in Nat
  BY <1>1
<1>4. /\ v.out \in Seq(Line) /\ v.tail \in Seq(Line) /\ v.copied \in 0..Len(lines)
      /\ v.from \in v.copied..Len(lines)
  BY <1>3, TrailFacts
<1>5. Leg(v, w, r, chunks[i]) BY <1>3 DEF IsTrail
<1>6. /\ w = Further(v, r, w.from)
      /\ r.oldLen = 0 => r.start = Len(lines)
      /\ r.oldLen > 0 => w.from = r.start + r.oldLen
      /\ v.from <= r.start /\ r.start + r.oldLen <= Len(lines)
  BY <1>5 DEF Leg
<1>7. CASE r.oldLen = 0
  <2>1. r.start = Len(lines) /\ r.start + r.oldLen = Len(lines) BY <1>1, <1>6, <1>7
  <2>2. PICK t \in Seq(Line) : /\ made = lines \o t
                               /\ last.tail = w.tail \o t /\ last.out = w.out
                               /\ last.copied = w.copied
    <3>1. ~ \A j \in 1..i : replacements[j].oldLen > 0
      <4>1. i \in 1..i /\ ~ 0 > 0 BY <1>3
      <4> QED BY <1>7, <4>1
    <3> QED BY <3>1 DEF RestAt
  <2>3. w.copied = v.copied /\ w.out = v.out /\ w.tail = v.tail \o r.new
    <3>1. w = Walk(w.from, v.copied, v.out, v.tail \o r.new) BY <1>6, <1>7 DEF Further
    <3> DEFINE from == w.from
               tail == v.tail \o r.new
    <3>2. w = Walk(from, v.copied, v.out, tail) BY <3>1
    <3> HIDE DEF v, w, r, from, tail
    <3>3. w.copied = v.copied /\ w.out = v.out /\ w.tail = tail BY <3>2, WalkParts
    <3> QED BY <3>3 DEF tail
  <2>4. SubSeq(lines, 1, r.start) = lines BY <1>1, <2>1, SubSeqFull
  <2>5. /\ r.start + r.oldLen <= Len(made)
        /\ Spliced(made, r) = lines \o (r.new \o t)
    <3> HIDE DEF r
    <3> QED BY <1>1, <1>2, <2>1, <2>2, <2>4, SplicedEnd
  <2>6. last.tail = v.tail \o (r.new \o t) /\ r.new \o t \in Seq(Line)
    <3> DEFINE x == v.tail
               y == r.new
    <3>1. x \in Seq(Line) /\ y \in Seq(Line) BY <1>2, <1>4
    <3>2. last.tail = x \o y \o t BY <2>2, <2>3
    <3> HIDE DEF x, y, last
    <3>3. (x \o y) \o t = x \o (y \o t) /\ y \o t \in Seq(Line)
      BY SMTT(30), <3>1, ConcatAssociative, ConcatProperties
    <3> QED BY <3>2, <3>3 DEF x, y
  <2> HIDE DEF r, v, w, last
  <2>7. last.out = v.out /\ last.copied = v.copied BY <2>2, <2>3
  <2>8. RestAt(trail, i - 1, Spliced(made, r)) BY <2>5, <2>6, <2>7 DEF RestAt, v, last
  <2> QED BY <2>5, <2>8 DEF r
<1>8. CASE r.oldLen # 0
  <2>1. r.oldLen > 0 /\ w.from = r.start + r.oldLen BY <1>2, <1>6, <1>8
  <2>2. \A j \in 1..i : replacements[j].oldLen > 0
    <3> SUFFICES ASSUME NEW j \in 1..i, ~ replacements[j].oldLen > 0 PROVE FALSE
      OBVIOUS
    <3>1. j \in DOMAIN replacements /\ replacements[j] \in Replacement BY <1>1
    <3>2. replacements[j].oldLen = 0
      <4>1. replacements[j].oldLen \in Nat BY <3>1 DEF Replacement
      <4> QED BY <4>1
    <3>3. Leg(trail[j - 1], trail[j], replacements[j], chunks[j]) BY <3>1 DEF IsTrail
    <3>4. chunks[j].old = <<>> BY <3>2, <3>3 DEF Leg
    <3>5. j < i
      <4>1. j # i BY <1>8, <3>2
      <4> QED BY <1>3, <4>1
    <3>6. chunks[i].old = <<>> BY <1>1, <1>3, <3>1, <3>4, <3>5 DEF AdditionsLast
    <3> QED BY <1>5, <1>8, <3>6 DEF Leg
  <2>3. w.copied = w.from /\ w.out = v.out \o SubSeq(lines, v.copied + 1, r.start) \o r.new
    <3>1. w = Walk(w.from, w.from, v.out \o SubSeq(lines, v.copied + 1, r.start) \o r.new, v.tail)
      BY <1>6, <1>8 DEF Further
    <3> DEFINE from == w.from
               out == v.out \o SubSeq(lines, v.copied + 1, r.start) \o r.new
    <3>2. w = Walk(from, from, out, v.tail) BY <3>1
    <3> HIDE DEF v, w, r, from, out
    <3>3. w.copied = from /\ w.out = out BY <3>2, WalkParts
    <3> QED BY <3>3 DEF from, out
  <2>4. PICK t \in Seq(Line) : /\ made = SubSeq(lines, 1, w.copied) \o t
                               /\ Written(last) = w.out \o t
    <3>1. EndMade(trail, i, made)
      <4> HIDE DEF r, v, w, last
      <4> QED BY <1>3, <2>2, AdditionsMade
    <3> QED BY <3>1 DEF EndMade
  <2> DEFINE end == r.start + r.oldLen
             a == SubSeq(lines, 1, v.copied)
             b == SubSeq(lines, v.copied + 1, r.start)
             x == v.out
             y == r.new
  <2>5. end \in 0..Len(lines) /\ r.start \in 0..end /\ r.start \in 0..Len(lines)
        /\ v.copied \in 0..r.start /\ w.copied = end
    <3> HIDE DEF r, v, w
    <3>1. /\ Len(lines) \in Nat /\ r.start \in Nat /\ r.oldLen \in Nat
          /\ v.copied \in 0..Len(lines) /\ v.from \in v.copied..Len(lines)
      BY <1>1, <1>2, <1>4
    <3>2. v.from <= r.start /\ r.start + r.oldLen <= Len(lines) BY <1>6
    <3>3. w.copied = end BY <2>1, <2>3
    <3> HIDE DEF end
    <3>4. end = r.start + r.oldLen BY DEF end
    <3>5. end \in Nat /\ r.start <= end /\ end <= Len(lines) /\ v.copied <= r.start
      BY <3>1, <3>2, <3>4
    <3> QED BY <3>1, <3>3, <3>5
  <2>6. /\ SubSeq(lines, 1, end) \in Seq(Line) /\ Len(SubSeq(lines, 1, end)) = end
        /\ SubSeq(SubSeq(lines, 1, end), 1, r.start) = SubSeq(lines, 1, r.start)
    <3> HIDE DEF r, end
    <3> QED BY <1>1, <2>5, Beginning
  <2>7. a \in Seq(Line) /\ b \in Seq(Line) /\ a \o b = SubSeq(lines, 1, r.start)
    <3>1. v.copied \in 0..Len(lines) /\ 0 \in 0..v.copied BY <1>1, <1>4
    <3>2. a \in Seq(Line) BY <1>1, <3>1, Beginning
    <3> DEFINE c == v.copied
               d == r.start
    <3>3. d \in 0..Len(lines) /\ c \in 0..d BY <2>5
    <3> HIDE DEF c, d
    <3>4. /\ SubSeq(lines, c + 1, d) \in Seq(Line)
          /\ SubSeq(lines, 1, c) \o SubSeq(lines, c + 1, d) = SubSeq(lines, 1, d)
      BY <1>1, <3>3, Beginning
    <3> QED BY <3>2, <3>4 DEF c, d
  <2>8. /\ end <= Len(made)
        /\ Spliced(made, r) = SubSeq(lines, 1, r.start) \o (y \o t)
    <3>1. made = SubSeq(lines, 1, end) \o t BY <2>4, <2>5
    <3> DEFINE head == SubSeq(lines, 1, end)
    <3>2. head \in Seq(Line) /\ r.start + r.oldLen = Len(head) BY <2>6
    <3>3. SubSeq(head, 1, r.start) = SubSeq(lines, 1, r.start) BY <2>6
    <3> HIDE DEF r, head
    <3>4. /\ r.start + r.oldLen <= Len(head \o t)
          /\ Spliced(head \o t, r) = SubSeq(head, 1, r.start) \o (r.new \o t)
      BY <1>2, <3>2, SplicedEnd
    <3>5. made = head \o t BY <3>1 DEF head
    <3> QED BY <3>3, <3>4, <3>5
  <2>9. x \in Seq(Line) /\ y \in Seq(Line) BY <1>2, <1>4
  <2>10. Written(last) = x \o b \o y \o t BY <2>3, <2>4
  <2> HIDE DEF a, b, x, y, last
  <2>11. /\ y \o t \in Seq(Line) /\ b \o (y \o t) \in Seq(Line)
         /\ x \o b \in Seq(Line)
    BY <2>7, <2>9, ConcatProperties
  <2> DEFINE z == y \o t
             xb == x \o b
  <2>12. z \in Seq(Line) /\ xb \in Seq(Line) BY <2>11
  <2>13. (a \o b) \o z = a \o (b \o z)
    <3> HIDE DEF z, xb
    <3> QED BY <2>7, <2>12, Regroup
  <2>14. (xb \o y) \o t = xb \o z
    <3> HIDE DEF xb
    <3> QED BY <2>9, <2>12, Regroup
  <2>15. (x \o b) \o z = x \o (b \o z)
    <3> HIDE DEF z, xb
    <3> QED BY ZenonT(30), <2>7, <2>9, <2>12, Regroup
  <2>16. Spliced(made, r) = a \o (b \o (y \o t)) BY <2>7, <2>8, <2>13
  <2>17. Written(last) = x \o (b \o (y \o t)) BY <2>10, <2>14, <2>15
  <2>18. \A j \in 1..(i - 1) : replacements[j].oldLen > 0 BY <1>3, <2>2
  <2>19. RestAt(trail, i - 1, Spliced(made, r))
    BY <2>11, <2>16, <2>17, <2>18 DEF RestAt, EndMade, a, x, last
  <2> QED BY <2>8, <2>19
<1> QED BY <1>7, <1>8

-----------------------------------------------------------------------------
(* A derivation.                                                           *)

\* While chunks are placed there is a walk that has come as far as the search;
\* while replacements are made, what is left to make is what that walk has
\* written, provided additions come last.
MeantInv ==
  \/ pc \in {"idle", "not found"}
  \/ /\ pc = "place" /\ result = lines
     /\ \E trail : IsTrail(trail) /\ trail[Len(replacements)].from = lineIndex
  \/ /\ pc = "replace" /\ Len(replacements) = Len(chunks)
     /\ AdditionsLast => \E trail : IsTrail(trail) /\ RestAt(trail, k, result)
  \/ /\ pc = "done"
     /\ AdditionsLast => \E out \in Outcomes : result \in {out, Append(out, Empty)}
  \/ pc = "out of range" /\ ~ AdditionsLast

\* What a leg is depends on the file alone.
LEMMA LegKept ==
  ASSUME UNCHANGED lines, NEW v, NEW w, NEW r, NEW chunk
  PROVE  Leg(v, w, r, chunk)' = Leg(v, w, r, chunk)
<1>1. \A pattern, from : Places(pattern, from)' = Places(pattern, from) BY DEF Places
<1>2. WalksOn(v, chunk)' = WalksOn(v, chunk) BY DEF WalksOn, Places
<1>3. Further(v, r, w.from)' = Further(v, r, w.from) BY DEF Further
<1> QED BY <1>2, <1>3 DEF Leg

\* And a trail on that, the chunks and the replacements.
LEMMA TrailKept ==
  ASSUME UNCHANGED <<lines, chunks, replacements>>, NEW trail, IsTrail(trail)
  PROVE  IsTrail(trail)'
<1>1. \A j \in DOMAIN replacements :
        Leg(trail[j - 1], trail[j], replacements[j], chunks[j])'
  BY LegKept DEF IsTrail
<1> QED BY <1>1 DEF IsTrail

\* The trail over one more chunk.
LEMMA TrailGoesOn ==
  ASSUME DerivationTypeOK, pc = "place", k \in DOMAIN chunks, k = Len(replacements) + 1,
         NEW trail, IsTrail(trail), trail[Len(replacements)].from = lineIndex,
         NEW from \in Froms(chunks[k], lineIndex), NEW r \in Replacement, NEW next \in Nat,
         Fits(r, chunks[k], from, next), Replace(r.start, r.oldLen, r.new, next)
  PROVE  \E longer : IsTrail(longer)' /\ longer[Len(replacements')].from = next
<1> PICK chunk : chunk = chunks[k] OBVIOUS
<1> PICK v : v = trail[k - 1] OBVIOUS
<1> PICK w : w = Further(v, r, next) OBVIOUS
<1> PICK longer : longer = [j \in 0..k |-> IF j = k THEN w ELSE trail[j]] OBVIOUS
<1>1. /\ lines \in Seq(Line) /\ chunks \in Seq(Chunk) /\ replacements \in Seq(Replacement)
      /\ lineIndex \in 0..Len(lines) /\ Len(lines) \in Nat /\ Len(replacements) \in Nat
  <2>1. /\ lines \in Seq(Line) /\ chunks \in Seq(Chunk) /\ replacements \in Seq(Replacement)
        /\ lineIndex \in 0..Len(lines)
    BY DEF DerivationTypeOK
  <2> QED BY <2>1
<1>2. k \in Nat /\ k - 1 = Len(replacements) /\ k - 1 \in 0..(k - 1) /\ chunk \in Chunk
  <2>1. k \in Nat /\ k - 1 = Len(replacements) /\ k - 1 \in 0..(k - 1) BY <1>1
  <2> QED BY <1>1, <2>1
<1>3. /\ v \in WalkType /\ v.copied \in 0..Len(lines) /\ v.from = lineIndex
      /\ v.copied <= lineIndex
  <2>1. Len(replacements) \in 0..Len(replacements) BY <1>1
  <2>2. /\ trail[Len(replacements)] \in WalkType
        /\ trail[Len(replacements)].copied \in 0..Len(lines)
        /\ trail[Len(replacements)].from \in trail[Len(replacements)].copied..Len(lines)
    BY <2>1, TrailFacts
  <2> QED BY <1>2, <2>2
<1>4. /\ from \in lineIndex..Len(lines) /\ r.start >= from
      /\ r.start + r.oldLen <= Len(lines) /\ next \in from..Len(lines)
      /\ r.oldLen > 0 => next = r.start + r.oldLen
      /\ r.oldLen = 0 <=> chunk.old = <<>>
  BY <1>2, FitsBounds
<1>5. r.start \in Nat /\ r.oldLen \in Nat BY DEF Replacement
<1>6. w \in WalksOn(v, chunk)
  <2>1. from \in Froms(chunk, lineIndex) /\ Fits(r, chunk, from, next) OBVIOUS
  <2>2. Further(v, r, next) \in WalksOn(v, chunk) BY <1>2, <1>3, <2>1, FurtherIsOn
  <2> QED BY <2>2
<1>7. w \in WalkType BY <1>1, <1>2, <1>3, <1>6, WalksOnType
<1>8. /\ w.from = next
      /\ w.copied = IF r.oldLen = 0 THEN v.copied ELSE next
      /\ r.oldLen # 0 => w.tail = v.tail
  <2> DEFINE out == v.out \o SubSeq(lines, v.copied + 1, r.start) \o r.new
             tail == v.tail \o r.new
  <2>1. w = IF r.oldLen = 0 THEN Walk(next, v.copied, v.out, tail)
            ELSE Walk(next, next, out, v.tail)
    BY DEF Further
  <2> HIDE DEF out, tail
  <2> QED BY <2>1, WalkParts
<1>9. r.oldLen = 0 => r.start = Len(lines) BY <1>1, <1>4, <1>5 DEF Fits
<1>10. Leg(v, w, r, chunk)
  <2>1. v.from <= r.start BY <1>1, <1>3, <1>4, <1>5
  <2>2. w = Further(v, r, w.from) BY <1>8
  <2> QED BY <1>4, <1>6, <1>8, <1>9, <2>1, <2>2 DEF Leg
<1>11. /\ replacements' = Append(replacements, r) /\ UNCHANGED <<lines, chunks>>
  <2>1. r = [start |-> r.start, oldLen |-> r.oldLen, new |-> r.new] BY DEF Replacement
  <2> QED BY <2>1 DEF Replace
<1>12. /\ Len(replacements') = k /\ replacements'[k] = r
       /\ \A j \in 1..(k - 1) : replacements'[j] = replacements[j]
       /\ DOMAIN (replacements') = 1..k
  <2>1. /\ replacements' \in Seq(Replacement) /\ Len(replacements') = Len(replacements) + 1
        /\ \A j \in 1..Len(replacements) : replacements'[j] = replacements[j]
        /\ replacements'[Len(replacements) + 1] = r
    BY <1>1, <1>11, AppendProperties
  <2>2. DOMAIN (replacements') = 1..Len(replacements') BY <2>1
  <2> QED BY <1>2, <2>1, <2>2
<1>13. /\ \A j \in 0..(k - 1) : longer[j] = trail[j]
       /\ longer[k] = w
  BY <1>2
<1>14. longer \in [0..k -> WalkType]
  <2>1. trail \in [0..(k - 1) -> WalkType] BY <1>2 DEF IsTrail
  <2>2. \A j \in 0..k : j # k => j \in 0..(k - 1) BY <1>2
  <2> QED BY <1>7, <2>1, <2>2
<1>15. longer[0] = NoWalk
  <2>1. 0 \in 0..(k - 1) BY <1>1, <1>2
  <2> QED BY <1>13, <2>1 DEF IsTrail
<1>16. ASSUME NEW j \in 0..k
       PROVE  /\ longer[j].copied <= longer[j].from /\ longer[j].from <= Len(lines)
              /\ longer[j].tail = <<>> \/ \E i \in 1..j : replacements'[i].oldLen = 0
  <2>1. CASE j # k
    <3>1. j \in 0..(k - 1) /\ j \in 0..Len(replacements) BY <1>2, <2>1
    <3>2. /\ trail[j].copied <= trail[j].from /\ trail[j].from <= Len(lines)
          /\ trail[j].tail = <<>> \/ \E i \in 1..j : replacements[i].oldLen = 0
      BY <3>1 DEF IsTrail
    <3>3. \A i \in 1..j : replacements'[i] = replacements[i] BY <1>2, <1>12, <3>1
    <3> QED BY <1>13, <3>1, <3>2, <3>3
  <2>2. CASE j = k
    <3>1. longer[j] = w BY <1>13, <2>2
    <3>2. w.copied <= w.from /\ w.from <= Len(lines)
      BY <1>1, <1>3, <1>4, <1>8
    <3>3. w.tail = <<>> \/ \E i \in 1..k : replacements'[i].oldLen = 0
      <4>1. CASE r.oldLen = 0
        <5>1. k \in 1..k BY <1>1, <1>2
        <5> QED BY <1>12, <4>1, <5>1
      <4>2. CASE r.oldLen # 0
        <5>1. v.tail = <<>> \/ \E i \in 1..(k - 1) : replacements[i].oldLen = 0
          <6>1. Len(replacements) \in 0..Len(replacements) BY <1>1
          <6>2. \/ trail[Len(replacements)].tail = <<>>
                \/ \E i \in 1..Len(replacements) : replacements[i].oldLen = 0
            BY <6>1 DEF IsTrail
          <6> QED BY <1>2, <6>2
        <5>2. \A i \in 1..(k - 1) : i \in 1..k BY <1>2
        <5> QED BY <1>8, <1>12, <4>2, <5>1, <5>2
      <4> QED BY <4>1, <4>2
    <3> QED BY <2>2, <3>1, <3>2, <3>3
  <2> QED BY <2>1, <2>2
<1>17. ASSUME NEW j \in 1..k
       PROVE  Leg(longer[j - 1], longer[j], replacements[j], chunks[j])'
  <2> PICK a, b, c, d : /\ a = longer[j - 1] /\ b = longer[j]
                        /\ c = replacements'[j] /\ d = chunks[j]
    OBVIOUS
  <2>1. Leg(a, b, c, d)
    <3>1. CASE j # k
      <4>1. /\ j \in 1..(k - 1) /\ j \in 0..(k - 1) /\ j - 1 \in 0..(k - 1)
            /\ j \in DOMAIN replacements
        BY <1>1, <1>2, <3>1
      <4>2. Leg(trail[j - 1], trail[j], replacements[j], chunks[j]) BY <4>1 DEF IsTrail
      <4> QED BY <1>12, <1>13, <4>1, <4>2
    <3>2. CASE j = k
      <4>1. j - 1 \in 0..(k - 1) BY <1>2, <3>2
      <4> QED BY <1>10, <1>12, <1>13, <3>2, <4>1
    <3> QED BY <3>1, <3>2
  <2>2. Leg(a, b, c, d)' BY <1>11, <2>1, LegKept
  <2> QED BY <1>11, <2>2
<1>18. IsTrail(longer)' BY <1>11, <1>12, <1>14, <1>15, <1>16, <1>17 DEF IsTrail
<1> QED BY <1>8, <1>12, <1>13, <1>18

\* When a derivation begins, no chunk has been walked over.
LEMMA MeantBegins ==
  ASSUME NEW content \in Content, NEW cs \in Seq(Chunk), DerivePatchedContent(content, cs)
  PROVE  MeantInv'
<1>1. /\ replacements' = <<>> /\ lineIndex' = 0 /\ pc' = "place" /\ result' = lines'
  BY DEF DerivePatchedContent
<1>2. Len(lines') \in Nat
  <2>1. DerivationInv' BY DeriveInv
  <2>2. lines' \in Seq(Line) BY <2>1 DEF DerivationInv, DerivationTypeOK
  <2> QED BY <2>2
<1>3. PICK trail : trail = [j \in 0..0 |-> NoWalk] OBVIOUS
<1>4. /\ NoWalk \in WalkType /\ NoWalk.copied = 0 /\ NoWalk.from = 0 /\ NoWalk.tail = <<>>
  <2>1. <<>> \in Seq(Line) OBVIOUS
  <2> QED BY <2>1 DEF NoWalk, Walk, WalkType
<1>5. /\ Len(<<>>) = 0 /\ DOMAIN <<>> = {} /\ \A j \in 0..0 : j = 0 OBVIOUS
<1>6. trail \in [0..0 -> WalkType] /\ trail[0] = NoWalk BY <1>3, <1>4
<1>7. IsTrail(trail)' BY <1>1, <1>2, <1>4, <1>5, <1>6 DEF IsTrail
<1>8. trail[Len(replacements')].from = lineIndex' BY <1>1, <1>4, <1>5, <1>6
<1> QED BY <1>1, <1>7, <1>8 DEF MeantInv

\* What is written for all chunks is an outcome that they mean.
LEMMA WrittenIsMeant ==
  ASSUME DerivationTypeOK, Len(replacements) = Len(chunks), NEW trail, IsTrail(trail)
  PROVE  Written(trail[Len(replacements)]) \in Outcomes
<1>1. lines \in Seq(Line) /\ chunks \in Seq(Chunk) /\ replacements \in Seq(Replacement)
  BY DEF DerivationTypeOK
<1>2. DOMAIN chunks = DOMAIN replacements BY <1>1
<1>3. trail \in [0..Len(chunks) -> WalkType] /\ trail[0] = NoWalk BY DEF IsTrail
<1>4. \A j \in DOMAIN chunks : trail[j] \in WalksOn(trail[j - 1], chunks[j])
  BY <1>2 DEF IsTrail, Leg
<1>5. trail[Len(chunks)] \in Walks BY <1>1, <1>3, <1>4, TrailWalks
<1> QED BY <1>5 DEF Written, Outcomes

\* With no replacement left to make, the file is what has been written.
LEMMA AllMade ==
  ASSUME DerivationTypeOK, NEW trail, IsTrail(trail), NEW made, RestAt(trail, 0, made)
  PROVE  made = Written(trail[Len(replacements)])
<1>1. 0 \in 0..Len(replacements)
  <2>1. replacements \in Seq(Replacement) BY DEF DerivationTypeOK
  <2> QED BY <2>1
<1>2. \A j \in 1..0 : replacements[j].oldLen > 0 OBVIOUS
<1>3. EndMade(trail, 0, made) BY <1>1, <1>2, AdditionsMade
<1>4. PICK t \in Seq(Line) :
        /\ made = SubSeq(lines, 1, trail[0].copied) \o t
        /\ Written(trail[Len(replacements)]) = trail[0].out \o t
  BY <1>3 DEF EndMade
<1>5. trail[0].copied = 0 /\ trail[0].out = <<>> BY WalkParts DEF IsTrail, NoWalk
<1>6. SubSeq(lines, 1, 0) = <<>> BY SubSeqEmpty
<1>7. <<>> \o t = t BY ConcatEmptySeq
<1> QED BY <1>4, <1>5, <1>6, <1>7

\* What is left to make depends on the file, the replacements and the trail.
LEMMA RestKept ==
  ASSUME UNCHANGED <<lines, replacements>>, NEW trail, NEW i, NEW made
  PROVE  RestAt(trail, i, made)' = RestAt(trail, i, made)
BY DEF RestAt, EndMade, Written

\* No step of a derivation leaves the walk its chunks mean.
LEMMA MeantInvStep ==
  ASSUME DerivationInv, MeantInv, DerivationStep
  PROVE  MeantInv'
<1>1. /\ DerivationTypeOK /\ lines \in Seq(Line) /\ chunks \in Seq(Chunk)
      /\ replacements \in Seq(Replacement) /\ Len(replacements) <= Len(chunks)
      /\ k \in 0..(Len(chunks) + 1) /\ Len(chunks) \in Nat /\ Len(replacements) \in Nat
  <2>1. /\ DerivationTypeOK /\ lines \in Seq(Line) /\ chunks \in Seq(Chunk)
        /\ replacements \in Seq(Replacement) /\ Len(replacements) <= Len(chunks)
        /\ k \in 0..(Len(chunks) + 1)
    BY DEF DerivationInv, DerivationTypeOK
  <2> QED BY <2>1
<1>2. UNCHANGED chunks => AdditionsLast' = AdditionsLast BY DEF AdditionsLast
<1>3. CASE PlaceChunk
  <2>1. pc = "place" /\ k \in DOMAIN chunks /\ k = Len(replacements) + 1
    <3>1. pc = "place" /\ k <= Len(chunks) /\ k = Len(replacements) + 1
      BY <1>3 DEF PlaceChunk, DerivationInv
    <3>2. DOMAIN chunks = 1..Len(chunks) BY <1>1
    <3> QED BY <1>1, <3>1, <3>2
  <2>2. CASE Fail("not found") BY <2>2 DEF Fail, MeantInv
  <2>3. ASSUME NEW from \in Froms(chunks[k], lineIndex), NEW r \in Replacement, NEW next \in Nat,
               Fits(r, chunks[k], from, next), Replace(r.start, r.oldLen, r.new, next)
        PROVE  MeantInv'
    <3>1. PICK trail : IsTrail(trail) /\ trail[Len(replacements)].from = lineIndex
      BY <2>1 DEF MeantInv
    <3>2. PICK longer : IsTrail(longer)' /\ longer[Len(replacements')].from = next
      BY <1>1, <2>1, <2>3, <3>1, TrailGoesOn
    <3>3. pc' = "place" /\ result' = lines' /\ lineIndex' = next
      BY <2>1, <2>3 DEF Replace, MeantInv
    <3> QED BY <3>2, <3>3 DEF MeantInv
  <2> QED BY <1>1, <1>3, <2>1, <2>2, <2>3, PlaceChunkFits
<1>4. CASE Placed
  <2>1. /\ pc = "place" /\ k > Len(chunks) /\ k = Len(replacements) + 1
        /\ pc' = "replace" /\ k' = Len(replacements)
        /\ UNCHANGED <<lines, chunks, lineIndex, replacements, result>>
    BY <1>4 DEF Placed, DerivationInv
  <2>2. Len(replacements) = Len(chunks) BY <1>1, <2>1
  <2>3. PICK trail : IsTrail(trail) BY <2>1 DEF MeantInv
  <2>4. result = lines BY <2>1 DEF MeantInv
  <2>5. RestAt(trail, Len(replacements), result)
    <3>1. Len(replacements) \in 0..Len(replacements) BY <1>1
    <3>2. trail[Len(replacements)].tail \in Seq(Line) BY <1>1, <2>3, <3>1, TrailFacts
    <3>3. <<>> \in Seq(Line) /\ lines = lines \o <<>>
          /\ trail[Len(replacements)].tail = trail[Len(replacements)].tail \o <<>>
      BY <1>1, <3>2, ConcatEmptySeq
    <3> QED BY <2>4, <3>3 DEF RestAt
  <2>6. IsTrail(trail)' BY <2>1, <2>3, TrailKept
  <2>7. RestAt(trail, k, result)'
    <3>1. PICK i, made : i = Len(replacements) /\ made = result OBVIOUS
    <3>2. RestAt(trail, i, made)' BY <2>1, <2>5, <3>1, RestKept
    <3> QED BY <2>1, <3>1, <3>2
  <2> QED BY <2>1, <2>2, <2>6, <2>7 DEF MeantInv
<1>5. CASE Make
  <2>1. /\ pc = "replace" /\ k > 0 /\ k <= Len(replacements) /\ Len(replacements) = Len(chunks)
    BY <1>5 DEF Make, DerivationInv, MeantInv
  <2>2. k \in 1..Len(replacements) BY <1>1, <2>1
  <2>3. ASSUME AdditionsLast
        PROVE  \E trail : /\ IsTrail(trail)
                          /\ replacements[k].start + replacements[k].oldLen <= Len(result)
                          /\ RestAt(trail, k - 1, Spliced(result, replacements[k]))
    <3>1. PICK trail : IsTrail(trail) /\ RestAt(trail, k, result) BY <2>1, <2>3 DEF MeantInv
    <3> QED BY <1>1, <2>1, <2>2, <2>3, <3>1, MakeRest
  <2>4. CASE replacements[k].start + replacements[k].oldLen > Len(result) /\ Fail("out of range")
    <3>1. ~ AdditionsLast
      <4> SUFFICES ASSUME AdditionsLast PROVE FALSE
        OBVIOUS
      <4>1. replacements[k].start + replacements[k].oldLen <= Len(result) BY <2>3
      <4>2. /\ replacements[k].start \in Nat /\ replacements[k].oldLen \in Nat
            /\ Len(result) \in Nat
        <5>1. replacements[k] \in Replacement BY <1>1, <2>2
        <5>2. result \in Seq(Line) BY <1>1 DEF DerivationTypeOK
        <5> QED BY <5>1, <5>2 DEF Replacement
      <4> DEFINE end == replacements[k].start + replacements[k].oldLen
      <4>3. end \in Nat BY <4>2
      <4>4. end <= Len(result) BY <4>1
      <4>5. end > Len(result) BY <2>4
      <4> HIDE DEF end
      <4> QED BY <4>2, <4>3, <4>4, <4>5
    <3> QED BY <1>2, <2>4, <3>1 DEF Fail, MeantInv
  <2>5. CASE /\ result' = Spliced(result, replacements[k])
             /\ k' = k - 1
             /\ UNCHANGED <<lines, chunks, lineIndex, replacements, pc>>
    <3>1. ASSUME AdditionsLast PROVE \E trail : IsTrail(trail)' /\ RestAt(trail, k, result)'
      <4>1. PICK trail : /\ IsTrail(trail)
                         /\ RestAt(trail, k - 1, Spliced(result, replacements[k]))
        BY <2>3, <3>1
      <4>2. IsTrail(trail)' BY <2>5, <4>1, TrailKept
      <4>3. PICK i, made : i = k - 1 /\ made = Spliced(result, replacements[k]) OBVIOUS
      <4>4. RestAt(trail, i, made)' BY <2>5, <4>1, <4>3, RestKept
      <4>5. RestAt(trail, k, result)' BY <2>5, <4>3, <4>4
      <4> QED BY <4>2, <4>5
    <3> QED BY <1>2, <2>1, <2>5, <3>1 DEF MeantInv
  <2> QED BY <1>5, <2>4, <2>5 DEF Make
<1>6. CASE Finish
  <2>1. /\ pc = "replace" /\ k = 0 /\ pc' = "done" /\ Len(replacements) = Len(chunks)
        /\ result' \in {result, Append(result, Empty)}
        /\ UNCHANGED <<lines, chunks, k, lineIndex, replacements>>
    BY <1>6 DEF Finish, MeantInv
  <2>2. AdditionsLast => result \in Outcomes
    <3> SUFFICES ASSUME AdditionsLast PROVE result \in Outcomes
      OBVIOUS
    <3>1. PICK trail : IsTrail(trail) /\ RestAt(trail, 0, result) BY <2>1 DEF MeantInv
    <3>2. result = Written(trail[Len(replacements)]) BY <1>1, <3>1, AllMade
    <3> QED BY <1>1, <2>1, <3>1, <3>2, WrittenIsMeant
  <2>3. Outcomes' = Outcomes
    <3>1. Walks' = Walks BY <2>1 DEF Walks, WalksOn, Places
    <3> QED BY <2>1, <3>1 DEF Outcomes
  <2> QED BY <1>2, <2>1, <2>2, <2>3 DEF MeantInv
<1> QED BY <1>3, <1>4, <1>5, <1>6 DEF DerivationStep

\* Nor does any step of a request.
LEMMA MeantInvKept ==
  ASSUME PatchInv, MeantInv, [PatchNext]_patchVars
  PROVE  MeantInv'
<1>1. CASE UNCHANGED derivation
  <2>1. UNCHANGED <<lines, chunks, k, lineIndex, replacements, result, pc>>
    BY <1>1 DEF derivation
  <2>2. AdditionsLast' = AdditionsLast BY <2>1 DEF AdditionsLast
  <2>3. Outcomes' = Outcomes
    <3>1. Walks' = Walks BY <2>1 DEF Walks, WalksOn, Places
    <3> QED BY <2>1, <3>1 DEF Outcomes
  <2>4. ASSUME NEW trail, IsTrail(trail) PROVE IsTrail(trail)' BY <2>1, <2>4, TrailKept
  <2>5. ASSUME NEW trail, RestAt(trail, k, result) PROVE RestAt(trail, k, result)'
    <3>1. PICK i, made : i = k /\ made = result OBVIOUS
    <3>2. RestAt(trail, i, made)' BY <2>1, <2>5, <3>1, RestKept
    <3> QED BY <2>1, <3>1, <3>2
  <2> QED BY <2>1, <2>2, <2>3, <2>4, <2>5 DEF MeantInv
<1>2. CASE Returned BY <1>2 DEF Returned, MeantInv
<1>3. CASE ReadUpdate
  <2>1. CASE UNCHANGED derivation BY <1>1, <2>1
  <2>2. ASSUME NEW path \in DOMAIN tree, n \in DOMAIN hunks,
               DerivePatchedContent(tree[path], hunks[n].chunks)
        PROVE  MeantInv'
    <3>1. tree[path] \in Content BY DEF PatchInv, PatchTypeOK
    <3>2. hunks[n].chunks \in Seq(Chunk) BY <2>2, HunkType
    <3> QED BY <2>2, <3>1, <3>2, MeantBegins
  <2>3. n \in DOMAIN hunks
    <3>1. n > 0 /\ n <= Len(hunks) BY <1>3 DEF ReadUpdate, Applies, PatchInv
    <3>2. hunks \in Seq(Hunk) /\ n \in 0..(Len(hunks) + 1) BY DEF PatchInv, PatchTypeOK
    <3> QED BY <3>1, <3>2
  <2> QED BY <1>3, <2>1, <2>2, <2>3 DEF ReadUpdate
<1>4. CASE Derive BY <1>4, MeantInvStep DEF Derive, PatchInv
<1>5. CASE \/ Parse \/ Forbidden \/ AddFile \/ DeleteFile \/ WriteUpdate \/ RemoveSource
           \/ Answer \/ UNCHANGED patchVars
  BY <1>1, <1>5
  DEF Parse, Forbidden, AddFile, DeleteFile, WriteUpdate, RemoveSource, Answer, patchVars
<1>6. CASE Derived \/ DeriveFails BY <1>2, <1>6 DEF Derived, DeriveFails
<1> QED BY <1>3, <1>4, <1>5, <1>6 DEF PatchNext

\* Whatever the file and however many chunks, the replacements made from the last
\* to the first give a file that the chunks mean, ended by a newline, and never
\* run off it, provided additions come after the other chunks.
THEOREM UpdatesAsMeant == PatchSpec => []UpdateMeansPatch
<1>1. PatchInit => PatchInv /\ MeantInv
  BY PatchInvInit DEF PatchInit, Asked, DerivationInit, MeantInv
<1>2. PatchInv /\ MeantInv /\ [PatchNext]_patchVars => (PatchInv /\ MeantInv)'
  BY PatchInvKept, MeantInvKept
<1>3. MeantInv => UpdateMeansPatch BY DEF MeantInv, UpdateMeansPatch
<1> QED BY <1>1, <1>2, <1>3, PTL DEF PatchSpec

-----------------------------------------------------------------------------
(* Reading what a client writes: from the state s the lines of text lead    *)
(* the parser to the state r.                                              *)

Reads(s, text, r) ==
  \E f : /\ f[0] = s /\ f[Len(text)] = r
         /\ \A i \in 1..Len(text) : f[i] = ReadLine(f[i - 1], text[i])

\* No line and one line.
LEMMA ReadsLine ==
  /\ \A s : Reads(s, <<>>, s)
  /\ \A s, l : Reads(s, <<l>>, ReadLine(s, l))
<1>1. ASSUME NEW s PROVE Reads(s, <<>>, s)
  <2> DEFINE f == [i \in {0} |-> s]
  <2>1. f[0] = s /\ Len(<<>>) = 0 OBVIOUS
  <2> HIDE DEF f
  <2> QED BY <2>1 DEF Reads
<1>2. ASSUME NEW s, NEW l PROVE Reads(s, <<l>>, ReadLine(s, l))
  <2> DEFINE f == [i \in {0, 1} |-> IF i = 0 THEN s ELSE ReadLine(s, l)]
  <2>1. f[0] = s /\ f[1] = ReadLine(s, l) OBVIOUS
  <2>2. Len(<<l>>) = 1 /\ <<l>>[1] = l OBVIOUS
  <2> HIDE DEF f
  <2>3. \A i \in 1..1 : i = 1 /\ i - 1 = 0 OBVIOUS
  <2> QED BY <2>1, <2>2, <2>3 DEF Reads
<1> QED BY <1>1, <1>2

\* One text after another.
LEMMA ReadsOn ==
  ASSUME NEW a \in Seq(PatchLine), NEW b \in Seq(PatchLine), NEW s, NEW r, NEW q,
         Reads(s, a, r), Reads(r, b, q)
  PROVE  Reads(s, a \o b, q)
<1>1. PICK f : /\ f[0] = s /\ f[Len(a)] = r
               /\ \A i \in 1..Len(a) : f[i] = ReadLine(f[i - 1], a[i])
  BY DEF Reads
<1>2. PICK g : /\ g[0] = r /\ g[Len(b)] = q
               /\ \A i \in 1..Len(b) : g[i] = ReadLine(g[i - 1], b[i])
  BY DEF Reads
<1>3. Len(a) \in Nat /\ Len(b) \in Nat /\ Len(a \o b) = Len(a) + Len(b)
      /\ \A i \in 1..(Len(a) + Len(b)) :
           (a \o b)[i] = IF i <= Len(a) THEN a[i] ELSE b[i - Len(a)]
  BY ConcatProperties
<1> DEFINE m == Len(a)
           total == Len(b)
           h == [i \in 0..(m + total) |-> IF i <= m THEN f[i] ELSE g[i - m]]
<1>4. h[0] = s BY <1>1, <1>3
<1>5. h[m + total] = q
  <2>1. CASE total = 0 BY <1>1, <1>2, <1>3, <2>1
  <2>2. CASE total # 0
    <3>1. ~ m + total <= m /\ (m + total) - m = total BY <1>3, <2>2
    <3> QED BY <1>2, <1>3, <3>1
  <2> QED BY <2>1, <2>2
<1>6. ASSUME NEW i \in 1..(m + total) PROVE h[i] = ReadLine(h[i - 1], (a \o b)[i])
  <2>1. CASE i <= m
    <3>1. i \in 1..m /\ h[i] = f[i] /\ h[i - 1] = f[i - 1] BY <1>3, <2>1
    <3> QED BY <1>1, <1>3, <3>1
  <2>2. CASE ~ i <= m
    <3>1. i - m \in 1..total /\ (i - m) - 1 = (i - 1) - m BY <1>3, <2>2
    <3>2. h[i] = g[i - m] BY <2>2
    <3>3. h[i - 1] = g[(i - 1) - m]
      <4>1. CASE i - 1 <= m
        <5>1. i - 1 = m /\ (i - 1) - m = 0 BY <1>3, <2>2, <4>1
        <5> QED BY <1>1, <1>2, <1>3, <5>1
      <4>2. CASE ~ i - 1 <= m
        <5>1. i - 1 \in 0..(m + total) BY <1>3
        <5> QED BY <4>2, <5>1
      <4> QED BY <4>1, <4>2
    <3> QED BY <1>2, <1>3, <2>2, <3>1, <3>2, <3>3
  <2> QED BY <2>1, <2>2
<1> HIDE DEF h
<1> QED BY <1>3, <1>4, <1>5, <1>6 DEF Reads

\* A text in parts, each of which leads from one of some states to the next.
LEMMA ReadsParts ==
  ASSUME NEW parts \in Seq(Seq(PatchLine)), NEW st,
         \A j \in 1..Len(parts) : Reads(st[j - 1], parts[j], st[j])
  PROVE  Reads(st[0], FlattenSeq(parts), st[Len(parts)])
<1>1. CASE Len(parts) = 0
  <2>1. parts = <<>> BY <1>1
  <2>2. FlattenSeq(parts) = <<>> BY <1>1, <2>1 DEF FlattenSeq
  <2> QED BY <1>1, <2>2, ReadsLine
<1>2. CASE Len(parts) # 0
  <2> DEFINE f == CHOOSE flatten : Flattens(flatten, parts, Len(parts))
             S == {c \in Nat : c \in 1..Len(parts) =>
                     f[c] \in Seq(PatchLine) /\ Reads(st[0], f[c], st[c])}
  <2>1. Flattens(f, parts, Len(parts))
    <3>1. Len(parts) \in Nat OBVIOUS
    <3>2. \E flatten : Flattens(flatten, parts, Len(parts)) BY <3>1, FlattenExists
    <3> QED BY <3>2
  <2>2. FlattenSeq(parts) = f[Len(parts)] BY <1>2 DEF FlattenSeq, Flattens
  <2> HIDE DEF f
  <2>3. 0 \in S OBVIOUS
  <2>4. ASSUME NEW c \in Nat, c \in S PROVE c + 1 \in S
    <3> SUFFICES ASSUME c + 1 \in 1..Len(parts)
                 PROVE  f[c + 1] \in Seq(PatchLine) /\ Reads(st[0], f[c + 1], st[c + 1])
      OBVIOUS
    <3>1. f[c + 1] = IF c = 0 THEN parts[c + 1] ELSE f[c] \o parts[c + 1]
      <4>1. c + 1 = 1 <=> c = 0 OBVIOUS
      <4>2. (c + 1) - 1 = c OBVIOUS
      <4> QED BY <2>1, <4>1, <4>2 DEF Flattens
    <3>2. parts[c + 1] \in Seq(PatchLine) OBVIOUS
    <3>3. Reads(st[c], parts[c + 1], st[c + 1])
      <4>1. (c + 1) - 1 = c OBVIOUS
      <4> QED BY <4>1
    <3>4. c # 0 => f[c] \in Seq(PatchLine) /\ Reads(st[0], f[c], st[c]) BY <2>4
    <3>5. CASE c = 0 BY <3>1, <3>2, <3>3, <3>5
    <3>6. CASE c # 0
      <4>1. f[c] \o parts[c + 1] \in Seq(PatchLine) BY <3>2, <3>4, <3>6, ConcatProperties
      <4>2. Reads(st[0], f[c] \o parts[c + 1], st[c + 1]) BY <3>2, <3>3, <3>4, <3>6, ReadsOn
      <4> QED BY <3>1, <3>6, <4>1, <4>2
    <3> QED BY <3>5, <3>6
  <2>5. Nat \subseteq S
    <3> HIDE DEF S
    <3> QED BY <2>3, <2>4, NatInductionOnSets
  <2> QED BY <1>2, <2>2, <2>5
<1> QED BY <1>1, <1>2

\* Marked lines are lines of a patch.
LEMMA MarkedType ==
  ASSUME NEW kind \in Changes, NEW ls \in Seq(Line)
  PROVE  /\ Marked(kind, ls) \in Seq(PatchLine) /\ Len(Marked(kind, ls)) = Len(ls)
         /\ \A i \in 1..Len(ls) : Marked(kind, ls)[i] = Mark(kind, ls[i])
<1>1. Len(ls) \in Nat /\ DOMAIN ls = 1..Len(ls) /\ \A i \in 1..Len(ls) : ls[i] \in Line
  OBVIOUS
<1>2. ASSUME NEW l \in Line PROVE Mark(kind, l) \in PatchLine
  <2>1. NoPath \in WrittenPath BY DEF NoPath, WrittenPath, Path
  <2> QED BY <2>1 DEF Mark, PatchLine
<1>3. Marked(kind, ls) = [i \in 1..Len(ls) |-> Mark(kind, ls[i])] BY <1>1 DEF Marked
<1>4. Marked(kind, ls) \in Seq(PatchLine) BY <1>1, <1>2, <1>3
<1>5. Len(Marked(kind, ls)) = Len(ls) BY <1>1, <1>3, <1>4
<1> QED BY <1>3, <1>4, <1>5

\* They lead where each of them leads on.
LEMMA ReadsMarked ==
  ASSUME NEW kind \in Changes, NEW ls \in Seq(Line), NEW st,
         \A i \in 1..Len(ls) : st[i] = ReadLine(st[i - 1], Mark(kind, ls[i]))
  PROVE  Reads(st[0], Marked(kind, ls), st[Len(ls)])
BY MarkedType DEF Reads
-----------------------------------------------------------------------------
(* The tidy text of a patch.                                               *)

\* The last of a sequence to which it was appended, and another in its place.
LEMMA LastAppended ==
  ASSUME NEW D, NEW s \in Seq(D), NEW x \in D
  PROVE  /\ Append(s, x)[Len(Append(s, x))] = x
         /\ \A y \in D : [Append(s, x) EXCEPT ![Len(Append(s, x))] = y] = Append(s, y)
<1>1. Len(s) \in Nat /\ Len(Append(s, x)) = Len(s) + 1 /\ Append(s, x)[Len(s) + 1] = x
  BY AppendProperties
<1>2. ASSUME NEW y \in D
      PROVE  [Append(s, x) EXCEPT ![Len(Append(s, x))] = y] = Append(s, y)
  <2> DEFINE t == Append(s, x)
             a == [t EXCEPT ![Len(t)] = y]
             b == Append(s, y)
  <2>1. t \in Seq(D) /\ Len(t) = Len(s) + 1 /\ Len(t) \in 1..Len(t)
        /\ \A j \in 1..Len(s) : t[j] = s[j]
    BY <1>1, AppendProperties
  <2>2. /\ a \in Seq(D) /\ Len(a) = Len(s) + 1
        /\ \A j \in 1..(Len(s) + 1) : a[j] = IF j = Len(s) + 1 THEN y ELSE t[j]
    <3> HIDE DEF t
    <3> QED BY <2>1, ExceptSeq
  <2>3. /\ b \in Seq(D) /\ Len(b) = Len(s) + 1 /\ b[Len(s) + 1] = y
        /\ \A j \in 1..Len(s) : b[j] = s[j]
    BY AppendProperties
  <2> HIDE DEF a, b, t
  <2>4. \A j \in 1..Len(a) : a[j] = b[j]
    <3> TAKE j \in 1..Len(a)
    <3>1. CASE j = Len(s) + 1 BY <1>1, <2>2, <2>3, <3>1
    <3>2. CASE j # Len(s) + 1
      <4>1. j \in 1..Len(s) /\ j \in 1..(Len(s) + 1) BY <1>1, <2>2, <3>2
      <4> QED BY <2>1, <2>2, <2>3, <3>2, <4>1
    <3> QED BY <3>1, <3>2
  <2>5. a = b BY <2>2, <2>3, <2>4, SeqEqual
  <2> QED BY <2>5 DEF a, b, t
<1> QED BY <1>1, <1>2

\* A beginning grows by an element at a time.
LEMMA BeginningGrows ==
  ASSUME NEW D, NEW s \in Seq(D)
  PROVE  /\ SubSeq(s, 1, 0) = <<>> /\ SubSeq(s, 1, Len(s)) = s
         /\ \A i \in 0..Len(s) : SubSeq(s, 1, i) \in Seq(D)
         /\ \A i \in 1..Len(s) : SubSeq(s, 1, i) = Append(SubSeq(s, 1, i - 1), s[i])
<1>1. Len(s) \in Nat /\ \A i \in 1..Len(s) : s[i] \in D OBVIOUS
<1>2. SubSeq(s, 1, 0) = <<>>
  <2>1. 1 \in Int /\ 0 \in Int /\ 0 < 1 OBVIOUS
  <2> QED BY <2>1, SubSeqEmpty
<1>3. ASSUME NEW i \in 0..Len(s) PROVE SubSeq(s, 1, i) \in Seq(D)
  <2>1. 1 \in Int /\ i \in Int /\ \A j \in 1..i : s[j] \in D BY <1>1
  <2> QED BY <2>1, SubSeqProperties
<1>4. ASSUME NEW i \in 1..Len(s) PROVE SubSeq(s, 1, i) = Append(SubSeq(s, 1, i - 1), s[i])
  <2>1. 1 \in 1..Len(s) /\ i \in 1..Len(s) /\ i - 1 \in 0..Len(s) BY <1>1
  <2>2. SubSeq(s, 1, i) = SubSeq(s, 1, i - 1) \o <<s[i]>> BY <2>1, SubSeqRecursiveSecond
  <2>3. SubSeq(s, 1, i - 1) \in Seq(D) /\ s[i] \in D BY <1>1, <1>3, <2>1
  <2>4. Append(SubSeq(s, 1, i - 1), s[i]) = SubSeq(s, 1, i - 1) \o <<s[i]>>
    BY <2>3, AppendIsConcat
  <2> QED BY <2>2, <2>4
<1> QED BY <1>2, <1>3, <1>4, SubSeqFull

\* The parser in the chunk c, under the hunk h with the chunks cs before it, after the hunks hs.
InChunk(hs, h, cs, c) ==
  [at |-> "chunk", hunks |-> Append(hs, [h EXCEPT !.chunks = Append(cs, c)])]

\* A line that changes the chunk.
LEMMA ReadsChange ==
  ASSUME NEW hs \in Seq(Hunk), NEW h \in Hunk, NEW cs \in Seq(Chunk), NEW c \in Chunk,
         NEW l \in PatchLine, l.kind \in Changes, ~IsEnd(l)
  PROVE  /\ Change(c, l) \in Chunk
         /\ ReadLine(InChunk(hs, h, cs, c), l) = InChunk(hs, h, cs, Change(c, l))
<1> DEFINE d == Change(c, l)
           g == [h EXCEPT !.chunks = Append(cs, c)]
           s == InChunk(hs, h, cs, c)
<1>1. d \in Chunk
  <2>1. l.line \in Line BY DEF PatchLine
  <2>2. Append(c.old, l.line) \in Seq(Line) /\ Append(c.new, l.line) \in Seq(Line)
    BY <2>1, AppendProperties DEF Chunk
  <2> QED BY <2>2 DEF Change, Chunk
<1>2. /\ Append(cs, c) \in Seq(Chunk) /\ Append(cs, d) \in Seq(Chunk)
      /\ Last(Append(cs, c)) = c
      /\ [Append(cs, c) EXCEPT ![Len(Append(cs, c))] = d] = Append(cs, d)
  BY <1>1, AppendProperties, LastAppended DEF Last
<1> DEFINE e == [g EXCEPT !.chunks = Append(cs, d)]
<1>3. g \in Hunk /\ e \in Hunk BY <1>2 DEF Hunk
<1>4. g.chunks = Append(cs, c) /\ e = [h EXCEPT !.chunks = Append(cs, d)] BY DEF Hunk
<1>5. s.at = "chunk" /\ s.hunks = Append(hs, g) BY DEF InChunk
<1>6. ReadLine(s, l) = ChangedLine(s, l) BY <1>5 DEF ReadLine, Changes, Stars
<1>7. /\ Last(Append(hs, g)) = g
      /\ [Append(hs, g) EXCEPT ![Len(Append(hs, g))] = e] = Append(hs, e)
  <2> HIDE DEF g, e
  <2> QED BY <1>3, LastAppended DEF Last
<1>8. ChangedLine(s, l) = [s EXCEPT !.hunks = Append(hs, e)]
  <2> DEFINE bs == Last(s.hunks).chunks
             grown == [Last(s.hunks) EXCEPT !.chunks = [bs EXCEPT ![Len(bs)] = Change(Last(bs), l)]]
  <2>1. ChangedLine(s, l) = [s EXCEPT !.hunks = [s.hunks EXCEPT ![Len(s.hunks)] = grown]]
    BY DEF ChangedLine, OnLast, Last
  <2>2. bs = Append(cs, c) /\ grown = e BY <1>2, <1>4, <1>5, <1>7
  <2> HIDE DEF g, e, grown, s
  <2> QED BY <1>5, <1>7, <2>1, <2>2
<1>9. [s EXCEPT !.hunks = Append(hs, e)] = InChunk(hs, h, cs, d)
  <2>1. InChunk(hs, h, cs, d) = [at |-> "chunk", hunks |-> Append(hs, e)]
    BY <1>4 DEF InChunk
  <2>2. s = [at |-> "chunk", hunks |-> Append(hs, g)] BY DEF InChunk
  <2>3. \A a, b : [[at |-> "chunk", hunks |-> a] EXCEPT !.hunks = b]
                    = [at |-> "chunk", hunks |-> b]
    OBVIOUS
  <2> HIDE DEF s, e, g
  <2> QED BY <2>1, <2>2, <2>3
<1> QED BY <1>1, <1>6, <1>8, <1>9

\* The mark of a line of context.
Kept == " "

\* The marks of the three kinds of lines.
LEMMA KeptIsChange ==
  /\ Kept \in Changes /\ "-" \in Changes /\ "+" \in Changes
  /\ Changes = {Kept, "-", "+"} /\ Kept # "-" /\ Kept # "+"
BY Zenon DEF Kept, Changes

\* A line after two sequences of lines.
LEMMA LineAfter ==
  \A s, t \in Seq(Line), l \in Line : Append(s \o t, l) = s \o Append(t, l)
<1> TAKE s, t \in Seq(Line), l \in Line
<1>1. s \o t \in Seq(Line) BY ConcatProperties
<1>2. <<l>> \in Seq(Line) OBVIOUS
<1>3. Append(s \o t, l) = (s \o t) \o <<l>> BY <1>1, AppendIsConcat
<1>4. Append(t, l) = t \o <<l>> BY AppendIsConcat
<1>5. (s \o t) \o <<l>> = s \o (t \o <<l>>) BY <1>2, ConcatAssociative
<1> QED BY <1>3, <1>4, <1>5

\* The chunk c and the lines ls, all of one kind.
Grown(c, kind, ls) ==
  [c EXCEPT !.old = IF kind \in {" ", "-"} THEN @ \o ls ELSE @,
            !.new = IF kind \in {" ", "+"} THEN @ \o ls ELSE @]

\* It is a chunk, with these parts.
LEMMA GrownBy ==
  ASSUME NEW c \in Chunk, NEW kind \in Changes, NEW ls \in Seq(Line)
  PROVE  /\ Grown(c, kind, ls) \in Chunk
         /\ Grown(c, kind, ls).context = c.context
         /\ Grown(c, kind, ls).old = IF kind \in {Kept, "-"} THEN c.old \o ls ELSE c.old
         /\ Grown(c, kind, ls).new = IF kind \in {Kept, "+"} THEN c.new \o ls ELSE c.new
<1> DEFINE old == IF kind \in {Kept, "-"} THEN c.old \o ls ELSE c.old
           new == IF kind \in {Kept, "+"} THEN c.new \o ls ELSE c.new
<1>1. Grown(c, kind, ls) = [c EXCEPT !.old = old, !.new = new] BY Zenon DEF Kept, Grown
<1>2. old \in Seq(Line) /\ new \in Seq(Line)
  <2>1. c.old \o ls \in Seq(Line) /\ c.new \o ls \in Seq(Line) BY ConcatProperties DEF Chunk
  <2> QED BY <2>1 DEF Chunk
<1> HIDE DEF old, new
<1>3. LET g == [c EXCEPT !.old = old, !.new = new] IN
      g \in Chunk /\ g.context = c.context /\ g.old = old /\ g.new = new
  BY <1>2 DEF Chunk
<1>4. Grown(c, kind, ls) \in Chunk BY <1>1, <1>3
<1>5. /\ Grown(c, kind, ls).context = c.context
      /\ Grown(c, kind, ls).old = old /\ Grown(c, kind, ls).new = new
  BY <1>1, <1>3
<1> QED BY <1>4, <1>5 DEF old, new

\* Lines of one kind.
LEMMA ReadsChanges ==
  ASSUME NEW hs \in Seq(Hunk), NEW h \in Hunk, NEW cs \in Seq(Chunk), NEW c \in Chunk,
         NEW kind \in Changes, NEW ls \in Seq(Line),
         \A i \in 1..Len(ls) : ~IsEnd(Mark(kind, ls[i]))
  PROVE  /\ Grown(c, kind, ls) \in Chunk
         /\ Reads(InChunk(hs, h, cs, c), Marked(kind, ls), InChunk(hs, h, cs, Grown(c, kind, ls)))
<1>1. Len(ls) \in Nat /\ \A i \in 1..Len(ls) : ls[i] \in Line OBVIOUS
<1>2. ASSUME NEW t \in Seq(Line) PROVE Grown(c, kind, t) \in Chunk
  <2>1. c.old \o t \in Seq(Line) /\ c.new \o t \in Seq(Line)
    BY ConcatProperties DEF Chunk
  <2> QED BY <2>1 DEF Grown, Chunk
<1>3. Grown(c, kind, <<>>) = c
  <2>1. c.old \o <<>> = c.old /\ c.new \o <<>> = c.new BY ConcatEmptySeq DEF Chunk
  <2> QED BY <2>1 DEF Grown, Chunk
<1>4. ASSUME NEW t \in Seq(Line), NEW l \in Line
      PROVE  Change(Grown(c, kind, t), Mark(kind, l)) = Grown(c, kind, Append(t, l))
  <2>1. c.old \in Seq(Line) /\ c.new \in Seq(Line) BY DEF Chunk
  <2>2. \A u \in Seq(Line) : Append(u \o t, l) = u \o Append(t, l) BY LineAfter
  <2>3. /\ Append(c.old \o t, l) = c.old \o Append(t, l)
        /\ Append(c.new \o t, l) = c.new \o Append(t, l)
    BY <2>1, <2>2
  <2> QED BY <2>3 DEF Change, Grown, Mark, Chunk, Changes
<1> DEFINE g(i) == Grown(c, kind, SubSeq(ls, 1, i))
           st == [i \in 0..Len(ls) |-> InChunk(hs, h, cs, g(i))]
<1>5. ASSUME NEW i \in 1..Len(ls) PROVE st[i] = ReadLine(st[i - 1], Mark(kind, ls[i]))
  <2> DEFINE l == Mark(kind, ls[i])
  <2>1. i - 1 \in 0..Len(ls) /\ i \in 0..Len(ls) BY <1>1
  <2>2. SubSeq(ls, 1, i - 1) \in Seq(Line) BY <2>1, BeginningGrows
  <2>3. l \in PatchLine /\ l.kind = kind /\ l.line = ls[i]
    <3>1. NoPath \in WrittenPath BY DEF NoPath, WrittenPath, Path
    <3> QED BY <1>1, <3>1 DEF Mark, PatchLine
  <2>4. ~IsEnd(l) OBVIOUS
  <2>5. ReadLine(InChunk(hs, h, cs, g(i - 1)), l) = InChunk(hs, h, cs, Change(g(i - 1), l))
    <3>1. g(i - 1) \in Chunk BY <1>2, <2>2
    <3> HIDE DEF g, l
    <3> QED BY <2>3, <2>4, <3>1, ReadsChange
  <2>6. Change(g(i - 1), l) = g(i)
    <3>1. SubSeq(ls, 1, i) = Append(SubSeq(ls, 1, i - 1), ls[i]) BY BeginningGrows
    <3> QED BY <1>1, <1>4, <2>2, <3>1
  <2>7. st[i - 1] = InChunk(hs, h, cs, g(i - 1)) /\ st[i] = InChunk(hs, h, cs, g(i)) BY <2>1
  <2> HIDE DEF g, l, st
  <2> QED BY <2>5, <2>6, <2>7 DEF l
<1>6. st[0] = InChunk(hs, h, cs, c) /\ st[Len(ls)] = InChunk(hs, h, cs, Grown(c, kind, ls))
  <2>1. SubSeq(ls, 1, 0) = <<>> /\ SubSeq(ls, 1, Len(ls)) = ls BY BeginningGrows
  <2>2. 0 \in 0..Len(ls) /\ Len(ls) \in 0..Len(ls) BY <1>1
  <2> QED BY <1>3, <2>1, <2>2
<1>7. Reads(st[0], Marked(kind, ls), st[Len(ls)])
  <2> HIDE DEF st
  <2> QED BY <1>5, ReadsMarked
<1> QED BY <1>2, <1>6, <1>7

\* What two sequences have in common, and the rest of each.
LEMMA CommonBegins ==
  ASSUME NEW D, NEW s \in Seq(D), NEW t \in Seq(D)
  PROVE  LET i == Common(s, t) IN
         /\ i \in 0..Len(s)
         /\ SubSeq(s, 1, i) \in Seq(D)
         /\ SubSeq(s, i + 1, Len(s)) \in Seq(D) /\ SubSeq(t, i + 1, Len(t)) \in Seq(D)
         /\ SubSeq(s, 1, i) \o SubSeq(s, i + 1, Len(s)) = s
         /\ SubSeq(s, 1, i) \o SubSeq(t, i + 1, Len(t)) = t
<1> DEFINE Begins(e) == IsPrefix(SubSeq(s, 1, e), t)
           Ends(e) == e = Len(s) \/ ~Begins(e + 1)
           T == {e \in 0..Len(s) : Ends(e)}
           i == Common(s, t)
<1>1. /\ Len(s) \in Nat /\ Len(t) \in Nat
      /\ \A j \in 1..Len(s) : s[j] \in D
      /\ \A j \in 1..Len(t) : t[j] \in D
  OBVIOUS
<1>2. \E e \in 0..Len(s) : Begins(e) /\ Ends(e)
  <2>1. Len(s) \in T /\ T \in SUBSET Nat BY <1>1
  <2>2. PICK e \in T : \A m \in T : e <= m
    <3> HIDE DEF T
    <3> QED BY <2>1, LeastNumber
  <2>3. Begins(e)
    <3>1. CASE e = 0
      <4>1. SubSeq(s, 1, 0) = <<>> /\ SubSeq(t, 1, 0) = <<>> BY BeginningGrows
      <4>2. SubSeq(<<>>, 1, 0) = <<>> /\ Len(<<>>) = 0 OBVIOUS
      <4>3. IsPrefix(<<>>, t) BY <1>1, <4>1, <4>2 DEF IsPrefix
      <4> QED BY <3>1, <4>1, <4>3
    <3>2. CASE e # 0
      <4>1. e - 1 \in 0..Len(s) /\ ~ e <= e - 1 /\ e - 1 # Len(s) BY <1>1, <2>2, <3>2
      <4>2. e - 1 \notin T BY <2>2, <4>1
      <4>3. Begins((e - 1) + 1) BY <4>1, <4>2
      <4>4. (e - 1) + 1 = e BY <2>2
      <4> HIDE DEF Begins
      <4> QED BY <4>3, <4>4
    <3> QED BY <3>1, <3>2
  <2> QED BY <2>2, <2>3
<1>3. i \in 0..Len(s) /\ Begins(i) BY <1>2 DEF Common
<1> HIDE DEF i
<1>4. i \in Nat /\ i <= Len(s) BY <1>1, <1>3
<1> DEFINE a == SubSeq(s, 1, i)
<1>5. a \in Seq(D) /\ Len(a) = i /\ SubSeq(a, 1, i) = a
  <2>1. 1 \in Int /\ i \in Int /\ \A j \in 1..i : s[j] \in D BY <1>1, <1>4
  <2>2. a \in Seq(D) /\ Len(a) = IF 1 <= i THEN i - 1 + 1 ELSE 0 BY <2>1, SubSeqProperties
  <2>3. Len(a) = i BY <1>4, <2>2
  <2> HIDE DEF a
  <2> QED BY <2>2, <2>3, SubSeqFull
<1>6. i <= Len(t) /\ a = SubSeq(t, 1, i)
  <2> HIDE DEF a
  <2> QED BY <1>3, <1>5 DEF IsPrefix, a
<1>7. ASSUME NEW u \in Seq(D), i <= Len(u)
      PROVE  SubSeq(u, i + 1, Len(u)) \in Seq(D)
             /\ SubSeq(u, 1, i) \o SubSeq(u, i + 1, Len(u)) = u
  <2>1. Len(u) \in Nat /\ \A j \in 1..Len(u) : u[j] \in D OBVIOUS
  <2>2. /\ 1 \in 1..(Len(u) + 1) /\ i \in (1 - 1)..Len(u) /\ Len(u) \in i..Len(u)
        /\ i + 1 \in Int /\ Len(u) \in Int /\ \A j \in (i + 1)..Len(u) : u[j] \in D
    BY <1>4, <1>7, <2>1
  <2>3. SubSeq(u, 1, i) \o SubSeq(u, i + 1, Len(u)) = SubSeq(u, 1, Len(u))
    BY <2>2, ConcatAdjacentSubSeq
  <2>4. SubSeq(u, i + 1, Len(u)) \in Seq(D) BY <2>2, SubSeqProperties
  <2> QED BY <2>3, <2>4, SubSeqFull
<1> QED BY <1>3, <1>4, <1>5, <1>6, <1>7 DEF i
LEMMA CommonLines ==
  \A s, t \in Seq(Line) :
    LET i == Common(s, t) IN
    /\ i \in 0..Len(s)
    /\ SubSeq(s, 1, i) \in Seq(Line)
    /\ SubSeq(s, i + 1, Len(s)) \in Seq(Line) /\ SubSeq(t, i + 1, Len(t)) \in Seq(Line)
    /\ SubSeq(s, 1, i) \o SubSeq(s, i + 1, Len(s)) = s
    /\ SubSeq(s, 1, i) \o SubSeq(t, i + 1, Len(t)) = t
BY CommonBegins

\* A chunk, under a header or after another chunk.
LEMMA ReadsChunk ==
  ASSUME NEW hs \in Seq(Hunk), NEW h \in Hunk, NEW cs \in Seq(Chunk), NEW c \in Chunk,
         NEW where \in {"headed", "update", "chunk"},
         Bare(c.context),
         \A i \in DOMAIN c.old : ~IsEnd(Mark(Kept, c.old[i]))
  PROVE  /\ ChunkText(c) \in Seq(PatchLine)
         /\ Reads([at |-> where, hunks |-> Append(hs, [h EXCEPT !.chunks = cs])],
                  ChunkText(c), InChunk(hs, h, cs, c))
<1> DEFINE i == Common(c.old, c.new)
           same == SubSeq(c.old, 1, i)
           less == SubSeq(c.old, i + 1, Len(c.old))
           more == SubSeq(c.new, i + 1, Len(c.new))
           c0 == [context |-> c.context, old |-> <<>>, new |-> <<>>]
           c1 == Grown(c0, Kept, same)
           c2 == Grown(c1, "-", less)
           c3 == Grown(c2, "+", more)
           s == [at |-> where, hunks |-> Append(hs, [h EXCEPT !.chunks = cs])]
           first == <<Mark("@@", c.context)>>
<1>1. /\ c.context \in Line /\ c.old \in Seq(Line) /\ c.new \in Seq(Line)
      /\ Len(c.old) \in Nat /\ DOMAIN c.old = 1..Len(c.old)
  BY DEF Chunk
<1>2. /\ i \in 0..Len(c.old)
      /\ same \in Seq(Line) /\ less \in Seq(Line) /\ more \in Seq(Line)
      /\ same \o less = c.old /\ same \o more = c.new
  BY <1>1, CommonLines
<1>3. first \in Seq(PatchLine) /\ Reads(s, first, InChunk(hs, h, cs, c0))
  <2> DEFINE l == Mark("@@", c.context)
             g == [h EXCEPT !.chunks = cs]
             e == [h EXCEPT !.chunks = Append(cs, c0)]
  <2>1. l \in PatchLine
    <3>1. NoPath \in WrittenPath BY DEF NoPath, WrittenPath, Path
    <3> QED BY <1>1, <3>1 DEF Mark, PatchLine
  <2>2. [c.context EXCEPT !.lead = NoSpace, !.trail = NoSpace] = c.context BY <1>1 DEF Line, Bare
  <2>3. c0 \in Chunk
    <3>1. <<>> \in Seq(Line) OBVIOUS
    <3> QED BY <1>1, <3>1 DEF Chunk
  <2>4. g \in Hunk /\ e \in Hunk /\ g.chunks = cs /\ [g EXCEPT !.chunks = Append(cs, c0)] = e
    <3>1. Append(cs, c0) \in Seq(Chunk) BY <2>3, AppendProperties
    <3> HIDE DEF c0
    <3> QED BY <3>1 DEF Hunk
  <2>5. ReadLine(s, l) = NewChunk(s, l) BY DEF ReadLine, Stars, Mark, IsEnd, IsMarker
  <2>6. NewChunk(s, l) =
          [at |-> "chunk",
           hunks |-> [s.hunks EXCEPT ![Len(s.hunks)] =
                        [Last(s.hunks) EXCEPT !.chunks = Append(@, c0)]]]
    BY <2>2 DEF NewChunk, OnLast, Last, Mark
  <2>7. s.hunks = Append(hs, g) OBVIOUS
  <2>8. /\ Last(Append(hs, g)) = g
        /\ [Append(hs, g) EXCEPT ![Len(Append(hs, g))] = e] = Append(hs, e)
    <3> HIDE DEF g, e
    <3> QED BY <2>4, LastAppended DEF Last
  <2>9. NewChunk(s, l) = [at |-> "chunk", hunks |-> Append(hs, e)]
    <3>1. [g EXCEPT !.chunks = Append(@, c0)] = e BY <2>4
    <3> HIDE DEF g, e, c0, s, l
    <3> QED BY <2>6, <2>7, <2>8, <3>1
  <2>10. NewChunk(s, l) = InChunk(hs, h, cs, c0) BY <2>9 DEF InChunk
  <2>11. Reads(s, <<l>>, ReadLine(s, l)) BY ReadsLine
  <2> HIDE DEF s, l, c0
  <2>12. <<l>> \in Seq(PatchLine) BY <2>1
  <2> QED BY <2>5, <2>10, <2>11, <2>12 DEF l
<1>4. c0 \in Chunk
  <2>1. <<>> \in Seq(Line) OBVIOUS
  <2> QED BY <1>1, <2>1 DEF Chunk
<1>5. c3 = c
  <2> HIDE DEF same, less, more
  <2>1. <<>> \o same = same /\ <<>> \o more = more BY <1>2, ConcatEmptySeq
  <2>2. /\ Kept \in Changes /\ "-" \in Changes /\ "+" \in Changes
        /\ Kept \notin {"-", "+"}
    BY KeptIsChange
  <2>3. c0.context = c.context /\ c0.old = <<>> /\ c0.new = <<>> OBVIOUS
  <2> HIDE DEF c0
  <2>4. c1 \in Chunk /\ c1.context = c.context /\ c1.old = same /\ c1.new = same
    <3>1. c1 \in Chunk /\ c1.context = c0.context
          /\ c1.old = (IF Kept \in {Kept, "-"} THEN c0.old \o same ELSE c0.old)
          /\ c1.new = (IF Kept \in {Kept, "+"} THEN c0.new \o same ELSE c0.new)
      BY <1>2, <1>4, <2>2, GrownBy
    <3> HIDE DEF c1
    <3> QED BY <2>1, <2>3, <3>1
  <2> HIDE DEF c1
  <2>5. c2 \in Chunk /\ c2.context = c.context /\ c2.old = c.old /\ c2.new = same
    <3>1. c2 \in Chunk /\ c2.context = c1.context
          /\ c2.old = (IF "-" \in {Kept, "-"} THEN c1.old \o less ELSE c1.old)
          /\ c2.new = (IF "-" \in {Kept, "+"} THEN c1.new \o less ELSE c1.new)
      BY <1>2, <2>2, <2>4, GrownBy
    <3> HIDE DEF c2
    <3> QED BY <1>2, <2>2, <2>4, <3>1
  <2> HIDE DEF c2
  <2>6. c3 \in Chunk /\ c3.context = c.context /\ c3.old = c.old /\ c3.new = c.new
    <3>1. c3 \in Chunk /\ c3.context = c2.context
          /\ c3.old = (IF "+" \in {Kept, "-"} THEN c2.old \o more ELSE c2.old)
          /\ c3.new = (IF "+" \in {Kept, "+"} THEN c2.new \o more ELSE c2.new)
      BY <1>2, <2>2, <2>5, GrownBy
    <3> HIDE DEF c3
    <3> QED BY <1>2, <2>2, <2>5, <3>1
  <2> HIDE DEF c3
  <2>7. \A d \in Chunk : d = [context |-> d.context, old |-> d.old, new |-> d.new]
    BY DEF Chunk
  <2> QED BY <2>6, <2>7
<1> HIDE DEF s, c0, first
<1>6. ASSUME NEW j \in 1..Len(same) PROVE ~IsEnd(Mark(Kept, same[j]))
  <2>1. j \in DOMAIN c.old /\ same[j] = c.old[j]
    <3>1. 1 \in Int /\ i \in Int /\ \A m \in 1..i : c.old[m] \in Line BY <1>1, <1>2
    <3>2. /\ Len(same) = IF 1 <= i THEN i - 1 + 1 ELSE 0
          /\ \A m \in 1..(i - 1 + 1) : same[m] = c.old[1 + m - 1]
      BY <3>1, SubSeqProperties
    <3>3. j \in 1..i BY <1>2, <3>2
    <3>4. j \in 1..(i - 1 + 1) /\ 1 + j - 1 = j BY <1>2, <3>3
    <3> QED BY <1>1, <1>2, <3>2, <3>3, <3>4
  <2> QED BY <2>1
<1>7. ASSUME NEW kind \in {"-", "+"}, NEW line PROVE ~IsEnd(Mark(kind, line))
  BY DEF IsEnd, IsMarker, Mark
<1> HIDE DEF same, less, more
<1>8. /\ c1 \in Chunk
      /\ Reads(InChunk(hs, h, cs, c0), Marked(Kept, same), InChunk(hs, h, cs, c1))
  BY <1>2, <1>4, <1>6, ReadsChanges, KeptIsChange
<1>9. /\ c2 \in Chunk
      /\ Reads(InChunk(hs, h, cs, c1), Marked("-", less), InChunk(hs, h, cs, c2))
  <2> HIDE DEF c1
  <2> QED BY <1>2, <1>7, <1>8, ReadsChanges, KeptIsChange
<1>10. /\ c3 \in Chunk
       /\ Reads(InChunk(hs, h, cs, c2), Marked("+", more), InChunk(hs, h, cs, c3))
  <2> HIDE DEF c2
  <2> QED BY <1>2, <1>7, <1>9, ReadsChanges, KeptIsChange
<1>11. /\ Marked(Kept, same) \in Seq(PatchLine) /\ Marked("-", less) \in Seq(PatchLine)
       /\ Marked("+", more) \in Seq(PatchLine)
  BY <1>2, MarkedType, KeptIsChange
<1> HIDE DEF c1, c2, c3
<1> DEFINE t1 == first \o Marked(Kept, same)
           t2 == t1 \o Marked("-", less)
           t3 == t2 \o Marked("+", more)
<1>12. t1 \in Seq(PatchLine) /\ Reads(s, t1, InChunk(hs, h, cs, c1))
  BY <1>3, <1>8, <1>11, ConcatProperties, ReadsOn
<1> HIDE DEF t1
<1>13. t2 \in Seq(PatchLine) /\ Reads(s, t2, InChunk(hs, h, cs, c2))
  BY <1>9, <1>11, <1>12, ConcatProperties, ReadsOn
<1> HIDE DEF t2
<1>14. t3 \in Seq(PatchLine) /\ Reads(s, t3, InChunk(hs, h, cs, c3))
  BY <1>10, <1>11, <1>13, ConcatProperties, ReadsOn
<1>15. ChunkText(c) = t3 BY DEF ChunkText, Kept, t1, t2, same, less, more, first
<1> QED BY <1>5, <1>14, <1>15 DEF s

\* The chunks of a hunk.
LEMMA ReadsChunks ==
  ASSUME NEW hs \in Seq(Hunk), NEW h \in Hunk, NEW where \in {"headed", "update"},
         \A i \in DOMAIN h.chunks : Bare(h.chunks[i].context),
         Plain(h)
  PROVE  LET text == FlattenSeq([i \in DOMAIN h.chunks |-> ChunkText(h.chunks[i])]) IN
         /\ text \in Seq(PatchLine)
         /\ Reads([at |-> where, hunks |-> Append(hs, [h EXCEPT !.chunks = <<>>])], text,
                  [at |-> IF h.chunks = <<>> THEN where ELSE "chunk", hunks |-> Append(hs, h)])
<1> DEFINE cs == h.chunks
           total == Len(cs)
           parts == [i \in DOMAIN cs |-> ChunkText(cs[i])]
           Under(ds) == [h EXCEPT !.chunks = ds]
           st == [i \in 0..total |-> [at |-> IF i = 0 THEN where ELSE "chunk",
                                  hunks |-> Append(hs, Under(SubSeq(cs, 1, i)))]]
<1>1. /\ cs \in Seq(Chunk) /\ total \in Nat /\ DOMAIN cs = 1..total
      /\ \A i \in 1..total : cs[i] \in Chunk
  BY DEF Hunk
<1>2. ASSUME NEW i \in 1..total
      PROVE  ChunkText(cs[i]) \in Seq(PatchLine) /\ Reads(st[i - 1], ChunkText(cs[i]), st[i])
  <2> DEFINE before == SubSeq(cs, 1, i - 1)
             at0 == IF i - 1 = 0 THEN where ELSE "chunk"
  <2>1. i - 1 \in 0..total /\ i \in 0..total /\ i # 0 BY <1>1
  <2>2. before \in Seq(Chunk) /\ SubSeq(cs, 1, i) = Append(before, cs[i])
    BY <1>1, <2>1, BeginningGrows
  <2>3. st[i - 1] = [at |-> at0, hunks |-> Append(hs, Under(before))] BY <2>1
  <2>4. st[i] = InChunk(hs, h, before, cs[i]) BY <2>1, <2>2 DEF InChunk
  <2>5. /\ cs[i] \in Chunk /\ Bare(cs[i].context)
        /\ \A j \in DOMAIN cs[i].old : ~IsEnd(Mark(Kept, cs[i].old[j]))
    BY <1>1 DEF Plain, Kept
  <2>6. at0 \in {"headed", "update", "chunk"} OBVIOUS
  <2> HIDE DEF before, at0, cs, st
  <2>7. /\ ChunkText(cs[i]) \in Seq(PatchLine)
        /\ Reads([at |-> at0, hunks |-> Append(hs, [h EXCEPT !.chunks = before])],
                 ChunkText(cs[i]), InChunk(hs, h, before, cs[i]))
    BY <2>2, <2>5, <2>6, ReadsChunk
  <2> QED BY <2>3, <2>4, <2>7
<1>3. parts \in Seq(Seq(PatchLine)) /\ Len(parts) = total
  <2>1. parts = [i \in 1..total |-> ChunkText(cs[i])] BY <1>1
  <2>2. \A i \in 1..total : ChunkText(cs[i]) \in Seq(PatchLine) BY <1>2
  <2>3. parts \in [1..total -> Seq(PatchLine)] BY <2>1, <2>2
  <2> HIDE DEF parts, cs
  <2> QED BY <1>1, <2>3
<1>4. ASSUME NEW i \in 1..Len(parts) PROVE Reads(st[i - 1], parts[i], st[i])
  <2>1. i \in 1..total /\ parts[i] = ChunkText(cs[i]) BY <1>1, <1>3
  <2> QED BY <1>2, <2>1
<1>5. FlattenSeq(parts) \in Seq(PatchLine) BY <1>3, FlattenType
<1>6. Reads(st[0], FlattenSeq(parts), st[Len(parts)])
  <2> HIDE DEF st, parts
  <2> QED BY <1>3, <1>4, ReadsParts
<1>7. st[0] = [at |-> where, hunks |-> Append(hs, Under(<<>>))]
  <2>1. Under(SubSeq(cs, 1, 0)) = Under(<<>>) BY <1>1, BeginningGrows
  <2>2. 0 \in 0..total BY <1>1
  <2> HIDE DEF Under, cs
  <2> QED BY <2>1, <2>2
<1>8. st[total] = [at |-> IF cs = <<>> THEN where ELSE "chunk", hunks |-> Append(hs, h)]
  <2>1. SubSeq(cs, 1, total) = cs BY <1>1, BeginningGrows
  <2>2. Under(cs) = h BY DEF Hunk
  <2>3. total = 0 <=> cs = <<>> BY <1>1
  <2>4. st[total] = [at |-> IF total = 0 THEN where ELSE "chunk",
                 hunks |-> Append(hs, Under(SubSeq(cs, 1, total)))]
    BY <1>1
  <2> QED BY <2>1, <2>2, <2>3, <2>4
<1> QED BY <1>3, <1>5, <1>6, <1>7, <1>8

\* The lines of an added file.
LEMMA ReadsContents ==
  ASSUME NEW hs \in Seq(Hunk), NEW h \in Hunk
  PROVE  Reads([at |-> "add", hunks |-> Append(hs, [h EXCEPT !.contents = <<>>])],
               Marked("+", h.contents), [at |-> "add", hunks |-> Append(hs, h)])
<1> DEFINE ls == h.contents
           total == Len(ls)
           g(i) == [h EXCEPT !.contents = SubSeq(ls, 1, i)]
           st == [i \in 0..total |-> [at |-> "add", hunks |-> Append(hs, g(i))]]
<1>1. ls \in Seq(Line) /\ total \in Nat /\ \A i \in 1..total : ls[i] \in Line BY DEF Hunk
<1>2. ASSUME NEW i \in 1..total PROVE st[i] = ReadLine(st[i - 1], Mark("+", ls[i]))
  <2> DEFINE l == Mark("+", ls[i])
             before == SubSeq(ls, 1, i - 1)
             s == st[i - 1]
  <2>1. i - 1 \in 0..total /\ i \in 0..total BY <1>1
  <2>2. before \in Seq(Line) /\ SubSeq(ls, 1, i) = Append(before, ls[i])
    BY <1>1, <2>1, BeginningGrows
  <2>3. s = [at |-> "add", hunks |-> Append(hs, g(i - 1))] BY <2>1
  <2>4. st[i] = [at |-> "add", hunks |-> Append(hs, g(i))] BY <2>1
  <2>5. g(i - 1) \in Hunk /\ g(i) \in Hunk
        /\ [g(i - 1) EXCEPT !.contents = Append(@, ls[i])] = g(i)
    <3>1. Append(before, ls[i]) \in Seq(Line) BY <1>1, <2>2, AppendProperties
    <3> QED BY <2>2, <3>1 DEF Hunk
  <2>6. ReadLine(s, l) = AddedLine(s, l)
    <3>1. s.at = "add" BY <2>3
    <3> HIDE DEF s
    <3> QED BY <3>1 DEF ReadLine, Stars, Mark, IsEnd, IsMarker
  <2>7. AddedLine(s, l) =
          [s EXCEPT !.hunks = [s.hunks EXCEPT ![Len(s.hunks)] =
             [Last(s.hunks) EXCEPT !.contents = Append(@, ls[i])]]]
    BY DEF AddedLine, OnLast, Last, Mark
  <2> HIDE DEF g
  <2>8. /\ Last(Append(hs, g(i - 1))) = g(i - 1)
        /\ [Append(hs, g(i - 1)) EXCEPT ![Len(Append(hs, g(i - 1)))] = g(i)] = Append(hs, g(i))
    BY <2>5, LastAppended DEF Last
  <2>9. \A a, b : [[at |-> "add", hunks |-> a] EXCEPT !.hunks = b]
                    = [at |-> "add", hunks |-> b]
    OBVIOUS
  <2>10. s.hunks = Append(hs, g(i - 1)) BY <2>3
  <2> HIDE DEF s, l, st
  <2>11. AddedLine(s, l) = [s EXCEPT !.hunks = Append(hs, g(i))] BY <2>5, <2>7, <2>8, <2>10
  <2>12. [s EXCEPT !.hunks = Append(hs, g(i))] = [at |-> "add", hunks |-> Append(hs, g(i))]
    BY <2>3, <2>9
  <2> QED BY <2>4, <2>6, <2>11, <2>12 DEF l, s
<1>3. st[0] = [at |-> "add", hunks |-> Append(hs, [h EXCEPT !.contents = <<>>])]
  <2>1. g(0) = [h EXCEPT !.contents = <<>>] BY <1>1, BeginningGrows
  <2>2. 0 \in 0..total BY <1>1
  <2> HIDE DEF g
  <2> QED BY <2>1, <2>2
<1>4. st[total] = [at |-> "add", hunks |-> Append(hs, h)]
  <2>1. g(total) = h
    <3>1. SubSeq(ls, 1, total) = ls BY <1>1, BeginningGrows
    <3>2. [h EXCEPT !.contents = ls] = h BY DEF Hunk
    <3> QED BY <3>1, <3>2
  <2>2. total \in 0..total BY <1>1
  <2> HIDE DEF g
  <2> QED BY <2>1, <2>2
<1> HIDE DEF st
<1>5. Reads(st[0], Marked("+", ls), st[total]) BY <1>1, <1>2, KeptIsChange, ReadsMarked
<1> QED BY <1>3, <1>4, <1>5

\* Where the parser is after a hunk.
After(h) ==
  IF h.type # "update" THEN h.type
  ELSE IF h.chunks # <<>> THEN "chunk"
  ELSE IF h.move # NoPath THEN "update" ELSE "headed"

\* The header of a hunk, and the target of its move.
LEMMA ReadsHeader ==
  ASSUME NEW hs \in Seq(Hunk), NEW h \in Hunk, Proper(h),
         NEW where, where \notin {"before", "ended", "error"}
  PROVE  LET text == <<HeaderOf(h.type, h.path)>> \o MoveText(h)
             under == IF h.move # NoPath THEN "update"
                      ELSE IF h.type = "update" THEN "headed" ELSE h.type
             begun == [h EXCEPT !.contents = <<>>, !.chunks = <<>>]
         IN /\ text \in Seq(PatchLine)
            /\ Reads([at |-> where, hunks |-> hs], text,
                     [at |-> under, hunks |-> Append(hs, begun)])
<1> DEFINE h0 == NewHunk(h.type, h.path)
           h1 == [h0 EXCEPT !.move = h.move]
           w == IF h.type = "update" THEN "headed" ELSE h.type
           s0 == [at |-> where, hunks |-> hs]
           s1 == [at |-> w, hunks |-> Append(hs, h0)]
           under == IF h.move # NoPath THEN "update" ELSE w
           s2 == [at |-> under, hunks |-> Append(hs, h1)]
           header == HeaderOf(h.type, h.path)
           move == HeaderOf("move", h.move)
<1>1. /\ h.type \in {"add", "delete", "update"} /\ h.path \in WrittenPath /\ h.path # NoPath
      /\ h.move \in WrittenPath /\ NoPath \in WrittenPath
      /\ h.move # NoPath => h.type = "update"
  BY DEF Hunk, Proper, NoPath, WrittenPath, Path
<1>2. header \in PatchLine /\ move \in PatchLine
  <2>1. Empty \in Line BY LineTextAssumption DEF Empty, Line
  <2> QED BY <1>1, <2>1 DEF HeaderOf, PatchLine, Stars
<1>3. h0 \in Hunk /\ h1 \in Hunk
  <2>1. <<>> \in Seq(Line) /\ <<>> \in Seq(Chunk) OBVIOUS
  <2> QED BY <1>1, <2>1 DEF NewHunk, Hunk
<1>4. ReadLine(s0, header) = s1
  <2>1. header.kind = h.type /\ header.path = h.path BY DEF HeaderOf
  <2>2. ReadLine(s0, header) = Header(s0, header)
    <3>1. ~IsEnd(header) BY <1>1, <2>1 DEF IsEnd, IsMarker
    <3>2. header.kind \in Stars BY <1>1, <2>1 DEF Stars
    <3>3. s0.at \notin {"before", "ended", "error"} OBVIOUS
    <3> HIDE DEF s0, header
    <3> QED BY Zenon, <3>1, <3>2, <3>3 DEF ReadLine
  <2>3. Header(s0, header) = s1 BY <1>1, <2>1 DEF Header
  <2> QED BY <2>2, <2>3
<1>5. Reads(s0, <<header>>, s1) BY <1>4, ReadsLine
<1>6. MoveText(h) \in Seq(PatchLine) /\ Reads(s1, MoveText(h), s2)
  <2>1. CASE h.move = NoPath
    <3>1. h1 = h0 BY <2>1 DEF NewHunk
    <3>2. MoveText(h) = <<>> BY <2>1 DEF MoveText
    <3>3. s1 = s2 BY <2>1, <3>1
    <3>4. Reads(s1, <<>>, s1) BY ReadsLine
    <3> QED BY <3>2, <3>3, <3>4
  <2>2. CASE h.move # NoPath
    <3>1. MoveText(h) = <<move>> BY <2>2 DEF MoveText
    <3>2. move.kind = "move" /\ move.path = h.move BY DEF HeaderOf
    <3>3. s1.at = "headed" /\ s1.hunks = Append(hs, h0) BY <1>1, <2>2
    <3>4. ReadLine(s1, move) = Header(s1, move)
      <4> HIDE DEF s1, move
      <4> QED BY <3>2, <3>3 DEF ReadLine, Stars, IsEnd, IsMarker
    <3>5. Header(s1, move) =
            [at |-> "update", hunks |-> [s1.hunks EXCEPT ![Len(s1.hunks)] =
               [Last(s1.hunks) EXCEPT !.move = h.move]]]
      <4> HIDE DEF s1, move
      <4> QED BY <2>2, <3>2, <3>3 DEF Header, OnLast, Last
    <3>6. /\ Last(Append(hs, h0)) = h0
          /\ [Append(hs, h0) EXCEPT ![Len(Append(hs, h0))] = h1] = Append(hs, h1)
      <4> HIDE DEF h0, h1
      <4> QED BY <1>3, LastAppended DEF Last
    <3>7. Header(s1, move) = [at |-> "update", hunks |-> Append(hs, h1)]
      <4> DEFINE u == [Last(s1.hunks) EXCEPT !.move = h.move]
      <4>1. u = h1 BY <3>3, <3>6
      <4> HIDE DEF u, h0, h1, s1, move
      <4> QED BY <3>3, <3>5, <3>6, <4>1 DEF u
    <3>8. ReadLine(s1, move) = s2 BY <2>2, <3>4, <3>7
    <3>9. Reads(s1, <<move>>, ReadLine(s1, move)) BY ReadsLine
    <3> HIDE DEF s1, s2, move
    <3>10. <<move>> \in Seq(PatchLine) BY <1>2
    <3> QED BY <3>1, <3>8, <3>9, <3>10
  <2> QED BY <2>1, <2>2
<1>7. <<header>> \in Seq(PatchLine)
  <2> HIDE DEF header
  <2> QED BY <1>2
<1>8. h1 = [h EXCEPT !.contents = <<>>, !.chunks = <<>>]
  <2> DEFINE g == [h EXCEPT !.contents = <<>>]
             e == [g EXCEPT !.chunks = <<>>]
  <2>1. /\ g \in Hunk /\ g.contents = <<>> /\ g.chunks = h.chunks
        /\ g.type = h.type /\ g.path = h.path /\ g.move = h.move
    <3>1. <<>> \in Seq(Line) OBVIOUS
    <3> QED BY <3>1 DEF Hunk
  <2> HIDE DEF g
  <2>2. /\ e \in Hunk /\ e.contents = <<>> /\ e.chunks = <<>>
        /\ e.type = h.type /\ e.path = h.path /\ e.move = h.move
    <3>1. <<>> \in Seq(Chunk) OBVIOUS
    <3> QED BY <2>1, <3>1 DEF Hunk
  <2>3. h1.type = h.type /\ h1.path = h.path /\ h1.move = h.move
        /\ h1.contents = <<>> /\ h1.chunks = <<>>
    BY DEF NewHunk
  <2>4. [h EXCEPT !.contents = <<>>, !.chunks = <<>>] = e BY DEF g
  <2>5. \A x \in Hunk : x = [type |-> x.type, path |-> x.path, move |-> x.move,
                             contents |-> x.contents, chunks |-> x.chunks]
    BY DEF Hunk
  <2> HIDE DEF e, h1
  <2>6. h1 = e BY <1>3, <2>2, <2>3, <2>5
  <2> QED BY <2>4, <2>6
<1> HIDE DEF s0, s1, s2, header, h1
<1>9. <<header>> \o MoveText(h) \in Seq(PatchLine) BY <1>6, <1>7, ConcatProperties
<1>10. Reads(s0, <<header>> \o MoveText(h), s2) BY <1>5, <1>6, <1>7, ReadsOn
<1> QED BY <1>8, <1>9, <1>10 DEF s0, s2, header

\* A hunk.
LEMMA ReadsHunk ==
  ASSUME NEW hs \in Seq(Hunk), NEW h \in Hunk, Proper(h), Plain(h),
         NEW where, where \notin {"before", "ended", "error"}
  PROVE  /\ HunkText(h) \in Seq(PatchLine)
         /\ Reads([at |-> where, hunks |-> hs], HunkText(h),
                  [at |-> After(h), hunks |-> Append(hs, h)])
<1> DEFINE under == IF h.move # NoPath THEN "update"
                    ELSE IF h.type = "update" THEN "headed" ELSE h.type
           bare == [h EXCEPT !.chunks = <<>>]
           begun == [h EXCEPT !.contents = <<>>, !.chunks = <<>>]
           s0 == [at |-> where, hunks |-> hs]
           s1 == [at |-> under, hunks |-> Append(hs, begun)]
           s2 == [at |-> under, hunks |-> Append(hs, bare)]
           s3 == [at |-> After(h), hunks |-> Append(hs, h)]
           top == <<HeaderOf(h.type, h.path)>> \o MoveText(h)
           added == Marked("+", h.contents)
           rest == FlattenSeq([i \in DOMAIN h.chunks |-> ChunkText(h.chunks[i])])
<1>1. top \in Seq(PatchLine) /\ Reads(s0, top, s1) BY ReadsHeader
<1>2. /\ h.contents \in Seq(Line) /\ h.chunks \in Seq(Chunk)
      /\ h.type \in {"add", "delete", "update"}
      /\ h.type # "update" => h.move = NoPath /\ h.chunks = <<>>
      /\ h.type # "add" => h.contents = <<>>
      /\ \A i \in DOMAIN h.chunks : Bare(h.chunks[i].context)
  BY DEF Hunk, Proper
<1>3. added \in Seq(PatchLine) /\ Reads(s1, added, s2)
  <2>1. added \in Seq(PatchLine) BY <1>2, KeptIsChange, MarkedType
  <2>2. CASE h.type = "add"
    <3>1. h.chunks = <<>> /\ bare = h /\ under = "add" BY <1>2, <2>2 DEF Hunk
    <3>2. begun = [h EXCEPT !.contents = <<>>]
      <4>1. begun = [[h EXCEPT !.contents = <<>>] EXCEPT !.chunks = <<>>] OBVIOUS
      <4>2. [h EXCEPT !.contents = <<>>] \in Hunk /\ [h EXCEPT !.contents = <<>>].chunks = <<>>
        <5>1. <<>> \in Seq(Line) OBVIOUS
        <5> QED BY <3>1, <5>1 DEF Hunk
      <4>3. \A g \in Hunk : g.chunks = <<>> => [g EXCEPT !.chunks = <<>>] = g BY DEF Hunk
      <4> QED BY <4>1, <4>2, <4>3
    <3>3. Reads([at |-> "add", hunks |-> Append(hs, [h EXCEPT !.contents = <<>>])],
                added, [at |-> "add", hunks |-> Append(hs, h)])
      BY ReadsContents
    <3> QED BY <2>1, <3>1, <3>2, <3>3
  <2>3. CASE h.type # "add"
    <3>1. h.contents = <<>> BY <1>2, <2>3
    <3>2. [h EXCEPT !.contents = <<>>] = h BY <3>1 DEF Hunk
    <3>3. begun = bare BY <3>2
    <3>4. added = <<>> BY <3>1 DEF Marked
    <3>5. Reads(s1, <<>>, s1) BY ReadsLine
    <3> HIDE DEF begun, bare, added
    <3> QED BY <2>1, <3>3, <3>4, <3>5
  <2> QED BY <2>2, <2>3
<1>4. rest \in Seq(PatchLine) /\ Reads(s2, rest, s3)
  <2>1. CASE h.type = "update"
    <3>1. under \in {"headed", "update"} /\ (h.move # NoPath => under = "update")
          /\ (h.move = NoPath => under = "headed")
      BY <2>1
    <3>2. After(h) = IF h.chunks = <<>> THEN under ELSE "chunk" BY <2>1, <3>1 DEF After
    <3> HIDE DEF under
    <3>3. /\ rest \in Seq(PatchLine)
          /\ Reads([at |-> under, hunks |-> Append(hs, [h EXCEPT !.chunks = <<>>])], rest,
                   [at |-> IF h.chunks = <<>> THEN under ELSE "chunk", hunks |-> Append(hs, h)])
      BY <1>2, <3>1, ReadsChunks
    <3> QED BY <3>2, <3>3
  <2>2. CASE h.type # "update"
    <3>1. h.chunks = <<>> /\ h.move = NoPath BY <1>2, <2>2
    <3>2. bare = h BY <3>1 DEF Hunk
    <3>3. rest = <<>>
      <4>1. [i \in DOMAIN h.chunks |-> ChunkText(h.chunks[i])] = <<>> BY <3>1
      <4>2. FlattenSeq(<<>>) = <<>> BY DEF FlattenSeq
      <4> QED BY <4>1, <4>2
    <3>4. under = h.type /\ After(h) = h.type BY <2>2, <3>1 DEF After
    <3>5. s2 = s3 BY <3>2, <3>4
    <3>6. Reads(s2, <<>>, s2) BY ReadsLine
    <3> HIDE DEF rest, s2, s3
    <3>7. rest \in Seq(PatchLine) BY <3>3
    <3> QED BY <3>3, <3>5, <3>6, <3>7
  <2> QED BY <2>1, <2>2
<1>5. HunkText(h) = (top \o added) \o rest BY DEF HunkText
<1> HIDE DEF s0, s1, s2, s3, top, added, rest
<1>6. top \o added \in Seq(PatchLine) /\ Reads(s0, top \o added, s2)
  BY <1>1, <1>3, ConcatProperties, ReadsOn
<1> DEFINE most == top \o added
<1> HIDE DEF most
<1>7. most \o rest \in Seq(PatchLine) /\ Reads(s0, most \o rest, s3)
  BY <1>4, <1>6, ConcatProperties, ReadsOn DEF most
<1> QED BY <1>5, <1>7 DEF most, s0, s3

\* Where the parser is after the first i of some hunks.
Come(meant, i) ==
  [at |-> IF i = 0 THEN "top" ELSE After(meant[i]), hunks |-> SubSeq(meant, 1, i)]

\* What stands between the markers: read after the first, it gives the hunks that were meant.
LEMMA ReadsBody ==
  ASSUME NEW meant \in Seq(Hunk), Writable(meant)
  PROVE  /\ Body(meant) \in Seq(PatchLine)
         /\ \E r : /\ Reads([at |-> "top", hunks |-> <<>>], Body(meant), r)
                   /\ r.at \notin {"before", "ended", "error"} /\ r.hunks = meant
<1> DEFINE total == Len(meant)
           parts == [i \in DOMAIN meant |-> HunkText(meant[i])]
           st == [i \in 0..total |-> Come(meant, i)]
<1>1. total \in Nat /\ DOMAIN meant = 1..total /\ \A i \in 1..total : meant[i] \in Hunk
  OBVIOUS
<1>2. ASSUME NEW h \in Hunk PROVE After(h) \notin {"before", "ended", "error"}
  BY DEF After, Hunk
<1>3. ASSUME NEW i \in 0..total
      PROVE  st[i] = Come(meant, i) /\ Come(meant, i).at \notin {"before", "ended", "error"}
             /\ Come(meant, i).hunks = SubSeq(meant, 1, i)
  BY <1>1, <1>2 DEF Come
<1>4. ASSUME NEW i \in 1..total
      PROVE  HunkText(meant[i]) \in Seq(PatchLine) /\ Reads(st[i - 1], HunkText(meant[i]), st[i])
  <2> DEFINE before == SubSeq(meant, 1, i - 1)
             where == Come(meant, i - 1).at
  <2>1. i - 1 \in 0..total /\ i \in 0..total /\ i # 0 BY <1>1
  <2>2. before \in Seq(Hunk) /\ SubSeq(meant, 1, i) = Append(before, meant[i])
    BY <2>1, BeginningGrows
  <2>3. meant[i] \in Hunk /\ Proper(meant[i]) /\ Plain(meant[i]) BY <1>1 DEF Writable
  <2>4. where \notin {"before", "ended", "error"} BY <1>3, <2>1
  <2>5. st[i - 1] = [at |-> where, hunks |-> before] BY <2>1 DEF Come
  <2>6. st[i] = [at |-> After(meant[i]), hunks |-> Append(before, meant[i])]
    BY <2>1, <2>2 DEF Come
  <2> HIDE DEF before, where, st
  <2> QED BY <2>2, <2>3, <2>4, <2>5, <2>6, ReadsHunk
<1>5. parts \in Seq(Seq(PatchLine)) /\ Len(parts) = total
  <2>1. parts = [i \in 1..total |-> HunkText(meant[i])] BY <1>1
  <2>2. \A i \in 1..total : HunkText(meant[i]) \in Seq(PatchLine) BY <1>4
  <2>3. parts \in [1..total -> Seq(PatchLine)] BY <2>1, <2>2
  <2> HIDE DEF parts
  <2> QED BY <1>1, <2>3
<1>6. Reads(st[0], FlattenSeq(parts), st[Len(parts)])
  <2>1. ASSUME NEW i \in 1..Len(parts) PROVE Reads(st[i - 1], parts[i], st[i])
    <3>1. i \in 1..total /\ parts[i] = HunkText(meant[i]) BY <1>1, <1>5
    <3> QED BY <1>4, <3>1
  <2> HIDE DEF st, parts
  <2> QED BY <1>5, <2>1, ReadsParts
<1>7. st[0] = [at |-> "top", hunks |-> <<>>]
  <2>1. 0 \in 0..total /\ SubSeq(meant, 1, 0) = <<>> BY <1>1, BeginningGrows
  <2> QED BY <2>1 DEF Come
<1>8. st[total].at \notin {"before", "ended", "error"} /\ st[total].hunks = meant
  <2>1. total \in 0..total /\ SubSeq(meant, 1, total) = meant BY <1>1, BeginningGrows
  <2> QED BY <1>3, <2>1
<1>9. Body(meant) = FlattenSeq(parts) BY DEF Body
<1>10. FlattenSeq(parts) \in Seq(PatchLine) BY <1>5, FlattenType
<1> HIDE DEF st, parts
<1> QED BY <1>5, <1>6, <1>7, <1>8, <1>9, <1>10

-----------------------------------------------------------------------------
(* Lines that mean nothing.                                                *)

Stopped == {"before", "ended", "error"}

\* How the parser stands in a text, in the state r, when it would be in the
\* state t with the first j lines of the body alone: the same hunks, and a state
\* that the next line of the body takes to the same.
Agrees(r, t, body, j) ==
  \/ t.at \in {"ended", "error"}
  \/ /\ r.hunks = t.hunks /\ r.at \notin Stopped /\ t.at \notin Stopped
     /\ j < Len(body) =>
          \/ r.at = t.at
          \/ t.at = "headed" /\ r.at = "update" /\ body[j + 1].kind # "move"
          \/ r.at = "top" /\ body[j + 1].kind \in Headers

\* The parser does not go back before the first marker.
LEMMA NeverBefore ==
  ASSUME NEW s \in ParserState, NEW l \in PatchLine, s.at # "before"
  PROVE  ReadLine(s, l).at # "before"
<1>1. l.kind \in Stars => Header(s, l).at # "before" BY DEF Header, ParserState
<1>2. AddedLine(s, l).at = s.at /\ ChangedLine(s, l).at = s.at
  BY DEF AddedLine, ChangedLine, ParserState
<1>3. NewChunk(s, l).at # "before" BY DEF NewChunk
<1>4. /\ [s EXCEPT !.at = "ended"].at # "before"
      /\ [s EXCEPT !.at = "update"].at # "before"
  BY DEF ParserState
<1> QED BY <1>1, <1>2, <1>3, <1>4 DEF ReadLine

\* The next line of the body takes both to the same.
LEMMA LineAgrees ==
  ASSUME NEW r \in ParserState, NEW t \in ParserState, NEW body \in Seq(PatchLine),
         NEW j \in 0..(Len(body) - 1), Agrees(r, t, body, j), t.at # "before"
  PROVE  Agrees(ReadLine(r, body[j + 1]), ReadLine(t, body[j + 1]), body, j + 1)
<1> DEFINE l == body[j + 1]
<1>1. CASE t.at \in {"ended", "error"}
  BY <1>1 DEF ReadLine, Agrees
<1>2. CASE t.at \notin {"ended", "error"}
  <2>1. /\ r.hunks = t.hunks /\ r.at \notin Stopped /\ t.at \notin Stopped
        /\ \/ r.at = t.at
           \/ t.at = "headed" /\ r.at = "update" /\ l.kind # "move"
           \/ r.at = "top" /\ l.kind \in Headers
    BY <1>2 DEF Agrees
  <2>2. l \in PatchLine BY ElementOfSeq
  <2> HIDE DEF l
  <2>3. ReadLine(r, l) = ReadLine(t, l)
    <3>1. \A s \in ParserState : s = [at |-> s.at, hunks |-> s.hunks] BY DEF ParserState
    <3>2. CASE r.at = t.at BY <2>1, <3>1, <3>2
    <3>3. CASE t.at = "headed" /\ r.at = "update" /\ l.kind # "move"
      <4>1. \A place : [r EXCEPT !.at = place] = [t EXCEPT !.at = place]
        BY <2>1 DEF ParserState
      <4>2. [t EXCEPT !.at = "update"] = r BY <2>1, <3>3 DEF ParserState
      <4>3. l.kind \in Stars => Header(r, l) = Header(t, l)
        BY <2>1, <3>3, <4>1 DEF Header
      <4>4. NewChunk(r, l) = NewChunk(t, l) BY <2>1 DEF NewChunk
      <4> QED BY <3>3, <4>1, <4>2, <4>3, <4>4 DEF ReadLine
    <3>4. CASE r.at = "top" /\ l.kind \in Headers
      <4>1. l.kind \in Stars /\ ~IsEnd(l) BY <3>4 DEF Headers, Stars, IsEnd, IsMarker
      <4>2. Header(r, l) = Header(t, l) BY <2>1, <3>4 DEF Header, Headers
      <4> QED BY <2>1, <4>1, <4>2 DEF ReadLine, Stopped
    <3> QED BY <2>1, <3>2, <3>3, <3>4
  <2>4. ReadLine(r, l).at # "before" BY <2>1, <2>2, NeverBefore DEF Stopped
  <2> QED BY <2>3, <2>4 DEF Agrees, Stopped, l
<1> QED BY <1>1, <1>2

\* A line that means nothing changes nothing.
LEMMA NoiseAgrees ==
  ASSUME NEW r \in ParserState, NEW t \in ParserState, NEW body \in Seq(PatchLine),
         NEW j \in 0..Len(body), Agrees(r, t, body, j),
         NEW l \in PatchLine, ~Counts(l), ~IsEnd(l),
         j < Len(body) => MayPrecede(l, body[j + 1])
  PROVE  Agrees(ReadLine(r, l), t, body, j)
<1> SUFFICES ASSUME t.at \notin {"ended", "error"}
             PROVE  Agrees(ReadLine(r, l), t, body, j)
  BY DEF Agrees
<1>1. r.hunks = t.hunks /\ r.at \notin Stopped /\ t.at \notin Stopped BY DEF Agrees
<1>2. CASE l.kind = "***"
  <2>1. ReadLine(r, l) = [r EXCEPT !.at = "top"]
    BY <1>1, <1>2 DEF ReadLine, Header, Stars, Stopped
  <2>2. [r EXCEPT !.at = "top"].at = "top" /\ [r EXCEPT !.at = "top"].hunks = r.hunks
    BY DEF ParserState
  <2>3. j < Len(body) => body[j + 1].kind \in Headers BY <1>2 DEF MayPrecede
  <2> QED BY <1>1, <2>1, <2>2, <2>3 DEF Agrees, Stopped
<1>3. CASE l.kind = "other"
  <2>1. ReadLine(r, l) = IF r.at = "headed" THEN [r EXCEPT !.at = "update"] ELSE r
    BY <1>1, <1>3 DEF ReadLine, Stars, Changes, Stopped
  <2>2. [r EXCEPT !.at = "update"].at = "update" /\ [r EXCEPT !.at = "update"].hunks = r.hunks
    BY DEF ParserState
  <2>3. j < Len(body) => body[j + 1].kind # "move" BY DEF MayPrecede
  <2>4. CASE r.at = "headed"
    <3>1. j < Len(body) => t.at = "headed" BY <1>1, <2>4 DEF Agrees
    <3> QED BY <1>1, <2>1, <2>2, <2>3, <2>4, <3>1 DEF Agrees, Stopped
  <2>5. CASE r.at # "headed" BY <2>1, <2>5
  <2> QED BY <2>4, <2>5
<1> QED BY <1>2, <1>3 DEF Counts

\* The lines that count are counted one by one.
LEMMA CountedSteps ==
  ASSUME NEW text, NEW b \in Nat
  PROVE  /\ Counted(text, b, b) = 0
         /\ \A i \in Nat : Counted(text, b, i) \in Nat
         /\ \A i \in Nat, j \in Nat : i <= j => Counted(text, b, i) <= Counted(text, b, j)
         /\ \A i \in Nat : i >= b =>
              Counted(text, b, i + 1) = Counted(text, b, i) + (IF Counts(text[i + 1]) THEN 1 ELSE 0)
<1> DEFINE Up(i) == {m \in (b + 1)..i : Counts(text[m])}
<1>1. ASSUME NEW i \in Nat PROVE IsFiniteSet(Up(i)) /\ Cardinality(Up(i)) \in Nat
  <2>1. b + 1 \in Int /\ i \in Int OBVIOUS
  <2>2. IsFiniteSet((b + 1)..i) BY <2>1, FS_Interval
  <2>3. Up(i) \in SUBSET ((b + 1)..i) OBVIOUS
  <2>4. IsFiniteSet(Up(i)) BY <2>2, <2>3, FS_Subset
  <2> QED BY <2>4, FS_CardinalityType
<1>2. Cardinality(Up(b)) = 0
  <2>1. Up(b) = {} OBVIOUS
  <2> QED BY <2>1, FS_EmptySet
<1>3. ASSUME NEW i \in Nat, NEW j \in Nat, i <= j
      PROVE  Cardinality(Up(i)) <= Cardinality(Up(j))
  <2>1. Up(i) \in SUBSET Up(j) BY <1>3
  <2> HIDE DEF Up
  <2> QED BY <1>1, <2>1, FS_Subset
<1>4. ASSUME NEW i \in Nat, i >= b
      PROVE  Cardinality(Up(i + 1)) =
               Cardinality(Up(i)) + (IF Counts(text[i + 1]) THEN 1 ELSE 0)
  <2>1. CASE Counts(text[i + 1])
    <3>1. Up(i + 1) = Up(i) \cup {i + 1} BY <1>4, <2>1
    <3>2. i + 1 \notin Up(i) OBVIOUS
    <3> HIDE DEF Up
    <3>3. Cardinality(Up(i) \cup {i + 1}) = Cardinality(Up(i)) + 1
      BY <1>1, <3>2, FS_AddElement
    <3> QED BY <2>1, <3>1, <3>3
  <2>2. CASE ~Counts(text[i + 1])
    <3>1. Up(i + 1) = Up(i) BY <1>4, <2>2
    <3> HIDE DEF Up
    <3> QED BY <1>1, <2>2, <3>1
  <2> QED BY <2>1, <2>2
<1>5. \A i : Counted(text, b, i) = Cardinality(Up(i)) BY DEF Counted
<1> HIDE DEF Up
<1> QED BY <1>1, <1>2, <1>3, <1>4, <1>5

\* The states of a reading are states of the parser.
LEMMA ReadsTyped ==
  ASSUME NEW text \in Seq(PatchLine), NEW f, f[0] \in ParserState,
         \A i \in 1..Len(text) : f[i] = ReadLine(f[i - 1], text[i])
  PROVE  /\ \A i \in 0..Len(text) : f[i] \in ParserState
         /\ f[0].at # "before" => \A i \in 0..Len(text) : f[i].at # "before"
<1> DEFINE Fine(s) == s \in ParserState /\ (f[0].at # "before" => s.at # "before")
           S == {i \in Nat : i <= Len(text) => Fine(f[i])}
<1>1. Len(text) \in Nat /\ \A i \in 1..Len(text) : text[i] \in PatchLine OBVIOUS
<1>2. 0 \in S OBVIOUS
<1>3. ASSUME NEW i \in Nat, i \in S PROVE i + 1 \in S
  <2> SUFFICES ASSUME i + 1 <= Len(text) PROVE Fine(f[i + 1])
    OBVIOUS
  <2>1. Fine(f[i]) /\ i + 1 \in 1..Len(text) /\ (i + 1) - 1 = i BY <1>1, <1>3
  <2>2. f[i + 1] = ReadLine(f[i], text[i + 1]) BY <2>1
  <2> QED BY <1>1, <2>1, <2>2, ReadLineType, NeverBefore
<1>4. Nat \subseteq S
  <2> HIDE DEF S
  <2> QED BY <1>2, <1>3, NatInductionOnSets
<1>5. ASSUME NEW i \in 0..Len(text) PROVE Fine(f[i]) BY <1>1, <1>4
<1> QED BY <1>5

\* What is written is read as it was meant.
LEMMA WrittenIsRead ==
  ASSUME NEW text \in Seq(PatchLine), NEW meant \in Seq(Hunk),
         Writable(meant), Writes(text, meant)
  PROVE  ReadText(text).at = "ended" /\ ReadText(text).hunks = meant
<1> DEFINE body == Body(meant)
           top == [at |-> "top", hunks |-> <<>>]
           n0 == Len(text)
<1>1. PICK f : /\ f[0] = Start /\ f[n0] = ReadText(text)
               /\ \A i \in 1..n0 : f[i] = ReadLine(f[i - 1], text[i])
               /\ \A i \in 0..n0 : f[i] \in ParserState
  BY ReadTextSteps
<1>2. body \in Seq(PatchLine) BY ReadsBody
<1>3. PICK r : /\ Reads(top, body, r)
               /\ r.at \notin {"before", "ended", "error"} /\ r.hunks = meant
  BY ReadsBody
<1> HIDE DEF body
<1> DEFINE total == Len(body)
<1>4. PICK g : /\ g[0] = top /\ g[total] = r
               /\ \A i \in 1..total : g[i] = ReadLine(g[i - 1], body[i])
  BY <1>3 DEF Reads
<1>5. n0 \in Nat /\ total \in Nat /\ \A i \in 1..n0 : text[i] \in PatchLine
  BY <1>2
<1>6. (\A i \in 0..total : g[i] \in ParserState) /\ (\A i \in 0..total : g[i].at # "before")
  <2>1. top \in ParserState /\ top.at # "before" BY DEF ParserState
  <2> HIDE DEF top
  <2> QED BY <1>2, <1>4, <2>1, ReadsTyped
<1>7. PICK b \in 1..n0 :
        /\ IsBegin(text[b])
        /\ \A i \in 1..(b - 1) : ~IsBegin(text[i])
        /\ \E e \in (b + 1)..n0 :
             /\ text[e].kind = "***" /\ IsEnd(text[e])
             /\ Counted(text, b, e - 1) = total
             /\ \A i \in (b + 1)..(e - 1) :
                  LET j == Counted(text, b, i) IN
                  IF Counts(text[i]) THEN text[i] = body[j]
                  ELSE ~IsEnd(text[i]) /\ (j < total => MayPrecede(text[i], body[j + 1]))
  BY <1>5 DEF Writes, body
<1>8. PICK e \in (b + 1)..n0 :
        /\ text[e].kind = "***" /\ IsEnd(text[e])
        /\ Counted(text, b, e - 1) = total
        /\ \A i \in (b + 1)..(e - 1) :
             LET j == Counted(text, b, i) IN
             IF Counts(text[i]) THEN text[i] = body[j]
             ELSE ~IsEnd(text[i]) /\ (j < total => MayPrecede(text[i], body[j + 1]))
  BY <1>7
<1> DEFINE j(i) == Counted(text, b, i)
<1>9. b \in Nat /\ b >= 1 /\ b <= n0 /\ e \in Nat /\ e >= b + 1 /\ e <= n0 BY <1>5
<1>10. /\ j(b) = 0 /\ j(e - 1) = total
       /\ \A i \in Nat : j(i) \in Nat
       /\ \A i \in Nat, m \in Nat : i <= m => j(i) <= j(m)
       /\ \A i \in Nat : i >= b => j(i + 1) = j(i) + (IF Counts(text[i + 1]) THEN 1 ELSE 0)
  BY <1>8, <1>9, CountedSteps
<1>11. ASSUME NEW i \in (b + 1)..(e - 1)
       PROVE  IF Counts(text[i]) THEN text[i] = body[j(i)]
              ELSE ~IsEnd(text[i]) /\ (j(i) < total => MayPrecede(text[i], body[j(i) + 1]))
  BY <1>8
<1> HIDE DEF j, n0, total, top
<1>12. ASSUME NEW i \in Nat, i < n0
       PROVE  text[i + 1] \in PatchLine /\ f[i + 1] = ReadLine(f[i], text[i + 1])
              /\ f[i] \in ParserState /\ f[i + 1] \in ParserState
  <2>1. i + 1 \in 1..n0 /\ (i + 1) - 1 = i /\ i \in 0..n0 /\ i + 1 \in 0..n0 BY <1>5, <1>12
  <2> QED BY <1>1, <1>5, <2>1
<1>13. f[b] = top
  <2> DEFINE S == {i \in Nat : i < b => f[i] = Start}
  <2>1. 0 \in S BY <1>1
  <2>2. ASSUME NEW i \in Nat, i \in S PROVE i + 1 \in S
    <3> SUFFICES ASSUME i + 1 < b PROVE f[i + 1] = Start
      OBVIOUS
    <3>1. f[i] = Start /\ i + 1 \in 1..(b - 1) /\ i < n0 BY <1>5, <1>9, <2>2
    <3>2. f[i + 1] = ReadLine(Start, text[i + 1]) BY <1>12, <3>1
    <3>3. ~IsBegin(text[i + 1]) BY <1>7, <3>1
    <3> QED BY <3>2, <3>3 DEF ReadLine, Start
  <2>3. Nat \subseteq S
    <3> HIDE DEF S
    <3> QED BY <2>1, <2>2, NatInductionOnSets
  <2>4. b - 1 \in Nat /\ b - 1 < b /\ b - 1 < n0 /\ (b - 1) + 1 = b BY <1>5, <1>9
  <2>5. f[b - 1] = Start BY <2>3, <2>4
  <2>6. f[b] = ReadLine(Start, text[b]) BY <1>12, <2>4, <2>5
  <2>7. [Start EXCEPT !.at = "top"] = top BY DEF Start, top
  <2> QED BY <1>7, <2>6, <2>7 DEF ReadLine, Start
<1>14. Agrees(f[e - 1], r, body, total)
  <2> DEFINE S == {i \in Nat : i >= b /\ i < e => Agrees(f[i], g[j(i)], body, j(i))}
  <2>1. 0 \in S BY <1>9
  <2>2. ASSUME NEW i \in Nat, i \in S PROVE i + 1 \in S
    <3> SUFFICES ASSUME i + 1 >= b, i + 1 < e
                 PROVE  Agrees(f[i + 1], g[j(i + 1)], body, j(i + 1))
      OBVIOUS
    <3>1. CASE i + 1 = b
      <4>1. f[i + 1] = top /\ g[j(i + 1)] = top /\ j(i + 1) = 0 BY <1>4, <1>10, <1>13, <3>1
      <4>2. top.at = "top" /\ top.hunks = <<>> BY DEF top
      <4> QED BY <4>1, <4>2 DEF Agrees, Stopped
    <3>2. CASE i + 1 # b
      <4> DEFINE m == j(i)
                 l == text[i + 1]
      <4>1. i >= b /\ i < e /\ i < n0 /\ i + 1 \in (b + 1)..(e - 1) /\ i + 1 \in Nat
            /\ e - 1 \in Nat /\ i + 1 <= e - 1
        BY <1>5, <1>9, <3>2
      <4>2. Agrees(f[i], g[m], body, m) BY <2>2, <4>1
      <4>3. /\ m \in Nat /\ j(i + 1) \in Nat /\ j(i + 1) <= total
            /\ j(i + 1) = m + (IF Counts(l) THEN 1 ELSE 0)
        BY <1>10, <4>1
      <4>4. m \in 0..total BY <1>5, <4>3
      <4>5. /\ f[i] \in ParserState /\ g[m] \in ParserState /\ g[m].at # "before"
            /\ l \in PatchLine /\ f[i + 1] = ReadLine(f[i], l)
        BY <1>6, <1>12, <4>1, <4>4
      <4>6. CASE Counts(l)
        <5>1. j(i + 1) = m + 1 /\ m \in 0..(total - 1) /\ m + 1 \in 1..total /\ (m + 1) - 1 = m
          BY <1>5, <4>3, <4>6
        <5>2. l = body[m + 1] BY <1>11, <4>1, <4>6, <5>1
        <5>3. g[m + 1] = ReadLine(g[m], body[m + 1]) BY <1>4, <5>1
        <5> HIDE DEF m, l
        <5>4. Agrees(ReadLine(f[i], body[m + 1]), ReadLine(g[m], body[m + 1]), body, m + 1)
          BY <1>2, <4>2, <4>5, <5>1, LineAgrees DEF total
        <5> QED BY <4>5, <5>1, <5>2, <5>3, <5>4
      <4>7. CASE ~Counts(l)
        <5>1. j(i + 1) = m BY <4>3, <4>7
        <5>2. ~IsEnd(l) /\ (m < total => MayPrecede(l, body[m + 1])) BY <1>11, <4>1, <4>7, <5>1
        <5> HIDE DEF m, l
        <5>3. Agrees(ReadLine(f[i], l), g[m], body, m)
          BY <1>2, <4>2, <4>4, <4>5, <4>7, <5>2, NoiseAgrees DEF total
        <5> QED BY <4>5, <5>1, <5>3
      <4> QED BY <4>6, <4>7
    <3> QED BY <3>1, <3>2
  <2>3. Nat \subseteq S
    <3> HIDE DEF S
    <3> QED BY <2>1, <2>2, NatInductionOnSets
  <2>4. e - 1 \in Nat /\ e - 1 >= b /\ e - 1 < e BY <1>9
  <2> QED BY <1>4, <1>10, <2>3, <2>4
<1>15. f[e] = [f[e - 1] EXCEPT !.at = "ended"] /\ f[e - 1].hunks = meant
  <2>1. f[e - 1].hunks = meant /\ f[e - 1].at \notin Stopped
    BY <1>3, <1>14 DEF Agrees
  <2>2. e - 1 \in Nat /\ e - 1 < n0 /\ (e - 1) + 1 = e BY <1>5, <1>9
  <2>3. f[e] = ReadLine(f[e - 1], text[e]) BY <1>12, <2>2
  <2> QED BY <1>8, <2>1, <2>3 DEF ReadLine, Stopped
<1>16. f[e].at = "ended" /\ f[e].hunks = meant
  <2>1. f[e - 1] \in ParserState BY <1>1, <1>5, <1>9
  <2> QED BY <1>15, <2>1 DEF ParserState
<1>17. f[n0] = f[e]
  <2> DEFINE S == {i \in Nat : e <= i /\ i <= n0 => f[i] = f[e]}
  <2>1. 0 \in S BY <1>9
  <2>2. ASSUME NEW i \in Nat, i \in S PROVE i + 1 \in S
    <3> SUFFICES ASSUME e <= i + 1, i + 1 <= n0 PROVE f[i + 1] = f[e]
      OBVIOUS
    <3>1. CASE i + 1 = e BY <3>1
    <3>2. CASE i + 1 # e
      <4>1. e <= i /\ i <= n0 /\ i < n0 BY <1>5, <1>9, <3>2
      <4>2. f[i] = f[e] BY <2>2, <4>1
      <4>3. f[i + 1] = ReadLine(f[i], text[i + 1]) BY <1>12, <4>1
      <4> QED BY <1>16, <4>2, <4>3 DEF ReadLine
    <3> QED BY <3>1, <3>2
  <2>3. Nat \subseteq S
    <3> HIDE DEF S
    <3> QED BY <2>1, <2>2, NatInductionOnSets
  <2> QED BY <1>5, <1>9, <2>3
<1> QED BY <1>1, <1>16, <1>17 DEF n0

-----------------------------------------------------------------------------
(* Texts that are no patch.                                                *)

NamesFile(text, b, m) ==
  \/ text[m].kind \in Headers
  \/ text[m].kind = "move" /\ m > b + 1 /\ text[m - 1].kind = "update"

\* What the parser has seen in i lines when it is in the state s: it reads only
\* after a first marker, has hunks only if there was a header, and every header
\* so far had a path.
Seen(text, i, s) ==
  /\ s.at = "before" => s.hunks = <<>>
  /\ s.at \notin Stopped =>
       \E b \in 1..i :
         /\ IsBegin(text[b])
         /\ \A m \in (b + 1)..i : NamesFile(text, b, m) => text[m].path # NoPath
         /\ s.hunks # <<>> => \E m \in (b + 1)..i : text[m].kind \in Headers
         /\ i > b /\ text[i].kind = "update" => s.at = "headed"
  /\ s.at = "ended" /\ s.hunks # <<>> => HasPatch(text)

\* A line that is neither a marker nor of three stars begins no hunk.
LEMMA PlainLine ==
  ASSUME NEW s \in ParserState, NEW l \in PatchLine, s.at \notin Stopped,
         ~IsEnd(l), l.kind \notin Stars
  PROVE  ReadLine(s, l).at \notin Stopped /\ (s.hunks = <<>> => ReadLine(s, l).hunks = <<>>)
<1>1. s.at = "add" => s.hunks # <<>> /\ AddedLine(s, l).at = "add"
  BY DEF ParserState, AddedLine
<1>2. s.at \in {"headed", "update", "chunk"} => s.hunks # <<>> /\ NewChunk(s, l).at = "chunk"
  BY DEF ParserState, NewChunk
<1>3. s.at = "chunk" => s.hunks # <<>> /\ ChangedLine(s, l).at = "chunk"
  BY DEF ParserState, ChangedLine
<1>4. [s EXCEPT !.at = "update"].at = "update" /\ [s EXCEPT !.at = "update"].hunks = s.hunks
  BY DEF ParserState
<1> QED BY <1>1, <1>2, <1>3, <1>4 DEF ReadLine, Stopped

\* A line more.
LEMMA SeenNext ==
  ASSUME NEW text \in Seq(PatchLine), NEW i \in 0..(Len(text) - 1),
         NEW s \in ParserState, Seen(text, i, s)
  PROVE  Seen(text, i + 1, ReadLine(s, text[i + 1]))
<1> DEFINE l == text[i + 1]
           r == ReadLine(s, l)
<1> SUFFICES Seen(text, i + 1, r)
  OBVIOUS
<1>1. l \in PatchLine /\ i \in Nat /\ Len(text) \in Nat /\ i + 1 \in 1..Len(text)
      /\ DOMAIN text = 1..Len(text)
  BY ElementOfSeq
<1>2. CASE s.at \in {"ended", "error"} BY <1>2 DEF ReadLine, Seen, Stopped
<1>3. CASE s.at = "before"
  <2>1. CASE IsBegin(l)
    <3>1. r = [s EXCEPT !.at = "top"] BY <1>3, <2>1 DEF ReadLine
    <3>2. r.at = "top" /\ r.hunks = <<>> BY <1>3, <3>1 DEF Seen, ParserState
    <3>3. i + 1 \in 1..(i + 1) /\ ~ i + 1 > i + 1 /\ (i + 1 + 1)..(i + 1) = {} BY <1>1
    <3> HIDE DEF r
    <3> QED BY <2>1, <3>2, <3>3 DEF Seen, Stopped
  <2>2. CASE ~IsBegin(l)
    <3>1. r = s BY <1>3, <2>2 DEF ReadLine
    <3> HIDE DEF r
    <3> QED BY <1>3, <3>1 DEF Seen, Stopped, r
  <2> QED BY <2>1, <2>2
<1>4. CASE s.at \notin Stopped
  <2>1. PICK b \in 1..i :
          /\ IsBegin(text[b])
          /\ \A m \in (b + 1)..i : NamesFile(text, b, m) => text[m].path # NoPath
          /\ s.hunks # <<>> => \E m \in (b + 1)..i : text[m].kind \in Headers
          /\ i > b /\ text[i].kind = "update" => s.at = "headed"
    BY <1>4 DEF Seen
  <2>2. b \in Nat /\ b <= i /\ b \in 1..(i + 1) /\ i + 1 \in (b + 1)..(i + 1) BY <1>1
  <2>3. \A m \in (b + 1)..(i + 1) : m = i + 1 \/ m \in (b + 1)..i BY <1>1, <2>2
  <2>4. (b + 1)..i \subseteq (b + 1)..(i + 1) BY <1>1, <2>2
  \* It reads on: then it is enough that a header in this line has a path.
  <2>5. ASSUME r.at \notin Stopped,
               NamesFile(text, b, i + 1) => l.path # NoPath,
               r.hunks # <<>> => s.hunks # <<>> \/ l.kind \in Headers,
               l.kind = "update" => r.at = "headed"
        PROVE  Seen(text, i + 1, r)
    <3>1. \A m \in (b + 1)..(i + 1) : NamesFile(text, b, m) => text[m].path # NoPath
      BY <2>1, <2>3, <2>5
    <3>2. r.hunks # <<>> => \E m \in (b + 1)..(i + 1) : text[m].kind \in Headers
      BY <2>1, <2>2, <2>4, <2>5
    <3> HIDE DEF r
    <3> QED BY <2>1, <2>2, <2>5, <3>1, <3>2 DEF Seen, Stopped
  <2>6. CASE IsEnd(l)
    <3>1. r = [s EXCEPT !.at = "ended"] BY <1>4, <2>6 DEF ReadLine, Stopped
    <3>2. r.at = "ended" /\ r.hunks = s.hunks BY <3>1 DEF ParserState
    <3>3. s.hunks # <<>> => HasPatch(text)
      <4> HAVE s.hunks # <<>>
      <4>1. b \in DOMAIN text /\ i + 1 \in DOMAIN text /\ (i + 1) - 1 = i BY <1>1, <2>2
      <4>2. \E m \in (b + 1)..((i + 1) - 1) : text[m].kind \in Headers BY <2>1, <4>1
      <4>3. \A m \in (b + 1)..((i + 1) - 1) : NamesFile(text, b, m) => text[m].path # NoPath
        BY <2>1, <4>1
      <4> QED BY <2>1, <2>6, <4>1, <4>2, <4>3 DEF HasPatch, NamesFile
    <3> HIDE DEF r
    <3> QED BY <3>2, <3>3 DEF Seen, Stopped
  <2>7. CASE ~IsEnd(l) /\ l.kind \in Headers
    <3>1. r = Header(s, l) /\ l.kind \in Stars BY <1>4, <2>7 DEF ReadLine, Stopped, Headers, Stars
    <3>2. r.at = IF l.path = NoPath THEN "error"
                 ELSE IF l.kind = "update" THEN "headed" ELSE l.kind
      BY <2>7, <3>1 DEF Header, Headers
    <3> HIDE DEF r
    <3>3. CASE l.path = NoPath BY <3>2, <3>3 DEF Seen, Stopped
    <3>4. CASE l.path # NoPath BY <2>5, <2>7, <3>2, <3>4 DEF Stopped, Headers
    <3> QED BY <3>3, <3>4
  <2>8. CASE ~IsEnd(l) /\ l.kind = "move" /\ s.at = "headed"
    <3>1. r = Header(s, l) BY <1>4, <2>8 DEF ReadLine, Stopped, Stars
    <3>2. r.at = IF l.path = NoPath THEN "error" ELSE "update" BY <2>8, <3>1 DEF Header
    <3>3. s.hunks # <<>> BY <2>8 DEF ParserState
    <3> HIDE DEF r
    <3>4. CASE l.path = NoPath BY <3>2, <3>4 DEF Seen, Stopped
    <3>5. CASE l.path # NoPath BY <2>5, <2>8, <3>2, <3>3, <3>5 DEF Stopped
    <3> QED BY <3>4, <3>5
  <2>9. CASE ~IsEnd(l) /\ l.kind \in Stars \ Headers /\ ~ (l.kind = "move" /\ s.at = "headed")
    <3>1. r = Header(s, l) BY <1>4, <2>9 DEF ReadLine, Stopped
    <3>2. r = [s EXCEPT !.at = "top"] BY <2>9, <3>1 DEF Header, Headers
    <3>3. r.at = "top" /\ r.hunks = s.hunks BY <3>2 DEF ParserState
    <3>4. ~NamesFile(text, b, i + 1)
      <4> SUFFICES ASSUME NamesFile(text, b, i + 1) PROVE FALSE
        OBVIOUS
      <4>1. l.kind = "move" /\ i + 1 > b + 1 /\ text[(i + 1) - 1].kind = "update"
        BY <2>9 DEF NamesFile
      <4>2. i > b /\ (i + 1) - 1 = i BY <1>1, <2>2, <4>1
      <4> QED BY <2>1, <2>9, <4>1, <4>2
    <3> HIDE DEF r
    <3> QED BY <2>5, <2>9, <3>3, <3>4 DEF Stopped, Headers
  <2>10. CASE ~IsEnd(l) /\ l.kind \notin Stars
    <3>1. r.at \notin Stopped /\ (s.hunks = <<>> => r.hunks = <<>>)
      BY <1>1, <1>4, <2>10, PlainLine
    <3>2. ~NamesFile(text, b, i + 1) /\ l.kind # "update"
      BY <2>10 DEF NamesFile, Headers, Stars
    <3> HIDE DEF r
    <3> QED BY <2>5, <3>1, <3>2
  <2>11. Headers \subseteq Stars BY DEF Headers, Stars
  <2> QED BY <2>6, <2>7, <2>8, <2>9, <2>10, <2>11
<1> QED BY <1>2, <1>3, <1>4 DEF Stopped

\* What is read as a patch is one.
LEMMA ReadIsPatch ==
  ASSUME NEW text \in Seq(PatchLine),
         ReadText(text).at = "ended", ReadText(text).hunks # <<>>
  PROVE  HasPatch(text)
<1>1. PICK f : /\ f[0] = Start /\ f[Len(text)] = ReadText(text)
               /\ \A i \in 1..Len(text) : f[i] = ReadLine(f[i - 1], text[i])
               /\ \A i \in 0..Len(text) : f[i] \in ParserState
  BY ReadTextSteps
<1> DEFINE S == {i \in Nat : i <= Len(text) => Seen(text, i, f[i])}
<1>2. Len(text) \in Nat OBVIOUS
<1>3. 0 \in S
  <2>1. Start.at = "before" /\ Start.hunks = <<>> BY DEF Start
  <2> QED BY <1>1, <2>1 DEF Seen, Stopped
<1>4. ASSUME NEW i \in Nat, i \in S PROVE i + 1 \in S
  <2> SUFFICES ASSUME i + 1 <= Len(text) PROVE Seen(text, i + 1, f[i + 1])
    OBVIOUS
  <2>1. /\ i + 1 \in 1..Len(text) /\ (i + 1) - 1 = i
        /\ i \in 0..Len(text) /\ i \in 0..(Len(text) - 1)
    BY <1>2
  <2>2. Seen(text, i, f[i]) /\ f[i] \in ParserState BY <1>1, <1>4, <2>1
  <2>3. f[i + 1] = ReadLine(f[i], text[i + 1]) BY <1>1, <2>1
  <2> QED BY <2>1, <2>2, <2>3, SeenNext
<1>5. Nat \subseteq S
  <2> HIDE DEF S
  <2> QED BY <1>3, <1>4, NatInductionOnSets
<1>6. Seen(text, Len(text), ReadText(text)) BY <1>1, <1>2, <1>5
<1> QED BY <1>6 DEF Seen

\* The arguments of a request stay as they are.
AsAsked == request.text \in Seq(PatchLine) /\ request.meant \in Seq(Hunk)

\* A patch is read as it was meant, whatever meaningless lines stand in it, and
\* what is no patch is refused (patch.go:35-177).
THEOREM ReadAsMeant == PatchSpec => []ParsesWhatWasMeant
<1>1. PatchInit => AsAsked BY DEF PatchInit, Asked, Request, AsAsked
<1>2. AsAsked /\ [PatchNext]_patchVars => AsAsked'
  <2> SUFFICES ASSUME [PatchNext]_patchVars PROVE request' = request
    BY DEF AsAsked
  <2> QED
    BY DEF PatchNext, patchVars, Parse, Forbidden, AddFile, DeleteFile, ReadUpdate, Derive,
           Derived, DeriveFails, Answer, FailPatch, FailsWith, Applied, WriteUpdate, RemoveSource
<1>3. AsAsked => ParsesWhatWasMeant
  <2> SUFFICES ASSUME AsAsked PROVE ParsesWhatWasMeant
    OBVIOUS
  <2> DEFINE text == request.text
             meant == request.meant
             read == ReadText(text)
  <2>1. text \in Seq(PatchLine) /\ meant \in Seq(Hunk) BY DEF AsAsked
  <2>2. ParsePatch(text) = IF read.at = "ended" /\ read.hunks # <<>> THEN {read.hunks} ELSE {}
    BY DEF ParsePatch
  <2> HIDE DEF text, meant, read
  <2>3. Writable(meant) /\ Writes(text, meant) => read.at = "ended" /\ read.hunks = meant
    BY <2>1, WrittenIsRead DEF read
  <2>4. read.at = "ended" /\ read.hunks # <<>> => HasPatch(text)
    BY <2>1, ReadIsPatch DEF read
  <2>5. Writable(meant) /\ Writes(text, meant) =>
          ParsePatch(text) = IF meant = <<>> THEN {} ELSE {meant}
    BY <2>2, <2>3
  <2>6. ~HasPatch(text) => ParsePatch(text) = {} BY <2>2, <2>4
  <2> QED BY <2>5, <2>6 DEF ParsesWhatWasMeant, text, meant
<1> QED BY <1>1, <1>2, <1>3, PTL DEF PatchSpec
=============================================================================

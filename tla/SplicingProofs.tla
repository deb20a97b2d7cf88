--------------------------- MODULE SplicingProofs ---------------------------
(***************************************************************************)
(* Induction and recursion over the natural numbers, and facts about       *)
(* sequences that are put together piece by piece, for every sequence.     *)
(***************************************************************************)
EXTENDS Splicing, FiniteSetTheorems, SequenceTheorems, TLAPS
LOCAL INSTANCE SequencesExt

\* Induction over the natural numbers, for a set in place of a predicate: were
\* x missing, n |-> n - 1 would take the missing numbers up to x into a
\* smaller set, one-to-one.
LEMMA NatInductionOnSets ==
  ASSUME NEW S, 0 \in S, \A n \in Nat : n \in S => n + 1 \in S
  PROVE  Nat \subseteq S
<1> SUFFICES ASSUME NEW x \in Nat, x \notin S PROVE FALSE
  OBVIOUS
<1> DEFINE A == {n \in 0..x : n \notin S}
           f == [n \in A |-> n - 1]
<1>1. IsFiniteSet(A)
  <2>1. IsFiniteSet(0..x) BY FS_Interval
  <2> QED BY <2>1, FS_Subset
<1>2. x \in A OBVIOUS
<1>3. \A n \in A : n - 1 \in A \ {x}
  <2> TAKE n \in A
  <2>1. n - 1 \in Nat OBVIOUS
  <2>2. n - 1 \notin S
    <3>1. n = (n - 1) + 1 OBVIOUS
    <3> QED BY <2>1, <3>1
  <2> QED BY <2>1, <2>2
<1>4. /\ f \in [A -> A \ {x}]
      /\ \A m, n \in A : m # n => f[m] # f[n]
  BY <1>3
<1> HIDE DEF A, f
<1>5. IsFiniteSet(A \ {x}) /\ Cardinality(A \ {x}) = Cardinality(A) - 1
  BY <1>1, <1>2, FS_RemoveElement
<1>6. Cardinality(A) \in Nat BY <1>1, FS_CardinalityType
<1>7. Cardinality(A \ {x}) < Cardinality(A) BY <1>5, <1>6
<1> QED BY <1>1, <1>4, <1>5, <1>7, FS_PigeonHole

\* A set of numbers that is not empty has a least one.
LEMMA LeastNumber ==
  ASSUME NEW T \in SUBSET Nat, T # {}
  PROVE  \E x \in T : \A y \in T : x <= y
<1> SUFFICES ASSUME \A x \in T : \E y \in T : ~ x <= y PROVE FALSE
  OBVIOUS
<1> DEFINE S == {n \in Nat : \A m \in 0..n : m \notin T}
<1>1. 0 \in S OBVIOUS
<1>2. ASSUME NEW n \in Nat, n \in S PROVE n + 1 \in S
  <2> SUFFICES ASSUME n + 1 \in T PROVE FALSE
    BY <1>2
  <2>1. PICK y \in T : ~ n + 1 <= y OBVIOUS
  <2>2. y \in 0..n BY <2>1
  <2> QED BY <1>2, <2>1, <2>2
<1>3. Nat \subseteq S
  <2> HIDE DEF S
  <2> QED BY <1>1, <1>2, NatInductionOnSets
<1>4. PICK x \in T : TRUE OBVIOUS
<1>5. x \in S /\ x \in 0..x BY <1>3
<1> QED BY <1>4, <1>5

\* f begins with base, and each of its values follows from the one before.
Follows(f, base, step, k) ==
  f[0] = base /\ \A i \in 1..k : f[i] = step[i][f[i - 1]]

\* There is such a function if the step stays in a set.
LEMMA RecursionExists ==
  ASSUME NEW S, NEW base \in S, NEW k \in Nat, NEW step \in [1..k -> [S -> S]]
  PROVE  \E f \in [0..k -> S] : Follows(f, base, step, k)
<1> DEFINE Goes(f, n) ==
             f[0] = base /\ \A i \in 1..n : f[i] = step[i][f[i - 1]]
           N == {n \in Nat : n <= k => \E f \in [0..n -> S] : Goes(f, n)}
<1>1. 0 \in N
  <2> DEFINE f == [i \in 0..0 |-> base]
  <2>1. f \in [0..0 -> S] /\ f[0] = base OBVIOUS
  <2>2. Goes(f, 0) BY <2>1
  <2> QED BY <2>1, <2>2
<1>2. ASSUME NEW n \in Nat, n \in N PROVE n + 1 \in N
  <2> SUFFICES ASSUME n + 1 <= k PROVE \E f \in [0..(n + 1) -> S] : Goes(f, n + 1)
    OBVIOUS
  <2>1. PICK f \in [0..n -> S] : Goes(f, n) BY <1>2
  <2> DEFINE g == [i \in 0..(n + 1) |-> IF i = n + 1 THEN step[n + 1][f[n]] ELSE f[i]]
  <2>2. step[n + 1][f[n]] \in S OBVIOUS
  <2>3. g \in [0..(n + 1) -> S] BY <2>2
  <2>4. ASSUME NEW i \in 1..(n + 1) PROVE g[i] = step[i][g[i - 1]]
    <3>1. CASE i = n + 1 BY <3>1
    <3>2. CASE i # n + 1
      <4>1. i \in 1..n /\ i - 1 \in 0..n BY <3>2
      <4> QED BY <2>1, <4>1
    <3> QED BY <3>1, <3>2
  <2>5. g[0] = base BY <2>1
  <2> HIDE DEF g
  <2> QED BY <2>3, <2>4, <2>5
<1>3. Nat \subseteq N
  <2> HIDE DEF N
  <2> QED BY <1>1, <1>2, NatInductionOnSets
<1>4. PICK f \in [0..k -> S] : Goes(f, k) BY <1>3
<1> QED BY <1>4 DEF Follows

\* One step of FlattenSeq, of the first i of some parts.
Flattens(f, parts, k) ==
  f = [i \in 1..k |-> IF i = 1 THEN parts[i] ELSE f[i - 1] \o parts[i]]

\* The recursive function of FlattenSeq exists.
LEMMA FlattenExists ==
  ASSUME NEW parts, NEW k \in Nat
  PROVE  \E f : Flattens(f, parts, k)
<1> DEFINE S == {n \in Nat : \E f : Flattens(f, parts, n)}
<1>1. 0 \in S
  <2> DEFINE f == [i \in 1..0 |-> parts[i]]
  <2>1. f = [i \in 1..0 |-> IF i = 1 THEN parts[i] ELSE f[i - 1] \o parts[i]] OBVIOUS
  <2> HIDE DEF f
  <2> QED BY <2>1 DEF Flattens
<1>2. ASSUME NEW n \in Nat, n \in S PROVE n + 1 \in S
  <2>1. PICK f : Flattens(f, parts, n) BY <1>2
  <2> DEFINE part == IF n = 0 THEN parts[1] ELSE f[n] \o parts[n + 1]
             g == [i \in 1..(n + 1) |-> IF i = n + 1 THEN part ELSE f[i]]
  <2>2. ASSUME NEW i \in 1..(n + 1)
        PROVE  g[i] = IF i = 1 THEN parts[i] ELSE g[i - 1] \o parts[i]
    <3>1. CASE i = n + 1
      BY <3>1
    <3>2. CASE i # n + 1
      <4>1. i \in 1..n BY <3>2
      <4>2. g[i] = f[i] BY <3>2
      <4>3. i # 1 => i - 1 \in 1..n /\ g[i - 1] = f[i - 1] BY <4>1
      <4> QED BY <2>1, <4>1, <4>2, <4>3 DEF Flattens
    <3> QED BY <3>1, <3>2
  <2>3. g = [i \in 1..(n + 1) |-> g[i]] OBVIOUS
  <2> HIDE DEF g
  <2>4. Flattens(g, parts, n + 1) BY <2>2, <2>3 DEF Flattens
  <2> QED BY <2>4
<1>3. Nat \subseteq S
  <2> HIDE DEF S
  <2> QED BY <1>1, <1>2, NatInductionOnSets
<1> QED BY <1>3

\* Sequences over a set flatten to a sequence over that set.
LEMMA FlattenType ==
  ASSUME NEW D, NEW parts \in Seq(Seq(D))
  PROVE  FlattenSeq(parts) \in Seq(D)
<1>1. CASE Len(parts) = 0
  <2>1. parts = <<>> BY <1>1
  <2> QED BY <1>1, <2>1 DEF FlattenSeq
<1>2. CASE Len(parts) # 0
  <2> DEFINE f == CHOOSE flatten : Flattens(flatten, parts, Len(parts))
             S == {n \in Nat : n \in 1..Len(parts) => f[n] \in Seq(D)}
  <2>1. Flattens(f, parts, Len(parts))
    <3>1. Len(parts) \in Nat OBVIOUS
    <3>2. \E flatten : Flattens(flatten, parts, Len(parts)) BY <3>1, FlattenExists
    <3> QED BY <3>2
  <2>2. FlattenSeq(parts) = f[Len(parts)] BY <1>2 DEF FlattenSeq, Flattens
  <2> HIDE DEF f
  <2>3. 0 \in S OBVIOUS
  <2>4. ASSUME NEW n \in Nat, n \in S PROVE n + 1 \in S
    <3> SUFFICES ASSUME n + 1 \in 1..Len(parts) PROVE f[n + 1] \in Seq(D)
      OBVIOUS
    <3>1. f[n + 1] = IF n = 0 THEN parts[n + 1] ELSE f[n] \o parts[n + 1]
      <4>1. n + 1 = 1 <=> n = 0 OBVIOUS
      <4>2. (n + 1) - 1 = n OBVIOUS
      <4> QED BY <2>1, <4>1, <4>2 DEF Flattens
    <3>2. parts[n + 1] \in Seq(D) OBVIOUS
    <3>3. n # 0 => f[n] \in Seq(D) BY <2>4
    <3> QED BY <3>1, <3>2, <3>3
  <2>5. Nat \subseteq S
    <3> HIDE DEF S
    <3> QED BY <2>3, <2>4, NatInductionOnSets
  <2> QED BY <1>2, <2>2, <2>5
<1> QED BY <1>1, <1>2

\* What is substituted into a text gives a text.
LEMMA SubstituteType ==
  ASSUME NEW D, NEW s \in Seq(D), NEW t \in Seq(D), NEW new \in Seq(D), NEW places
  PROVE  Substitute(s, t, new, places) \in Seq(D)
<1> DEFINE parts == [i \in 1..Len(s) |->
             IF i \in places THEN new
             ELSE IF \E j \in places : i \in j..(j + Len(t) - 1) THEN <<>>
             ELSE <<s[i]>>]
<1>1. parts \in Seq(Seq(D)) OBVIOUS
<1> QED BY <1>1, FlattenType DEF Substitute
=============================================================================

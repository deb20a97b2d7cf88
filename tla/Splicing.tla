------------------------------ MODULE Splicing ------------------------------
(***************************************************************************)
(* Where one sequence occurs in another, and replacing parts of a          *)
(* sequence, as fs.edit does with the bytes of a file.                     *)
(***************************************************************************)
EXTENDS Integers, Sequences, FiniteSets
LOCAL INSTANCE FiniteSetsExt
LOCAL INSTANCE SequencesExt

OccursAt(t, s, i) ==
  /\ i + Len(t) - 1 <= Len(s)
  /\ \A n \in 1..Len(t) : s[i + n - 1] = t[n]

Occurrences(t, s) == {i \in 1..Len(s) : OccursAt(t, s, i)}

\* strings.Index, for a t that occurs.
FirstIndex(t, s) == Min(Occurrences(t, s))

\* What strings.Count counts and strings.ReplaceAll replaces: from the left,
\* the occurrences that do not overlap one already taken.
Disjoint(t, s) ==
  LET taken[i \in 1..Len(s)] ==
        /\ OccursAt(t, s, i)
        /\ \A j \in 1..(i - 1) : taken[j] => j + Len(t) <= i
  IN {i \in 1..Len(s) : taken[i]}

\* s with t replaced by new at each of the places.
Substitute(s, t, new, places) ==
  FlattenSeq([i \in 1..Len(s) |->
    IF i \in places THEN new
    ELSE IF \E j \in places : i \in j..(j + Len(t) - 1) THEN <<>>
    ELSE <<s[i]>>])
=============================================================================

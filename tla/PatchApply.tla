----------------------------- MODULE PatchApply -----------------------------
(***************************************************************************)
(* How the chunks of an update hunk change a file (internal/fs/patch.go):  *)
(* the place of every chunk is found first, each after the one before,     *)
(* and the replacements are then made from the last to the first.          *)
(* Positions count from 0, as in the code.                                 *)
(***************************************************************************)
EXTENDS PatchText, Integers
LOCAL INSTANCE FiniteSetsExt
LOCAL INSTANCE SequencesExt

VARIABLES
  lines,         \* originalLines; the last one is not ended
  chunks,
  k,             \* the chunk to place; later the replacement to make
  lineIndex,
  replacements,
  result,
  pc             \* "idle", "place", "replace", "done", or the way it failed

derivation == <<lines, chunks, k, lineIndex, replacements, result, pc>>

Replacement == [start : Nat, oldLen : Nat, new : Seq(Line)]

\* The type invariant: in particular the search of the next chunk never begins
\* past the end of the file (patch.go:220-267).
DerivationTypeOK ==
  /\ lines \in Seq(Line) /\ result \in Seq(Line)
  /\ chunks \in Seq(Chunk)
  /\ k \in 0..(Len(chunks) + 1)
  /\ lineIndex \in 0..Len(lines)
  /\ replacements \in Seq(Replacement)
  /\ pc \in {"idle", "place", "replace", "done", "not found", "out of range"}

EndsEmpty(s) == s # <<>> /\ Last(s) = Empty

SplitPatchLines(content) == IF EndsEmpty(content) THEN Front(content) ELSE content

DerivationInit ==
  /\ lines = <<>> /\ chunks = <<>> /\ replacements = <<>> /\ result = <<>>
  /\ k = 0 /\ lineIndex = 0
  /\ pc = "idle"

\* Its local variables are gone when it has returned.
Returned ==
  /\ lines' = <<>> /\ chunks' = <<>> /\ replacements' = <<>> /\ result' = <<>>
  /\ k' = 0 /\ lineIndex' = 0
  /\ pc' = "idle"

DerivePatchedContent(content, cs) ==
  /\ pc = "idle"
  /\ lines' = SplitPatchLines(content)
  /\ chunks' = cs
  /\ k' = 1
  /\ lineIndex' = 0
  /\ replacements' = <<>>
  /\ result' = lines'
  /\ pc' = "place"

-----------------------------------------------------------------------------
(* seekSequence: equal lines first, then lines equal but for white space    *)
(* at the end, then on both sides.                                          *)

Comparisons == <<"exact", "rstrip", "trimmed">>

Same(comparison, a, b) ==
  /\ a.text = b.text
  /\ comparison \in {"exact", "rstrip"} => a.lead = b.lead
  /\ comparison = "exact" => a.trail = b.trail

\* Mutant: the search starts at the beginning of the file.
MatchesAnywhere(pattern, from, comparison) ==
  {i \in 0..(Len(lines) - Len(pattern)) :
     \A n \in 1..Len(pattern) : Same(comparison, lines[i + n], pattern[n])}

Matches(pattern, from, comparison) ==
  {i \in from..(Len(lines) - Len(pattern)) :
     \A n \in 1..Len(pattern) : Same(comparison, lines[i + n], pattern[n])}

\* The place found, in a set that is empty if there is none.
SeekSequence(pattern, from) ==
  LET found == {n \in DOMAIN Comparisons : Matches(pattern, from, Comparisons[n]) # {}}
  IN IF pattern = <<>> \/ found = {} THEN {}
     ELSE {Min(Matches(pattern, from, Comparisons[Min(found)]))}

-----------------------------------------------------------------------------
(* computePatchReplacements, a chunk at a time. *)

Fail(reason) ==
  pc' = reason /\ UNCHANGED <<lines, chunks, k, lineIndex, replacements, result>>

\* Mutant: the search goes on one line too late.
ReplaceSkipping(start, oldLen, new, next) ==
  /\ replacements' =
       Append(replacements, [start |-> start, oldLen |-> oldLen, new |-> new])
  /\ lineIndex' = next + 1
  /\ k' = k + 1
  /\ UNCHANGED <<lines, chunks, result, pc>>

Replace(start, oldLen, new, next) ==
  /\ replacements' =
       Append(replacements, [start |-> start, oldLen |-> oldLen, new |-> new])
  /\ lineIndex' = next
  /\ k' = k + 1
  /\ UNCHANGED <<lines, chunks, result, pc>>

\* A chunk that only adds lines adds them at the end of the file.  A chunk
\* that is not found is tried without the empty line at its end.
PlaceFrom(chunk, from) ==
  LET found == SeekSequence(chunk.old, from)
      shorter == Front(chunk.old)
      again == SeekSequence(shorter, from)
      tryAgain == found = {} /\ EndsEmpty(chunk.old)
  IN \/ chunk.old = <<>> /\ Replace(Len(lines), 0, chunk.new, from)
     \/ /\ chunk.old # <<>>
        /\ \E i \in found : Replace(i, Len(chunk.old), chunk.new, i + Len(chunk.old))
     \/ /\ tryAgain
        /\ \E i \in again :
             Replace(i, Len(shorter),
                     IF EndsEmpty(chunk.new) THEN Front(chunk.new) ELSE chunk.new,
                     i + Len(shorter))
     \/ /\ chunk.old # <<>> /\ found = {} /\ (tryAgain => again = {})
        /\ Fail("not found")

PlaceChunk ==
  /\ pc = "place"
  /\ k <= Len(chunks)
  /\ LET chunk == chunks[k]
         at == SeekSequence(<<chunk.context>>, lineIndex)
     IN \/ chunk.context = Empty /\ PlaceFrom(chunk, lineIndex)
        \/ /\ chunk.context # Empty
           /\ \/ at = {} /\ Fail("not found")
              \/ \E i \in at : PlaceFrom(chunk, i + 1)

Placed ==
  /\ pc = "place"
  /\ k > Len(chunks)
  /\ pc' = "replace"
  /\ k' = Len(replacements)
  /\ UNCHANGED <<lines, chunks, lineIndex, replacements, result>>

-----------------------------------------------------------------------------
(* DerivePatchedContent makes the replacements, the last one first. *)

Spliced(s, r) == SubSeq(s, 1, r.start) \o r.new \o SubSeq(s, r.start + r.oldLen + 1, Len(s))

\* Mutant: the replacements are made from the first to the last.
MakeFirst ==
  /\ pc = "replace"
  /\ k > 0
  /\ LET r == replacements[Len(replacements) + 1 - k] IN
     \/ r.start + r.oldLen > Len(result) /\ Fail("out of range")
     \/ /\ r.start + r.oldLen <= Len(result)
        /\ result' = Spliced(result, r)
        /\ k' = k - 1
        /\ UNCHANGED <<lines, chunks, lineIndex, replacements, pc>>

Make ==
  /\ pc = "replace"
  /\ k > 0
  /\ LET r == replacements[k] IN
     \/ r.start + r.oldLen > Len(result) /\ Fail("out of range")
     \/ /\ r.start + r.oldLen <= Len(result)
        /\ result' = Spliced(result, r)
        /\ k' = k - 1
        /\ UNCHANGED <<lines, chunks, lineIndex, replacements, pc>>

\* The file ends in a newline: an empty last line, unless there is one.
Finish ==
  /\ pc = "replace"
  /\ k = 0
  /\ result' = IF EndsEmpty(result) THEN result ELSE Append(result, Empty)
  /\ pc' = "done"
  /\ UNCHANGED <<lines, chunks, k, lineIndex, replacements>>

DerivationStep == PlaceChunk \/ Placed \/ Make \/ Finish
=============================================================================

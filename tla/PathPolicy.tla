----------------------------- MODULE PathPolicy -----------------------------
(***************************************************************************)
(* Which paths a request may name (internal/policy/policy.go) and the      *)
(* directory they are relative to (session.open).                          *)
(*                                                                         *)
(* A cleaned path is the sequence of its components below "/".  A path as  *)
(* a client writes it may begin anywhere and contain "." and "..".  A      *)
(* symbolic link is a component like any other: nothing resolves it.       *)
(***************************************************************************)
EXTENDS Integers, Sequences
LOCAL INSTANCE SequencesExt

CONSTANTS
  AllowedRoots,    \* a sequence of cleaned paths
  TmpName          \* of a name that is written: with ".rexd.tmp" at its end

Path == Seq(STRING)
Name == DOMAIN TmpName    \* the components that clients and the configuration write
NoNameTmp == ".rexd.tmp"

ASSUME NameAssumption ==
  /\ Name \subseteq STRING /\ NoNameTmp \in STRING
  /\ TmpName \in [Name -> STRING]
  /\ \A name \in Name : TmpName[name] # name
ASSUME RootsAssumption == AllowedRoots \in Seq(Seq(Name))

WrittenPath == [abs : BOOLEAN, parts : Seq(Name)]
NoPath == [abs |-> FALSE, parts |-> <<>>]      \* the empty string

\* filepath.Clean of an absolute path, a component at a time.
Enter(done, part) ==
  IF part = "." \/ (part = ".." /\ done = <<>>) THEN done
  ELSE IF part = ".." THEN Front(done)
  ELSE Append(done, part)

Clean(parts) ==
  LET done[i \in 0..Len(parts)] == IF i = 0 THEN <<>> ELSE Enter(done[i - 1], parts[i])
  IN done[Len(parts)]

\* A root, or a path that has the text of a root and a separator before it: of
\* the root "/" that text is "//", so it allows nothing but itself.
IsAllowed(path) ==
  \E n \in DOMAIN AllowedRoots :
    LET root == AllowedRoots[n] IN path = root \/ (root # <<>> /\ IsStrictPrefix(root, path))

Candidate(cwd, p) == IF p.abs THEN p.parts ELSE cwd \o p.parts

\* Mutant: the path is checked as it is written.
ResolveUncleaned(cwd, p) ==
  IF IsAllowed(Candidate(cwd, p)) THEN {Clean(Candidate(cwd, p))} ELSE {}

\* The path meant, in a set that is empty if it is forbidden.
ResolvePath(cwd, p) == {cleaned \in {Clean(Candidate(cwd, p))} : IsAllowed(cleaned)}

\* The temporary file next to a file that is written (fs/service.go:91).
TmpOf(path) ==
  IF path = <<>> THEN <<NoNameTmp>> ELSE Append(Front(path), TmpName[Last(path)])

\* The working directory of a session: the first of the roots asked for that
\* are allowed; of all allowed roots when there is none.
SessionCwd(asked) ==
  LET filtered == {i \in DOMAIN asked : Contains(AllowedRoots, asked[i])}
  IN IF filtered # {} THEN asked[CHOOSE i \in filtered : \A j \in filtered : i <= j]
     ELSE IF AllowedRoots # <<>> THEN AllowedRoots[1] ELSE <<>>
=============================================================================

---------------------------- MODULE AtomicFiles -----------------------------
(***************************************************************************)
(* What the clients of rexd are promised of a file that one of them        *)
(* writes: "atomic replace" (spec:265, spec:646).  A write takes effect    *)
(* all at once, at some moment between the request and its answer, or not  *)
(* at all; an error may be the answer to either.  A read answers what the  *)
(* file contained at such a moment, or an error.  When the program dies,   *)
(* requests end without an answer, and what had taken effect remains.      *)
(***************************************************************************)
CONSTANTS
  Clients, Files, Contents,
  Owned    \* the files a client writes; nobody else writes them

VARIABLES
  content,   \* of a file, in a set; empty: there is no such file
  phase,     \* of the request of a client
  job,       \* the file that its request is about, and what is read or written
  answer     \* the file of the last answer, and its content

vars == <<content, phase, job, answer>>

Nothing == [file |-> "none", data |-> <<>>]

Init ==
  /\ content \in [Files -> {{}} \cup {{d} : d \in Contents}]
  /\ phase = [c \in Clients |-> "idle"]
  /\ job = [c \in Clients |-> Nothing]
  /\ answer = [c \in Clients |-> Nothing]

Begins(c, what, f, d) ==
  /\ phase[c] = "idle"
  /\ phase' = [phase EXCEPT ![c] = what]
  /\ job' = [job EXCEPT ![c] = [file |-> f, data |-> d]]
  /\ UNCHANGED <<content, answer>>

Ends(c) ==
  /\ phase' = [phase EXCEPT ![c] = "idle"]
  /\ job' = [job EXCEPT ![c] = Nothing]

Read(c) == \E f \in Files : \E d \in content[f] : Begins(c, "reading", f, d)

Write(c) == \E f \in Owned[c], d \in Contents : Begins(c, "writing", f, d)

TakesEffect(c) ==
  /\ phase[c] = "writing"
  /\ phase' = [phase EXCEPT ![c] = "written"]
  /\ content' = [content EXCEPT ![job[c].file] = {job[c].data}]
  /\ UNCHANGED <<job, answer>>

Answers(c) ==
  /\ phase[c] \in {"reading", "written"}
  /\ answer' = [answer EXCEPT ![c] = job[c]]
  /\ Ends(c)
  /\ UNCHANGED content

Refuses(c) ==
  /\ phase[c] # "idle"
  /\ Ends(c)
  /\ UNCHANGED <<content, answer>>

\* The next answer is about a file of another kind.
TurnsAway(c) ==
  /\ phase[c] = "idle"
  /\ answer' = [answer EXCEPT ![c] = Nothing]
  /\ UNCHANGED <<content, phase, job>>

Dies ==
  /\ phase' = [c \in Clients |-> "idle"]
  /\ job' = [c \in Clients |-> Nothing]
  /\ UNCHANGED <<content, answer>>

Next ==
  \/ \E c \in Clients :
       \/ Read(c) \/ Write(c) \/ TakesEffect(c)
       \/ Answers(c) \/ Refuses(c) \/ TurnsAway(c)
  \/ Dies

Spec == Init /\ [][Next]_vars
=============================================================================

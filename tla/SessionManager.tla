--------------------------- MODULE SessionManager ---------------------------
(***************************************************************************)
(* The session table of rexd (internal/session/manager.go): the live       *)
(* sessions, the limit on how many there may be, and the per-session       *)
(* counter of running processes.  Every method of the Go type Manager      *)
(* holds its mutex from beginning to end, so each one is a single action.  *)
(*                                                                         *)
(* The module has no behaviour of its own: ExecService composes its        *)
(* operators with the request handlers and goroutines that call them.      *)
(***************************************************************************)
EXTENDS Integers, FiniteSets

CONSTANTS
  Sessions,               \* the session ids the manager can draw
  MaxConcurrentSessions   \* limits.max_concurrent_sessions; <= 0: unlimited

ASSUME SessionsAssumption ==
  /\ IsFiniteSet(Sessions)
  /\ MaxConcurrentSessions \in Int

VARIABLES
  sessions,      \* the keys of Manager.sessions
  issued,        \* every id drawn so far (48 random bits: none is drawn twice)
  processCount   \* Session.ProcessCount, which outlives the table entry

smVars == <<sessions, issued, processCount>>

SMTypeOK ==
  /\ sessions \subseteq issued
  /\ issued \subseteq Sessions
  /\ processCount \in [Sessions -> Nat]

SMInit ==
  /\ sessions = {}
  /\ issued = {}
  /\ processCount = [s \in Sessions |-> 0]

(***************************************************************************)
(* Open: refused when the table is full, otherwise a new id is entered.    *)
(***************************************************************************)
HasRoom ==
  MaxConcurrentSessions > 0 => Cardinality(sessions) < MaxConcurrentSessions

\* Mutant: the id is entered without being drawn anew.
OpenSessionUnissued(s) ==
  /\ HasRoom
  /\ s \notin issued
  /\ sessions' = sessions \cup {s}
  /\ UNCHANGED <<issued, processCount>>

OpenSession(s) ==
  /\ HasRoom
  /\ s \notin issued
  /\ sessions' = sessions \cup {s}
  /\ issued' = issued \cup {s}
  /\ UNCHANGED processCount

\* Close forgets the table entry and nothing else.
CloseSession(s) ==
  /\ s \in sessions
  /\ sessions' = sessions \ {s}
  /\ UNCHANGED <<issued, processCount>>

\* IncProcess, of an id that is still in the table.
IncProcess(s) ==
  /\ s \in sessions
  /\ processCount' = [processCount EXCEPT ![s] = @ + 1]
  /\ UNCHANGED <<sessions, issued>>

\* DecProcess: an unknown id is an error the caller ignores, and the counter
\* is never taken below zero.
DecProcess(s) ==
  /\ processCount' = IF s \in sessions /\ processCount[s] > 0
                     THEN [processCount EXCEPT ![s] = @ - 1]
                     ELSE processCount
  /\ UNCHANGED <<sessions, issued>>
=============================================================================

----------------------------- MODULE PtyManager ------------------------------
(***************************************************************************)
(* The terminals of rexd (internal/exec/pty.go): the child behind each, the *)
(* master side it is read and written through, the goroutine that reads it, *)
(* the goroutine that waits for the child, and the table of open terminals. *)
(* Unlike a process of exec.start, a terminal has no deadline, no limit on  *)
(* its output and no place in the counter of its session.                   *)
(***************************************************************************)
EXTENDS Naturals, FiniteSets

CONSTANTS
  Terms,        \* the terminals pty.open may create
  MaxPtyLines   \* bound: the lines a child writes to its terminal

ASSUME TermsAssumption == IsFiniteSet(Terms) /\ MaxPtyLines \in Nat

VARIABLES
  term,       \* the child: "none", "running", "dead" (not waited for), "reaped"
  ptys,       \* the keys of PTYManager.ptys
  ptyFile,    \* PTYSession.File: "none", "open", "closed"
  ptyOut,     \* lines in the terminal
  ptyHeld,    \* lines in the scanner's buffer
  ptySeq,     \* the number of the last pty.output
  ptyReader,  \* the goroutine readOutput
  ptyWaiter,  \* the goroutine wait
  ptyExit     \* history: the terminals whose pty.exit has been published

ptyOutVars == <<ptyOut, ptyHeld, ptySeq, ptyReader>>
ptyVars == <<term, ptys, ptyFile, ptyOutVars, ptyWaiter, ptyExit>>

PtyTypeOK ==
  /\ term \in [Terms -> {"none", "running", "dead", "reaped"}]
  /\ ptys \subseteq Terms
  /\ ptyFile \in [Terms -> {"none", "open", "closed"}]
  /\ ptyOut \in [Terms -> Nat]
  /\ ptyHeld \in [Terms -> Nat]
  /\ ptySeq \in [Terms -> Nat]
  /\ ptyReader \in [Terms -> {"off", "scan", "done"}]
  /\ ptyWaiter \in [Terms -> {"off", "wait", "publish", "close", "remove", "done"}]
  /\ ptyExit \subseteq Terms

PtyInit ==
  /\ term = [t \in Terms |-> "none"]
  /\ ptys = {}
  /\ ptyFile = [t \in Terms |-> "none"]
  /\ ptyOut = [t \in Terms |-> 0]
  /\ ptyHeld = [t \in Terms |-> 0]
  /\ ptySeq = [t \in Terms |-> 0]
  /\ ptyReader = [t \in Terms |-> "off"]
  /\ ptyWaiter = [t \in Terms |-> "off"]
  /\ ptyExit = {}

-----------------------------------------------------------------------------
(* The child. *)

PtyChildWrites(t) ==
  /\ term[t] = "running"
  /\ ptyFile[t] = "open"
  /\ ptySeq[t] + ptyHeld[t] + ptyOut[t] < MaxPtyLines
  /\ ptyOut' = [ptyOut EXCEPT ![t] = @ + 1]
  /\ UNCHANGED <<term, ptys, ptyFile, ptyHeld, ptySeq, ptyReader, ptyWaiter, ptyExit>>

PtyChildEnds(t) ==
  /\ term[t] = "running"
  /\ term' = [term EXCEPT ![t] = "dead"]
  /\ UNCHANGED <<ptys, ptyFile, ptyOutVars, ptyWaiter, ptyExit>>

-----------------------------------------------------------------------------
(* The requests. *)

\* Open: the child is started, the terminal registered, its goroutines run.
\* Nobody knows of it before.
OpenPty(t) ==
  /\ term[t] = "none"
  /\ term' = [term EXCEPT ![t] = "running"]
  /\ ptys' = ptys \cup {t}
  /\ ptyFile' = [ptyFile EXCEPT ![t] = "open"]
  /\ ptyReader' = [ptyReader EXCEPT ![t] = "scan"]
  /\ ptyWaiter' = [ptyWaiter EXCEPT ![t] = "wait"]
  /\ UNCHANGED <<ptyOut, ptyHeld, ptySeq, ptyExit>>

\* Mutant: the terminal is closed and its child left to the hangup signal.
KillPtySoftly(t) ==
  /\ t \in ptys
  /\ UNCHANGED ptyVars

\* Close, in two steps: a fatal signal, which does nothing to a child that
\* has ended, and the closing of the file, which fails if it has been closed.
KillPty(t) ==
  /\ t \in ptys
  /\ term' = [term EXCEPT ![t] = IF @ = "running" THEN "dead" ELSE @]
  /\ UNCHANGED <<ptys, ptyFile, ptyOutVars, ptyWaiter, ptyExit>>

ClosePtyFile(t) ==
  /\ ptyFile' = [ptyFile EXCEPT ![t] = "closed"]
  /\ UNCHANGED <<term, ptys, ptyOutVars, ptyWaiter, ptyExit>>

-----------------------------------------------------------------------------
(* readOutput. *)

PtyReads(t) ==
  /\ ptyReader[t] = "scan"
  /\ ptyFile[t] = "open"
  /\ ptyHeld[t] = 0
  /\ \E n \in 1..ptyOut[t] :
       /\ ptyOut' = [ptyOut EXCEPT ![t] = @ - n]
       /\ ptyHeld' = [ptyHeld EXCEPT ![t] = n]
  /\ UNCHANGED <<term, ptys, ptyFile, ptySeq, ptyReader, ptyWaiter, ptyExit>>

\* A line is numbered and published, also after pty.exit.
PtyPublishes(t) ==
  /\ ptyReader[t] = "scan"
  /\ ptyHeld[t] > 0
  /\ ptyHeld' = [ptyHeld EXCEPT ![t] = @ - 1]
  /\ ptySeq' = [ptySeq EXCEPT ![t] = @ + 1]
  /\ UNCHANGED <<term, ptys, ptyFile, ptyOut, ptyReader, ptyWaiter, ptyExit>>

\* Scan returns false: the file has been closed, the other side has (and what
\* the terminal still held may be lost), or a line is longer than the buffer.
PtyReaderStops(t) ==
  /\ ptyReader[t] = "scan"
  /\ ptyHeld[t] = 0
  /\ ptyFile[t] = "closed" \/ term[t] # "running" \/ ptyOut[t] > 0
  /\ ptyReader' = [ptyReader EXCEPT ![t] = "done"]
  /\ UNCHANGED <<term, ptys, ptyFile, ptyOut, ptyHeld, ptySeq, ptyWaiter, ptyExit>>

PtyRead(t) == PtyReads(t) \/ PtyPublishes(t) \/ PtyReaderStops(t)

-----------------------------------------------------------------------------
(* wait. *)

PtyWaiterGoto(t, from, to) ==
  /\ ptyWaiter[t] = from
  /\ ptyWaiter' = [ptyWaiter EXCEPT ![t] = to]

\* Mutant: the terminal leaves the table first.
PtyReapsAndForgets(t) ==
  /\ PtyWaiterGoto(t, "wait", "publish")
  /\ term[t] = "dead"
  /\ term' = [term EXCEPT ![t] = "reaped"]
  /\ ptys' = ptys \ {t}
  /\ UNCHANGED <<ptyFile, ptyOutVars, ptyExit>>

\* cmd.Wait returns.
PtyReaps(t) ==
  /\ PtyWaiterGoto(t, "wait", "publish")
  /\ term[t] = "dead"
  /\ term' = [term EXCEPT ![t] = "reaped"]
  /\ UNCHANGED <<ptys, ptyFile, ptyOutVars, ptyExit>>

PtyAnnounces(t) ==
  /\ PtyWaiterGoto(t, "publish", "close")
  /\ ptyExit' = ptyExit \cup {t}
  /\ UNCHANGED <<term, ptys, ptyFile, ptyOutVars>>

PtyReleases(t) ==
  /\ PtyWaiterGoto(t, "close", "remove")
  /\ ptyFile' = [ptyFile EXCEPT ![t] = "closed"]
  /\ UNCHANGED <<term, ptys, ptyOutVars, ptyExit>>

PtyRemoves(t) ==
  /\ PtyWaiterGoto(t, "remove", "done")
  /\ ptys' = ptys \ {t}
  /\ UNCHANGED <<term, ptyFile, ptyOutVars, ptyExit>>

PtyWait(t) == PtyReaps(t) \/ PtyAnnounces(t) \/ PtyReleases(t) \/ PtyRemoves(t)
=============================================================================

---------------------------- MODULE ProgramClaims ----------------------------
(***************************************************************************)
(* What must hold of Program.                                              *)
(***************************************************************************)
EXTENDS Program

-----------------------------------------------------------------------------
(* Fairness.  A handler carries on with its request, the goroutines of the *)
(* program run whenever they can, and so does the goroutine of os/exec     *)
(* that watches a child's context.  No request is forced, nor that a child *)
(* reads its stdin or its terminal: a write to either ends for certain     *)
(* only when the child is gone.                                            *)

TermGone(t) == t # NoTerm /\ (ptyFile[t] = "closed" \/ term[t] # "running")

WritesStdin(h) == pc[h] \in {"stdin", "input"}

CarriesOn(h) ==
  \/ /\ pc[h] # "idle"
     /\ WritesStdin(h) => os[hproc[h]] # "running"
     /\ ExecStep(h)
  \/ PtyCloseEnds(h)
  \/ TermGone(ptyOf[h]) /\ PtyInputEnds(h)

Progress ==
  /\ \A h \in Handlers : WF_allVars(~ended /\ CarriesOn(h)) /\ WF_allVars(~ended /\ Returns(h))
  /\ \A p \in Procs : WF_allVars(~ended /\ CutOffProcess(p))
  /\ \A t \in Terms :
       /\ WF_allVars(~ended /\ CutOffTerm(t))
       /\ WF_allVars(~ended /\ PtyRead(t) /\ UNCHANGED <<vars, progVars>>)
       /\ WF_allVars(~ended /\ PtyWait(t) /\ UNCHANGED <<vars, progVars>>)

FairProgram == ProgramSpec /\ Progress

-----------------------------------------------------------------------------
(* Safety. *)

\* "pty not found" for a terminal that was opened means that pty.exit has been
\* published, its child reaped and its file closed, although pty.close closes
\* the file under the goroutine that does all this (pty.go:103-130, 158-165).
PtyGoneMeansAnnounced ==
  \A t \in Terms : term[t] # "none" /\ t \notin ptys =>
    t \in ptyExit /\ term[t] = "reaped" /\ ptyFile[t] = "closed"

\* Until its client goes or the program is told to stop, no context ends a
\* child that a stdio or WebSocket client has started: its context is that of
\* the connection, not of the request (service.go:322, handler.go:42).
ChildOutlivesRequest ==
  \A c \in cutOff : transport[starter[c]] # "post" =>
    told \/ client[starter[c]] = "gone"

-----------------------------------------------------------------------------
(* Liveness. *)

Runs(c) == IF c \in Procs THEN os[c] = "running" ELSE term[c] = "running"

\* pty.close ends the terminal: the child, which may ignore the hangup, is
\* reaped, the terminal leaves the table, and its reader stops, also with
\* another pty.close or pty.input under way (pty.go:86-130, 158-165).
ClosedTerminalEnds ==
  \A h \in Handlers, t \in Terms :
    ptyPc[h] = "close" /\ ptyOf[h] = t ~>
      ended \/ (ptyWaiter[t] = "done" /\ ptyReader[t] = "done")

\* The children of an HTTP or WebSocket client that has gone are killed, and
\* those of a stdio server that is told to stop, whatever they were doing and
\* wherever in a request their handler was; unless the program has ended, or
\* the loop of a WebSocket connection hangs in a write to a child that does not
\* read: the stdin of exec.start and exec.input, or the terminal of pty.input
\* (service.go:376, 460, pty.go:147).  It then never returns, and only its
\* return ends the context (handler.go:42).
LeftChildrenEnd ==
  \A c \in Children, h \in Handlers :
    /\ starter[c] = h /\ Runs(c)
    /\ IF transport[h] = "stdio" THEN told ELSE client[h] = "gone"
    ~> \/ ended \/ ~Runs(c)
       \/ transport[h] = "ws" /\ [](ptyPc[h] = "input" \/ WritesStdin(h))
=============================================================================

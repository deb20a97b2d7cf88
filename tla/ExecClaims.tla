----------------------------- MODULE ExecClaims -----------------------------
(***************************************************************************)
(* What must hold of ExecService: fairness, the safety properties and the  *)
(* liveness properties of the code, and what the documentation claims of   *)
(* it that the code does not do.                                           *)
(***************************************************************************)
EXTENDS ExecService

-----------------------------------------------------------------------------
(* Fairness.  The Go scheduler runs every goroutine that can run, and a    *)
(* handler carries on with the request it has begun.  No client request is *)
(* forced, nor anything a child does, nor that time passes.                *)

StdinFails(h) == hproc[h] # NoProc /\ os[hproc[h]] # "running"

InRequest(h) ==
  \/ \E p \in Procs : StartSpawns(h, p)
  \/ StartFails(h) \/ StartCounts(h) \/ StartAbandons(h) \/ StartRegisters(h)
  \/ StartSupervises(h) \/ WaitReceives(h) \/ WaitGivesUp(h)
  \/ StdinFails(h) /\ (StartWritesStdin(h) \/ InputEnds(h))

Goroutines ==
  /\ \A h \in Handlers : WF_vars(InRequest(h))
  /\ \A p \in Procs : /\ WF_vars(Waiter(p))
                      /\ WF_vars(Timer(p) /\ UNCHANGED <<smVars, hVars, pVars>>)

FairSpec == Spec /\ Goroutines

-----------------------------------------------------------------------------
(* The process counter of a session. *)

\* The processes a session has been charged for and not yet been credited.
Holds(p) ==
  \/ waiter[p] \notin {"off", "done"}
  \/ \E h \in Handlers : hproc[h] = p /\ pc[h] \in {"add", "stdin", "arm"}

Charged(s) == {p \in Procs : owner[p] = s /\ Holds(p)}

\* The counter of a live session is the number of processes that hold a slot
\* of it: no path through exec.start or its waiter leaks a slot or frees one
\* twice (IncProcess and DecProcess in session/manager.go).
CountMatches ==
  \A s \in sessions : processCount[s] = Cardinality(Charged(s))

\* The requests that have passed the check of the limit and not yet raised
\* the counter.
Admitted(s) == {h \in Handlers : hsess[h] = s /\ pc[h] \in {"spawn", "inc"}}

Unreaped(s) == {p \in Procs : owner[p] = s /\ os[p] \in {"running", "dead"}}

\* The limit is checked long before the counter is raised (service.go:298 and
\* 346), so requests on different connections may pass it together; but each
\* handler runs one request at a time, so a session never has more children
\* than the limit and one for every handler but the first.  With the single
\* handler of a stdio server the limit is exact.
OvershootIsBounded ==
  \A s \in sessions :
    Cardinality(Unreaped(s)) <= MaxProcessesPerSession + Cardinality(Handlers) - 1

-----------------------------------------------------------------------------
(* Who looks after a child. *)

Starting(p) == \E h \in Handlers : hproc[h] = p /\ pc[h] \in {"inc", "add", "stdin", "arm"}

\* A client can name it, its waiter waits, and its deadline will end it.
Supervised(p) ==
  /\ p \in registry /\ waiter[p] = "wait"
  /\ deadline[p] \in {"armed", "expired"} /\ timer[p] \in {"waiting", "kill"}

\* A child that runs is being started by a request or has everything that will
\* end it, whatever other connections and its deadline do meanwhile; the one
\* exception is the child that IncProcess refuses because its session is gone
\* (service.go:346, claim_reaped), and it was never registered.
NoStrayChild ==
  \A p \in Procs : os[p] = "running" =>
    \/ Starting(p) \/ Supervised(p)
    \/ owner[p] \notin sessions /\ p \notin registry /\ waiter[p] = "off"

-----------------------------------------------------------------------------
(* Timeouts. *)

Captured(p) == waiter[p] \in {"publish", "remove", "dec", "done"}

\* exec.exit reports timed_out only if the deadline passed or the output
\* limit was exceeded, although the deadline goroutine also wakes, and sets
\* the flag, when Manager.Wait cancels the deadline of a process that ended
\* by itself (service.go:379-383, exec/manager.go:144-155).
ReportedTimeoutIsReal ==
  \A p \in Procs :
    reported[p] => \/ deadline[p] = "expired"
                   \/ MaxOutput > 0 /\ bytes[p] > MaxOutput

\* A process the deadline killed is reported as timed out, however late the
\* deadline goroutine is scheduled after its kill (service.go:381-382).
TimeoutKillIsReported ==
  \A p \in Procs : endedBy[p] = "timeout" /\ Captured(p) => reported[p]

-----------------------------------------------------------------------------
(* Notifications and the registry. *)

\* "process not found" for a process that was started means that its exit
\* has been announced and its status was made available to exec.wait
\* (service.go:387-398).
GoneMeansAnnounced ==
  \A p \in Procs :
    waiter[p] # "off" /\ p \notin registry => ExitPublished(p) /\ exitCh[p] # "empty"

\* The notifications of one stream carry strictly increasing numbers in the
\* order they are published (spec:459, "seq must be monotonic").
SeqIsStrict ==
  \A p \in Procs, i \in Streams : \A m, n \in 1..Len(events[p]) :
    m < n /\ events[p][m].stream = i /\ events[p][n].stream = i
      => events[p][m].seq < events[p][n].seq

\* The places of the lines of output among the notifications of a process.
OutputLines(p) == {n \in 1..Len(events[p]) : events[p][n].stream \in Streams}

\* Both streams draw on one output limit, whatever the two reader goroutines
\* interleave, and nothing past it is published (exec/manager.go:112-133).
OutputIsCapped ==
  \A p \in Procs : MaxOutput > 0 => Cardinality(OutputLines(p)) <= MaxOutput

-----------------------------------------------------------------------------
(* Liveness. *)

\* A child that runs is reaped and its waiter runs to the end, unless the
\* clock never comes to its deadline: no child escapes its deadline.  It holds
\* for the one handler of a stdio server and for stdin data that fits the pipe.
EveryChildIsReaped ==
  \A p \in Procs :
    os[p] = "running" ~> waiter[p] = "done" \/ [](deadline[p] = "armed")

\* The deadline goroutine of a process that has ended is released at once and
\* does not linger until the deadline, which may be minutes away.
TimerIsReleased ==
  \A p \in Procs : waiter[p] = "done" ~> timer[p] = "done"

-----------------------------------------------------------------------------
(* What the documentation (docs/spec/rexd_v1_protocol.md) says of the code  *)
(* that it does not do.                                                     *)

\* spec:460, "exec.exit is terminal for a process": no notification of a
\* process follows its exec.exit.
ExitIsTerminal ==
  \A p \in Procs : \A n \in 1..Len(events[p]) :
    events[p][n] = ExitEvent => n = Len(events[p])

\* spec:138, session.close "terminates any attached child processes unless
\* detached": a registered child of a session that has been closed ends before
\* its deadline comes.  But sessionClose only takes the session out of its
\* table (service.go:270-279), and nothing but the deadline ends the child.
ClosedSessionEndsItsChildren ==
  \A p \in Procs :
    os[p] = "running" /\ Supervised(p) /\ owner[p] \notin sessions
      ~> os[p] # "running" \/ deadline[p] # "armed"
=============================================================================

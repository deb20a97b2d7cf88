---------------------------- MODULE ExecService -----------------------------
(***************************************************************************)
(* The session.* and exec.* methods of rexd (internal/server/service.go)   *)
(* over the session table and the process manager.                         *)
(*                                                                         *)
(* A handler is a goroutine that runs one request at a time: the only one  *)
(* of a stdio server, one per connection or request of an HTTP server.     *)
(* A request is cut where another goroutine may run and matters: at each   *)
(* lock, system call, channel operation and goroutine start.  A request    *)
(* that fails before it changes anything is not a step.                    *)
(***************************************************************************)
EXTENDS SessionManager, ExecManager

CONSTANTS
  Handlers,               \* goroutines that execute requests
  MaxProcessesPerSession, \* limits.max_processes_per_session
  Payloads,               \* sizes of stdin data: "small" fits the pipe, "large" does not
  NoSession, NoProc       \* model values

ASSUME HandlersAssumption ==
  /\ IsFiniteSet(Handlers)
  /\ Handlers # {}
  /\ MaxProcessesPerSession \in Nat
  /\ Payloads \subseteq {"small", "large"}
  /\ NoSession \notin Sessions
  /\ NoProc \notin Procs

VARIABLES
  pc,         \* where a handler is in its request
  hsess,      \* the session of the exec.start it runs
  hproc,      \* the process of the request it runs
  owner,      \* RunningProcess.SessionID
  waiter,     \* the goroutine that waits for the process
  exitCh      \* RunningProcess.ExitCh: "empty", "full", or "taken" by a waiter

hVars  == <<pc, hsess, hproc>>
pVars  == <<owner, waiter, exitCh>>
vars   == <<smVars, emVars, hVars, pVars>>

ServiceTypeOK ==
  /\ pc \in [Handlers -> {"idle", "spawn", "inc", "add", "stdin", "arm", "wait", "input"}]
  /\ hsess \in [Handlers -> Sessions \cup {NoSession}]
  /\ hproc \in [Handlers -> Procs \cup {NoProc}]
  /\ owner \in [Procs -> Sessions \cup {NoSession}]
  /\ waiter \in [Procs -> {"off", "wait", "capture", "publish", "remove", "dec", "done"}]
  /\ exitCh \in [Procs -> {"empty", "full", "taken"}]

\* The type invariant: the tables, counters and goroutine states of the session
\* and exec parts keep their shapes, and only ids that were issued are in use.
TypeOK == SMTypeOK /\ EMTypeOK /\ ServiceTypeOK

Init ==
  /\ SMInit
  /\ EMInit
  /\ pc = [h \in Handlers |-> "idle"]
  /\ hsess = [h \in Handlers |-> NoSession]
  /\ hproc = [h \in Handlers |-> NoProc]
  /\ owner = [p \in Procs |-> NoSession]
  /\ waiter = [p \in Procs |-> "off"]
  /\ exitCh = [p \in Procs |-> "empty"]

-----------------------------------------------------------------------------
Goto(h, from, to) ==
  /\ pc[h] = from
  /\ pc' = [pc EXCEPT ![h] = to]

\* The handler answers its request.
Respond(h) ==
  /\ pc' = [pc EXCEPT ![h] = "idle"]
  /\ hsess' = [hsess EXCEPT ![h] = NoSession]
  /\ hproc' = [hproc EXCEPT ![h] = NoProc]

(* session.open and session.close *)
SessionOpen(h, s) ==
  /\ pc[h] = "idle"
  /\ OpenSession(s)
  /\ UNCHANGED <<emVars, hVars, pVars>>

SessionClose(h, s) ==
  /\ pc[h] = "idle"
  /\ CloseSession(s)
  /\ UNCHANGED <<emVars, hVars, pVars>>

-----------------------------------------------------------------------------
(* exec.start *)

\* Mutant: one process too many.
StartChecksOffByOne(h, s) ==
  /\ Goto(h, "idle", "spawn")
  /\ s \in sessions
  /\ processCount[s] <= MaxProcessesPerSession
  /\ hsess' = [hsess EXCEPT ![h] = s]
  /\ UNCHANGED <<smVars, emVars, hproc, pVars>>

\* The session is looked up and its counter compared with the limit; the
\* counter is read without the manager's lock and is not yet raised.
StartChecks(h, s) ==
  /\ Goto(h, "idle", "spawn")
  /\ s \in sessions
  /\ processCount[s] < MaxProcessesPerSession
  /\ hsess' = [hsess EXCEPT ![h] = s]
  /\ UNCHANGED <<smVars, emVars, hproc, pVars>>

\* cmd.Start, which may fail.
StartSpawns(h, p) ==
  /\ Goto(h, "spawn", "inc")
  /\ Spawn(p)
  /\ hproc' = [hproc EXCEPT ![h] = p]
  /\ owner' = [owner EXCEPT ![p] = hsess[h]]
  /\ UNCHANGED <<smVars, registry, clockVars, timedOut, reported, streamVars,
                 events, hsess, waiter, exitCh>>

\* Mutant: a start that fails gives back a slot it never took.
StartFailsDiscounting(h) ==
  /\ pc[h] = "spawn"
  /\ Respond(h)
  /\ DecProcess(hsess[h])
  /\ UNCHANGED <<emVars, pVars>>

StartFails(h) ==
  /\ pc[h] = "spawn"
  /\ Respond(h)
  /\ UNCHANGED <<smVars, emVars, pVars>>

\* sessions.IncProcess, unless the session has gone meanwhile.
StartCounts(h) ==
  /\ Goto(h, "inc", "add")
  /\ IncProcess(hsess[h])
  /\ UNCHANGED <<emVars, hsess, hproc, pVars>>

\* Mutant: the limit is compared again, and a child above it left behind.
StartAbandonsAtLimit(h) ==
  /\ pc[h] = "inc"
  /\ hsess[h] \notin sessions \/ processCount[hsess[h]] >= MaxProcessesPerSession
  /\ Respond(h)
  /\ UNCHANGED <<smVars, emVars, pVars>>

\* Then the request fails, and the child that already runs is left behind.
StartAbandons(h) ==
  /\ pc[h] = "inc"
  /\ hsess[h] \notin sessions
  /\ Respond(h)
  /\ UNCHANGED <<smVars, emVars, pVars>>

\* The deadline starts to run, the process is registered, its output is read.
\* The stdin parameter is then written by this very goroutine.
StartRegisters(h) ==
  /\ pc[h] = "add"
  /\ \E size \in Payloads :
       pc' = [pc EXCEPT ![h] = IF size = "large" THEN "stdin" ELSE "arm"]
  /\ deadline' = [deadline EXCEPT ![hproc[h]] = "armed"]
  /\ Register(hproc[h])
  /\ StartReaders(hproc[h])
  /\ UNCHANGED <<smVars, osVars, timer, timedOut, reported, pipe, held, seq, bytes,
                 events, hsess, hproc, pVars>>

\* A write that does not fit in the pipe ends when the child reads it, which
\* it may do at any time or never, or with an error (which exec.start ignores)
\* when the child is gone.
StartWritesStdin(h) ==
  /\ Goto(h, "stdin", "arm")
  /\ UNCHANGED <<smVars, emVars, hsess, hproc, pVars>>

\* Only now are the deadline goroutine and the waiter started.
StartSupervises(h) ==
  /\ pc[h] = "arm"
  /\ timer' = [timer EXCEPT ![hproc[h]] = "waiting"]
  /\ waiter' = [waiter EXCEPT ![hproc[h]] = "wait"]
  /\ Respond(h)
  /\ UNCHANGED <<smVars, osVars, registry, deadline, timedOut, reported, streamVars,
                 events, owner, exitCh>>

-----------------------------------------------------------------------------
(* exec.wait, exec.kill and exec.input of a registered process; for any    *)
(* other process id they answer "process not found".                       *)

WaitBegins(h, p) ==
  /\ p \in registry
  /\ Goto(h, "idle", "wait")
  /\ hproc' = [hproc EXCEPT ![h] = p]
  /\ UNCHANGED <<smVars, emVars, hsess, pVars>>

WaitReceives(h) ==
  /\ pc[h] = "wait"
  /\ exitCh[hproc[h]] = "full"
  /\ exitCh' = [exitCh EXCEPT ![hproc[h]] = "taken"]
  /\ Respond(h)
  /\ UNCHANGED <<smVars, emVars, owner, waiter>>

\* The timeout, answered with status "running", or the end of the context.
WaitGivesUp(h) ==
  /\ pc[h] = "wait"
  /\ Respond(h)
  /\ UNCHANGED <<smVars, emVars, pVars>>

KillRequest(h, p) ==
  /\ pc[h] = "idle"
  /\ p \in registry
  /\ Kill(p, "other")
  /\ UNCHANGED <<smVars, registry, clockVars, timedOut, reported, streamVars,
                 events, hVars, pVars>>

InputBegins(h, p) ==
  /\ p \in registry
  /\ "large" \in Payloads
  /\ Goto(h, "idle", "input")
  /\ hproc' = [hproc EXCEPT ![h] = p]
  /\ UNCHANGED <<smVars, emVars, hsess, pVars>>

\* As for the stdin parameter: the child reads the data or is gone.
InputEnds(h) ==
  /\ pc[h] = "input"
  /\ Respond(h)
  /\ UNCHANGED <<smVars, emVars, pVars>>

-----------------------------------------------------------------------------
(* The waiter goroutine of exec.start. *)

WaiterGoto(p, from, to) ==
  /\ waiter[p] = from
  /\ waiter' = [waiter EXCEPT ![p] = to]

\* Mutant: the deadline is cancelled as soon as cmd.Wait returns, before the
\* flags are copied.
WaiterReapsAndCancels(p) ==
  /\ WaiterGoto(p, "wait", "capture")
  /\ os[p] = "dead"
  /\ os' = [os EXCEPT ![p] = "reaped"]
  /\ deadline' = [deadline EXCEPT ![p] = IF @ = "armed" THEN "cancelled" ELSE @]
  /\ UNCHANGED <<smVars, endedBy, registry, timer, timedOut, reported, streamVars,
                 events, hVars, owner, exitCh>>

\* cmd.Wait returns: the process is reaped and our ends of its pipes closed.
WaiterReaps(p) ==
  /\ WaiterGoto(p, "wait", "capture")
  /\ os[p] = "dead"
  /\ os' = [os EXCEPT ![p] = "reaped"]
  /\ UNCHANGED <<smVars, endedBy, registry, clockVars, timedOut, reported, streamVars,
                 events, hVars, owner, exitCh>>

\* Mutant: the process leaves the registry before its exit is announced.
WaiterCapturesAndRemoves(p) ==
  /\ WaiterGoto(p, "capture", "publish")
  /\ CaptureState(p)
  /\ exitCh' = [exitCh EXCEPT ![p] = "full"]
  /\ Unregister(p)
  /\ UNCHANGED <<smVars, osVars, timer, timedOut, streamVars, events, hVars, owner>>

\* Manager.Wait, then the send on ExitCh, which has room for the one state it
\* is ever sent and does not block.
WaiterCaptures(p) ==
  /\ WaiterGoto(p, "capture", "publish")
  /\ CaptureState(p)
  /\ exitCh' = [exitCh EXCEPT ![p] = "full"]
  /\ UNCHANGED <<smVars, osVars, registry, timer, timedOut, streamVars, events,
                 hVars, owner>>

WaiterPublishes(p) ==
  /\ WaiterGoto(p, "publish", "remove")
  /\ events' = [events EXCEPT ![p] = Append(@, ExitEvent)]
  /\ UNCHANGED <<smVars, osVars, registry, clockVars, timedOut, reported, streamVars,
                 hVars, owner, exitCh>>

WaiterRemoves(p) ==
  /\ WaiterGoto(p, "remove", "dec")
  /\ Unregister(p)
  /\ UNCHANGED <<smVars, osVars, clockVars, timedOut, reported, streamVars, events,
                 hVars, owner, exitCh>>

WaiterDiscounts(p) ==
  /\ WaiterGoto(p, "dec", "done")
  /\ DecProcess(owner[p])
  /\ UNCHANGED <<emVars, hVars, owner, exitCh>>

-----------------------------------------------------------------------------
\* Steps of a process that no request handler takes part in.
Waiter(p) ==
  \/ WaiterReaps(p) \/ WaiterCaptures(p) \/ WaiterPublishes(p)
  \/ WaiterRemoves(p) \/ WaiterDiscounts(p)

Timer(p) == TimerMarks(p) \/ TimerKills(p)

Reader(p, i) ==
  \/ ReadPipe(p, i) \/ CountLine(p, i) \/ PublishLine(p, i)
  \/ OverflowKills(p, i) \/ OverflowFlags(p, i) \/ ReaderStops(p, i)

Child(p) ==
  \/ ChildExits(p)
  \/ ContextKill(p)
  \/ \E i \in Streams : ChildWrites(p, i)

ProcessStep(p) ==
  \/ Waiter(p)
  \/ (Timer(p) \/ DeadlinePasses(p) \/ Child(p)) /\ UNCHANGED <<smVars, hVars, pVars>>
  \/ (\E i \in Streams : Reader(p, i)) /\ UNCHANGED <<smVars, hVars, pVars>>

StartStep(h) ==
  \/ \E s \in Sessions : StartChecks(h, s)
  \/ \E p \in Procs : StartSpawns(h, p)
  \/ StartFails(h) \/ StartCounts(h) \/ StartAbandons(h)
  \/ StartRegisters(h) \/ StartWritesStdin(h) \/ StartSupervises(h)

HandlerStep(h) ==
  \/ \E s \in Sessions : SessionOpen(h, s) \/ SessionClose(h, s)
  \/ StartStep(h)
  \/ \E p \in Procs : WaitBegins(h, p) \/ KillRequest(h, p) \/ InputBegins(h, p)
  \/ WaitReceives(h) \/ WaitGivesUp(h) \/ InputEnds(h)

Next ==
  \/ \E h \in Handlers : HandlerStep(h)
  \/ \E p \in Procs : ProcessStep(p)

Spec == Init /\ [][Next]_vars
=============================================================================

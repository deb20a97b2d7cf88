---------------------------- MODULE ExecManager -----------------------------
(***************************************************************************)
(* One child process as rexd sees it (internal/exec/manager.go and the     *)
(* goroutines exec.start spawns for it): the operating-system process, the *)
(* deadline and the goroutine that enforces it, the two goroutines that    *)
(* read the output pipes, the state captured when the process ends, and    *)
(* the registry of running processes.                                      *)
(*                                                                         *)
(* An output line is one unit of output.  The kernel and os/exec (a pipe,  *)
(* a signal, cmd.Wait) are modelled by what the code relies on.            *)
(***************************************************************************)
EXTENDS Integers, Sequences, FiniteSets

CONSTANTS
  Procs,       \* the processes exec.start may create
  Streams,     \* the output streams that are read, of {"stdout", "stderr"}
  MaxLines,    \* bound: the lines a child writes to one stream
  MaxOutput    \* RunningProcess.MaxOutput in lines; 0: unlimited

ASSUME ProcsAssumption ==
  /\ IsFiniteSet(Procs)
  /\ Streams \subseteq {"stdout", "stderr"}
  /\ MaxLines \in Nat
  /\ MaxOutput \in Nat

VARIABLES
  os,         \* the OS process: "none", "running", "dead" (not waited), "reaped"
  endedBy,    \* what ended it: "timeout" for the deadline goroutine, "other"
  registry,   \* the keys of Manager.processes
  deadline,   \* execCtx: "none", "armed", "expired", "cancelled"
  timer,      \* the goroutine waiting on execCtx.Done()
  timedOut,   \* RunningProcess.TimedOut
  reported,   \* ProcessState.TimedOut as captured by Manager.Wait
  pipe,       \* lines in the kernel pipe of a stream
  held,       \* lines in the scanner's buffer of a stream
  reader,     \* the pipeStream goroutine of a stream
  seq,        \* StdoutSeq, StderrSeq
  bytes,      \* BytesStdout + BytesStderr, in lines
  events      \* history: the notifications published, in order

osVars     == <<os, endedBy>>
clockVars  == <<deadline, timer>>
streamVars == <<pipe, held, reader, seq, bytes>>
emVars == <<osVars, registry, clockVars, timedOut, reported, streamVars, events>>

ExitEvent == [stream |-> "exit", seq |-> 0]
Event == [stream : Streams, seq : Nat] \cup {ExitEvent}

EMTypeOK ==
  /\ os \in [Procs -> {"none", "running", "dead", "reaped"}]
  /\ endedBy \in [Procs -> {"none", "timeout", "other"}]
  /\ registry \subseteq Procs
  /\ deadline \in [Procs -> {"none", "armed", "expired", "cancelled"}]
  /\ timer \in [Procs -> {"off", "waiting", "kill", "done"}]
  /\ timedOut \in [Procs -> BOOLEAN]
  /\ reported \in [Procs -> BOOLEAN]
  /\ pipe \in [Procs -> [Streams -> Nat]]
  /\ held \in [Procs -> [Streams -> Nat]]
  /\ reader \in [Procs ->
       [Streams -> {"off", "scan", "publish", "overflow", "flag", "done"}]]
  /\ seq \in [Procs -> [Streams -> Nat]]
  /\ bytes \in [Procs -> Nat]
  /\ events \in [Procs -> Seq(Event)]

EMInit ==
  /\ os = [p \in Procs |-> "none"]
  /\ endedBy = [p \in Procs |-> "none"]
  /\ registry = {}
  /\ deadline = [p \in Procs |-> "none"]
  /\ timer = [p \in Procs |-> "off"]
  /\ timedOut = [p \in Procs |-> FALSE]
  /\ reported = [p \in Procs |-> FALSE]
  /\ pipe = [p \in Procs |-> [i \in Streams |-> 0]]
  /\ held = [p \in Procs |-> [i \in Streams |-> 0]]
  /\ reader = [p \in Procs |-> [i \in Streams |-> "off"]]
  /\ seq = [p \in Procs |-> [i \in Streams |-> 0]]
  /\ bytes = [p \in Procs |-> 0]
  /\ events = [p \in Procs |-> <<>>]

-----------------------------------------------------------------------------
(* The operating-system process. *)

\* cmd.Start succeeded.
Spawn(p) ==
  /\ os[p] = "none"
  /\ os' = [os EXCEPT ![p] = "running"]
  /\ UNCHANGED endedBy

\* A fatal signal; one sent to a process that has ended does nothing.
Kill(p, why) ==
  IF os[p] = "running"
  THEN /\ os' = [os EXCEPT ![p] = "dead"]
       /\ endedBy' = [endedBy EXCEPT ![p] = why]
  ELSE UNCHANGED osVars

ChildExits(p) ==
  /\ os[p] = "running"
  /\ Kill(p, "other")
  /\ UNCHANGED <<registry, clockVars, timedOut, reported, streamVars, events>>

\* exec.CommandContext kills the child when the context of the exec.start
\* request is done: SIGTERM to a stdio server, the end of a WebSocket
\* connection, the end of an HTTP request.
ContextKill(p) ==
  /\ os[p] = "running"
  /\ Kill(p, "other")
  /\ UNCHANGED <<registry, clockVars, timedOut, reported, streamVars, events>>

Written(p, i) == seq[p][i] + held[p][i] + pipe[p][i]

ChildWrites(p, i) ==
  /\ os[p] = "running"
  /\ Written(p, i) < MaxLines
  /\ pipe' = [pipe EXCEPT ![p][i] = @ + 1]
  /\ UNCHANGED <<osVars, registry, clockVars, timedOut, reported, held, reader,
                 seq, bytes, events>>

-----------------------------------------------------------------------------
(* The goroutine that enforces the deadline: it wakes on expiry and on     *)
(* cancellation alike, marks the process timed out, and kills it.          *)

DeadlinePasses(p) ==
  /\ deadline[p] = "armed"
  /\ deadline' = [deadline EXCEPT ![p] = "expired"]
  /\ UNCHANGED <<osVars, registry, timer, timedOut, reported, streamVars, events>>

\* Mutant: a kill that leaves no mark.
TimerKillsUnmarked(p) ==
  /\ timer[p] = "waiting"
  /\ deadline[p] \in {"expired", "cancelled"}
  /\ Kill(p, "timeout")
  /\ timer' = [timer EXCEPT ![p] = "kill"]
  /\ UNCHANGED <<registry, deadline, timedOut, reported, streamVars, events>>

TimerMarks(p) ==
  /\ timer[p] = "waiting"
  /\ deadline[p] \in {"expired", "cancelled"}
  /\ timedOut' = [timedOut EXCEPT ![p] = TRUE]
  /\ timer' = [timer EXCEPT ![p] = "kill"]
  /\ UNCHANGED <<osVars, registry, deadline, reported, streamVars, events>>

\* Mutant: the process is marked and never killed.
TimerOnlyMarks(p) ==
  /\ timer[p] = "kill"
  /\ timer' = [timer EXCEPT ![p] = "done"]
  /\ UNCHANGED <<osVars, registry, deadline, timedOut, reported, streamVars, events>>

TimerKills(p) ==
  /\ timer[p] = "kill"
  /\ Kill(p, "timeout")
  /\ timer' = [timer EXCEPT ![p] = "done"]
  /\ UNCHANGED <<registry, deadline, timedOut, reported, streamVars, events>>

-----------------------------------------------------------------------------
(* pipeStream, once per stream. *)

SetReader(p, i, from, to) ==
  /\ reader[p][i] = from
  /\ reader' = [reader EXCEPT ![p][i] = to]

\* WireStreams starts the two goroutines.
StartReaders(p) ==
  reader' = [reader EXCEPT ![p] = [i \in Streams |-> "scan"]]

\* The scanner takes some of what the pipe holds; cmd.Wait has closed the
\* pipe of a reaped process, and what was in it is lost.
ReadPipe(p, i) ==
  /\ reader[p][i] = "scan"
  /\ held[p][i] = 0
  /\ os[p] # "reaped"
  /\ \E k \in 1..pipe[p][i] :
       /\ pipe' = [pipe EXCEPT ![p][i] = @ - k]
       /\ held' = [held EXCEPT ![p][i] = k]
  /\ UNCHANGED <<osVars, registry, clockVars, timedOut, reported, reader, seq,
                 bytes, events>>

\* Mutant: each stream is compared with the limit on its own.
CountLinePerStream(p, i) ==
  /\ held[p][i] > 0
  /\ held' = [held EXCEPT ![p][i] = @ - 1]
  /\ seq' = [seq EXCEPT ![p][i] = @ + 1]
  /\ bytes' = [bytes EXCEPT ![p] = @ + 1]
  /\ SetReader(p, i, "scan",
       IF MaxOutput > 0 /\ seq[p][i] + 1 > MaxOutput THEN "overflow" ELSE "publish")
  /\ UNCHANGED <<osVars, registry, clockVars, timedOut, reported, pipe, events>>

\* Under p.mu: number the line, add it to the output, compare with the limit.
CountLine(p, i) ==
  /\ held[p][i] > 0
  /\ held' = [held EXCEPT ![p][i] = @ - 1]
  /\ seq' = [seq EXCEPT ![p][i] = @ + 1]
  /\ bytes' = [bytes EXCEPT ![p] = @ + 1]
  /\ SetReader(p, i, "scan",
       IF MaxOutput > 0 /\ bytes[p] + 1 > MaxOutput THEN "overflow" ELSE "publish")
  /\ UNCHANGED <<osVars, registry, clockVars, timedOut, reported, pipe, events>>

\* Mutant: every line carries the number of the stdout stream.
PublishLineAsStdout(p, i) ==
  /\ SetReader(p, i, "publish", "scan")
  /\ events' = [events EXCEPT ![p] = Append(@, [stream |-> i, seq |-> seq[p]["stdout"]])]
  /\ UNCHANGED <<osVars, registry, clockVars, timedOut, reported, pipe, held,
                 seq, bytes>>

PublishLine(p, i) ==
  /\ SetReader(p, i, "publish", "scan")
  /\ events' = [events EXCEPT ![p] = Append(@, [stream |-> i, seq |-> seq[p][i]])]
  /\ UNCHANGED <<osVars, registry, clockVars, timedOut, reported, pipe, held,
                 seq, bytes>>

\* Past the limit: kill, and only then, in a second critical section, flag.
OverflowKills(p, i) ==
  /\ SetReader(p, i, "overflow", "flag")
  /\ Kill(p, "other")
  /\ UNCHANGED <<registry, clockVars, timedOut, reported, pipe, held, seq, bytes,
                 events>>

OverflowFlags(p, i) ==
  /\ SetReader(p, i, "flag", "done")
  /\ timedOut' = [timedOut EXCEPT ![p] = TRUE]
  /\ UNCHANGED <<osVars, registry, clockVars, reported, pipe, held, seq, bytes,
                 events>>

\* Scan returns false: end of file, the pipe was closed, or a line longer
\* than the scanner's buffer.
ReaderStops(p, i) ==
  /\ held[p][i] = 0
  /\ \/ os[p] = "reaped"
     \/ os[p] = "dead" /\ pipe[p][i] = 0
     \/ pipe[p][i] > 0
  /\ SetReader(p, i, "scan", "done")
  /\ UNCHANGED <<osVars, registry, clockVars, timedOut, reported, pipe, held, seq,
                 bytes, events>>

-----------------------------------------------------------------------------
\* Mutant: the deadline of a process that ended is left running.
CaptureStateOnly(p) ==
  /\ reported' = [reported EXCEPT ![p] = timedOut[p]]
  /\ UNCHANGED deadline

(* Manager.Wait: under p.mu, copy the flags, then cancel the deadline. *)
CaptureState(p) ==
  /\ reported' = [reported EXCEPT ![p] = timedOut[p]]
  /\ deadline' = [deadline EXCEPT ![p] = IF @ = "armed" THEN "cancelled" ELSE @]

Register(p)   == registry' = registry \cup {p}
Unregister(p) == registry' = registry \ {p}

ExitPublished(p) == \E n \in 1..Len(events[p]) : events[p][n] = ExitEvent
=============================================================================

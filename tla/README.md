# rexd: models, checks and proofs

`rexd` executes commands and file operations for remote clients. It speaks
JSON-RPC over stdio (one client), over HTTP (`POST /rpc`) and over WebSockets.
This directory holds TLA+ models of the code under `internal/` and of
`cmd/rexd/main.go`, TLC configurations that check them on small instances, and
proofs that hold for every value of the constants.

References like `service.go:298` are to `internal/server/service.go`,
`fs/service.go`, `exec/manager.go` and so on to the files under `internal/`;
`spec:460` is a line of `docs/spec/rexd_v1_protocol.md`.

## 1. The system

| component | code | state | operations |
|---|---|---|---|
| session manager | `session/manager.go` | table of sessions, a process counter in each | Open, Close, IncProcess, DecProcess, Get |
| exec manager | `exec/manager.go` | table of running processes; per process its deadline, flags, counters, exit channel | Add, Remove, Wait, pipeStream, Kill |
| PTY manager | `exec/pty.go` | table of terminals; per terminal its child, its file, the number of its last line | Open, Input, Resize, Close, Get, readOutput, wait |
| session and exec methods | `server/service.go:90-460` | program counters of requests and of the goroutines they leave behind | session.open/close, exec.start/wait/kill/input |
| event bus | `events/bus.go` | subscriptions, a buffered channel of 128 each | Subscribe, unsubscribe, Publish |
| stdio server | `server/stdio_server.go`, `transport/ndjson` | request loop, subscriptions, one output under a mutex | read, handle, respond, subscribe, forward |
| WebSocket handler | `transport/wsjsonrpc/handler.go` | the same per connection, no mutex | the same, unsubscribe at the end |
| HTTP server | `server/http_server.go`, `transport/httpjsonrpc` | the contexts of requests | routing, shutdown |
| configuration and start | `config/config.go`, `cmd/rexd/main.go` | settings; the context that a signal ends | which transport runs, when the program ends |
| file service | `fs/service.go` | the file system | Read, Write, Edit, List, Glob, Stat |
| fs.patch | `service.go:599-694`, `fs/patch.go` | the hunk it applies, the tree | ParsePatch, DerivePatchedContent, add, delete, update, move |
| path policy | `policy/policy.go` | allowed roots | ResolvePath, IsAllowed |
| audit, protocol | `audit`, `protocol` | a log file; declarations | append |

How they meet: a request handler (the single loop of a stdio server, one
goroutine per WebSocket connection or HTTP request) calls into the session
manager, the exec and PTY managers and the file service. `exec.start` leaves
four goroutines behind: two pipe readers, one that enforces the deadline and one
that waits for the child; `pty.open` leaves a reader and a waiter. They publish
on the event bus. Each connection subscribes to the bus and runs a goroutine per
subscription that writes the notifications to the same output as the responses.
A child also keeps the context of the request that started it, and that is what
kills it when a client or the program goes. Managers lock themselves, but
nothing locks the service, so a request is a sequence of critical sections and
system calls that other requests and goroutines run between.

What is hard, and what must hold:

* **exec.start is not atomic.** The limit is tested (298), the child started
  (343), counted (346), registered (370), fed (373) and supervised (379, 385)
  in this order, each visible to others before the next. A slot must be neither
  lost nor returned twice (`CountMatches`); the overshoot of the limit has a
  bound (`OvershootIsBounded`); a child that runs must be in somebody's care
  (`NoStrayChild`) and none may escape its deadline (`EveryChildIsReaped`).
* **The timeout flag.** The deadline goroutine wakes on expiry and on
  cancellation and sets the same flag both times; whether a client is told the
  truth depends on the order of four goroutines (`ReportedTimeoutIsReal`,
  `TimeoutKillIsReported`, `TimerIsReleased`).
* **Independent publishers.** Two readers and the waiter of a process publish
  without waiting for each other (`SeqIsStrict`, `OutputIsCapped`,
  `GoneMeansAnnounced`).
* **Terminals** are closed by a request under the goroutines that read them and
  wait for them (`PtyGoneMeansAnnounced`, `ClosedTerminalEnds`).
* **Contexts.** A child outlives the request that started it and not the
  client; for each transport the context of a request ends at another moment
  (`ChildOutlivesRequest`, `LeftChildrenEnd`).
* **Channels that are closed and channels that are full**
  (`NoSendOnClosed`, `SlowClientDoesNotBlock`, `InOrderAtMostOnce`,
  `AcceptedIsDelivered`, `HangupCleansUp`, `OneWriter`).
* **File updates as system calls**, with concurrent requests, failures between
  two steps, which take nothing back, and a program that dies (`NoPartialFile`, `NoPartialRead`,
  `WritesAreAtomic`, `NoTmpLeft`, `MoveKeepsContent`, `GuardHolds`).
* **Patches.** Positions refer to the original file while every replacement
  shifts what follows (`ChunksInOrder`, `UpdateMeansPatch`); what a line means
  depends on the lines above it (`ParsesWhatWasMeant`); a request that fails has
  applied some hunks (`PatchIsAPrefix`) and perhaps some of the calls of the next
  (`FailedHunkKeepsFiles`); paths are written with `..`, relative to
  a directory that is itself relative (`OnlyInRoots`).

`PROJECT.json` lists each hazard with its line.

## 2. The modules

```
SessionManager ExecManager PtyManager   EventBus  LossyFifo  PathPolicy  Splicing  AtomicFiles
         \         |         /              |    (abstract)       |         |     (abstract)
          ExecService --- Program       Connections   |        PatchText --- | --- PatchWriting
               |             |               |        |            |         |         |
               |             |               |        |        PatchApply FileService  |
               |             |               |        |            |         |         |
               |             |               |        |      PatchRequest    |         |
               |             |               |        |            |         |         |
          ExecClaims   ProgramClaims   ConnectionClaims       PatchClaims -- | --------+
               |             |               |                     |     FileClaims
   MC      MCExecService MCProgram     MCConnections            MCPatch  MCFileService
               |             |               |                     |         |
   proofs  ExecService-   Program-      Connection-           PatchProofs FileProofs
           Proofs         Proofs        Proofs                     |
               |                                              PatchMeaning-
           ExecEvent-                                         Proofs
           Proofs
```

(An MC module and the proofs stand side by side: both extend the claims, neither
the other. ProgramProofs also extends ExecServiceProofs, and the proofs about
connections, files and patches extend SplicingProofs, which has the lemmas
about Splicing and about recursion. FileClaims also instantiates AtomicFiles.)

*Component* modules hold state and actions. *Claims* modules hold fairness and
properties. *MC* modules (`MCExecService`, `MCProgram`, `MCConnections`,
`MCPatch`, `MCFileService`) hold the values TLC needs. An operator that follows
"Mutant:" is a plausible wrong version of the definition below it, used to
confirm that each property can be broken; no specification uses one.

**SessionManager** (`session/manager.go`). `sessions`, `issued`,
`processCount`. Every method holds the mutex throughout and is one action.
`processCount` outlives the table entry, as the `Session` object does.

**ExecManager** (`exec/manager.go` and the goroutines of `service.go:363-400`).
Per process: the operating-system process (`os`, `endedBy`), the deadline
context (`deadline`) and its goroutine (`timer`), `timedOut` and the copy of it
that is `reported`, and per stream the kernel pipe, the scanner's buffer
(`held`), the reader's place, `seq`. `events` is a history of what was
published. The output limit is counted in lines; a line is the unit of output,
so the limit is met at any line. Signals, pipes and `cmd.Wait` are modelled as
the code relies on them: a signal to a process that has ended does nothing;
`cmd.Wait` returns for a dead process and closes our ends of its pipes, so what
was still in them is lost, while what a scanner had taken is not.

**ExecService** (`server/service.go:90-460`). `pc[h]` is a handler's place in
its request. `exec.start` is StartChecks, StartSpawns | StartFails, StartCounts
| StartAbandons, StartRegisters, StartWritesStdin, StartSupervises; the waiter
goroutine is WaiterReaps, WaiterCaptures, WaiterPublishes, WaiterRemoves,
WaiterDiscounts. A request is cut wherever another goroutine may run and it
matters. A request that fails before it has changed anything (unknown session,
policy, arguments, a second `session.close`) is not a step. `ContextKill` is
`exec.CommandContext`: here the context of a child may end at any time. Writing
to stdin ends when the child reads the data or is gone; data that fits the pipe
never waits ("small").

**PtyManager** (`exec/pty.go`). `ptys` is the table; per terminal the child
(`term`), the master side of the terminal (`ptyFile`), and the places of the two
goroutines. `Close` is two steps, the signal and the closing of the file; `wait`
is four: the child is reaped, `pty.exit` published, the file closed, the entry
removed. `pty.output` may follow `pty.exit`. A terminal has no deadline, no
output limit and no place in the session's counter (`service.go:699-726`).

**Program** (`cmd/rexd/main.go`, `config/config.go`, `server/http_server.go`,
the transports, and the pty handlers of `service.go:699-760`). It composes
ExecService and PtyManager. `Mode` is how `main` chooses a transport from the
configuration file and the flags; a handler is the stdio loop, a WebSocket
connection, or an HTTP connection that posts one request after another.
`ChildContextDone` says when the context of a child has ended: with SIGTERM on
stdio (`main.go:40`), with the connection's loop on a WebSocket
(`wsjsonrpc/handler.go:42`), with the answer or the client on a POST
(`httpjsonrpc/handler.go:24`). A stdio server ends with its input, an HTTP server
with the signal and without waiting for requests (`http_server.go:22-26`); the
children stay. `ExecStep(h)` is a `HandlerStep(h)` of ExecService under those
conditions, so that the whole program implements ExecService (proved, section 5).

**EventBus** (`events/bus.go`). A publisher holds the read lock from
PublishBegins to PublishEnds, one PublishOffers for every subscription in
between; Subscribe and Unsubscribe need that nobody is publishing. A "job" is
the set of goroutines of one process taken as one publisher, whose last
notification is `exec.exit`.

**Connections** (`stdio_server.go`, `wsjsonrpc/handler.go`). `pc[c]` is a
loop's place; `fwd[k]` that of a forwarding goroutine; `writing[c]` who is
inside a write. A request is read (`Handle`), and `handle()` may then return or
not (`Returns`). The stdio encoder has a mutex; on a WebSocket two writes may
overlap (`WriteBegins`). gorilla/websocket has one buffer for both and panics if
it notices: a write that met another (`mixed[c]`) may put something on the
connection that is no message, and is not counted on the `wire`, or panic. The
panic of the loop is recovered by net/http, and its deferred functions run
(`RespondPanics`); that of a forwarder ends the program (`ForwardPanics`,
`panicked`). Clients read, stop reading, or go away, at any time, and may send
what is not JSON. The program runs stdio or HTTP and never both (`Init`).

**LossyFifo** is the abstract specification of a subscriber's view: of what is
offered, some is delivered, in order, each once. `ConnectionClaims` maps
`Connections` to it (`Fifo == INSTANCE LossyFifo WITH ...`): what is offered is
the history of PublishOffers; what is delivered is what the connection's wire
holds of the session (`Delivered`, by `OfJobs`); the place delivery has come to is
where the last delivered notification stands among those offered (`LastPlace`).

**FileService** (`fs/service.go`, `service.go:462-690`). Names map to inodes,
inodes to contents and modification times; `tmp[p]` is the name
`<p>.rexd.tmp`. Write and Edit are split into their system calls: stat, open
and truncate the temporary file, write it, rename, stat again; a patch runs its
hunks one after another over the same steps. Any call may fail (`Fault`): with
no effect (`CallFails`), with a part of the text written (`WriteFails`), or, the
first stat of a write, by being taken for "no such file" (`StatFails`); as in the
code, nothing is taken back. `Crash` is the end of the program between any two
steps. `remains` are the temporary files that a failure or a crash has left
behind; crashes and failures are bounded by `MaxCrashes` and, together, by
`MaxTroubles`. Contents are short sequences of blocks, one `write` call
writes all of one. `Tick` lets the clock go on by a millisecond, the resolution
of `expected_mtime`.

**AtomicFiles** is the abstract specification of what the clients of a replaced
file are promised ("atomic replace", spec:265 and 646): a register per file. A
write takes effect in one step between its request and its answer, or not at all,
and an error may be the answer to either; a read answers what the register held at one moment of it; when
the program dies requests end unanswered and the registers keep what they hold.
`FileClaims` maps FileService to it for the paths that one client replaces
(`Registers`; `Replacement == INSTANCE AtomicFiles WITH ...`): the register is
the content of the inode that the path names (`ContentOf`), a request is
"writing" until its rename and "written" after it, a read has taken its content
when it has opened the file (`Phase`, `Job`), and the last answer is what the
handler has told its client (`LastAnswer`). Temporary files, inodes, times and
the requests for other paths are not seen through it.

**PathPolicy** (`policy/policy.go`, `service.go:214-244`). A cleaned path is the
sequence of its components; a path as written may begin anywhere and contain
`.` and `..`. `Clean` goes through it a component at a time (`Enter`).
`ResolvePath` joins, cleans and compares, and no symbolic link is resolved, as in
the code. `SessionCwd` is the working directory of a session. `TmpOf` is the
temporary file next to a path; that `TmpName` of a name is another name is all
that is known of it.

**PatchText** (`fs/patch.go:20-177`). `ParsePatch` reads the text a line after the
other (`ReadText`); a line is its kind, its content and, for a header, its path.
What the parser makes of a line depends on the place it has reached
(`ReadLine`). A line is a text with white space before and after it. The texts
and the white spaces are constants, `LineText` and `Spaces`, of which only the
empty ones are known.

**PatchWriting** is the other side of the parser: the text that hunks are written
as (`Body`), and the relation `Writes` between a text and the hunks meant by it. A
text may have anything before its first marker and after its last, blank lines
and lines of no kind between any two lines of the body, and lines of three stars
where a header or the end follows; only between a header and the target of its
move nothing may stand. `HasPatch` says that a text is a patch at all. It models
no code; what a client may write is spec:368-374.

**PatchApply** (`fs/patch.go:179-353`). The placing of chunks, in which each
search starts where the last ended, and the making of the replacements from the
last to the first. The comparisons of `seekSequence` are those of lines as
they are, without the white space after them, and without any (`Same`).

**PatchRequest** (`service.go:592-697`). One `fs.patch` request from its text to
the tree it leaves: the text is parsed, every hunk's path resolved, and hunks
are applied one by one through PatchApply. An update reads (`ReadUpdate`),
derives, writes its target through the temporary file of it (`WriteUpdate`) and,
if it is a move, removes its source (`RemoveSource`). Each call may fail, and what
it may have done by then stays in the tree: a part of an added file (`PartsOf`), a
part of the temporary file or all of the target (`HalfWritten`), the target next to
the source. `was` is the tree that a hunk began with. A request that is cut off by
a crash leaves what one leaves that fails there. It is alone with its files; the same
hunks among other requests are in FileService. `Splicing` has the operations on
sequences that FileService and its claims need.

## 3. The runs

All checked with TLC; a passing run finishes without an error.

| run | what it shows | bounds, and why they are enough |
|---|---|---|
| `exec_handlers` | `TypeOK`, `CountMatches`, `OvershootIsBounded`, `TimeoutKillIsReported`, `GoneMeansAnnounced`, `NoStrayChild` | two handlers, three processes, a session with limit 1, no output. Limit 1 and two handlers admit 2 children; the third process would be the one too many. One session, so that it is closed under its requests; payloads block on stdin. 2.4 million states |
| `exec_live` | `ReportedTimeoutIsReal`, `SeqIsStrict`, `OutputIsCapped`, `EveryChildIsReaped`, `TimerIsReleased` | one handler (a stdio server), one process, two streams of two lines, a limit of two lines in all: the two readers meet at the limit. Under fairness. 350 000 states |
| `connections` | `TypeOK`, `OneWriter`, `NoSendOnClosed`, `InOrderAtMostOnce`, `SlowClientDoesNotBlock`, `AcceptedIsDelivered`, `HangupCleansUp` | two connections, one of each transport, of which `Init` has one or the other; two publishers, one of two notifications and one of one, channels of capacity one: full after one, two publishers offer at once. Two subscriptions are room for the second one that the code never makes, and one is enough for the loop and a forwarder to write at once. Under fairness. 81 000 states |
| `files_shared` | `TypeOK`, `NoPartialFile`, `NoPartialRead`, `NoTmpLeft`, `WritesAreAtomic` | two handlers with two requests each; one replaces both paths with `fs.write`, the other adds, replaces and deletes one of them with `fs.patch`, so there is a path of one writer and a path of two; files of two blocks at first, requests of one block and of two, so that a content can be part of another; one call that fails or one crash, and requests after it, which run over the remains. 2.7 million states; appends are in `files_one`, and in the theorems |
| `files_one` | `MoveKeepsContent`, `GuardHolds` | one handler with every method, three requests, patches of two hunks, two paths, a call that fails, two milliseconds: a write whose last stat fails leaves the client with a stale mtime for its next guarded write. To one handler a crash is no more than a call that fails |
| `patch` | `PatchTypeOK`, `ChunksInOrder`, `UpdateMeansPatch`, `ParsesWhatWasMeant`, `PatchIsAPrefix`, `FailedHunkKeepsFiles`, `OnlyInRoots` | every file of up to three lines over four kinds of line under every patch of up to two chunks with up to two old lines (two chunks are enough for an order and an overlap); every patch of up to three hunks out of eleven over two files and the temporary file of one, with adds, deletes, moves onto another file, onto itself, out of the roots and from the temporary file of the target, and each call failing; working directories in and out of the roots, and a root that is a file; patches with a line that means nothing at every place, and texts that are no patch. 1.5 million states |
| `program` | `ProgramTypeOK`, `PtyGoneMeansAnnounced`, `ChildOutlivesRequest`, `ClosedTerminalEnds`, `LeftChildrenEnd` | two handlers, in the stdio mode one, over HTTP a WebSocket connection and a connection that posts; one process and one terminal of which one is started (the two meet nowhere but in a handler and its context); data for the child that fits the pipe and data that does not; a terminal line. Two handlers close or feed the same terminal. Under fairness. 200 000 states |
| `claim_reaped` | violates `EveryChildIsReaped` | as `exec_live`, with a second handler |
| `claim_exit_terminal` | violates `ExitIsTerminal` | one process, one line |
| `claim_exit_seen` | violates `ExitIsSeen` | one notification |
| `claim_atomic` | violates `EveryFileIsWhole` | two handlers with one `fs.write` each of one path |
| `claim_close` | violates `ClosedSessionEndsItsChildren` | one process, one handler; under fairness, with the deadline left armed as in `exec_live` |

Deadlock checking is off everywhere: all models stop when their bounds are used
up, and a program really ends.

`MaxConcurrentSessions` is 0 (unlimited) in the runs: `HasRoom` and the entry
are one critical section, so there is nothing to interleave. The theorems are
for every value of it.

`UpdateMeansPatch` compares the file that the code makes with what chunks mean:
every way to walk down the file once, finding each chunk's context and old lines
below the chunk before (`Walks`), whatever the search prefers. It is stated for
patches in which chunks that only add lines come last; of the others it does not
hold (see below). `ParsesWhatWasMeant` compares what the parser makes of a text
with the hunks it was written for (`PatchWriting!Writes`), and has it refuse what
is no patch (`HasPatch`). It is stated for hunks without an old line that reads
`*** End Patch`; of the others it does not hold either.

`NoStrayChild` names the one way out of supervision there is, the child that
`IncProcess` refuses (violation 1): everything else that other requests, the
waiter and the deadline do between the steps of `exec.start` leaves a child in
somebody's care.

### The five violations

They are recorded under `findings` in `PROJECT.json`.

1. **A child nobody looks after** (`claim_reaped`, `service.go:346`).
   `exec.start` starts the child, `session.close` on another connection removes
   the session, `IncProcess` fails and the request returns an error. The child
   runs on without a deadline, a waiter or an id. With the single handler of a
   stdio server this cannot happen; that is what `exec_live` shows.
2. **Output after exec.exit** (`claim_exit_terminal`, `service.go:388`). The
   waiter does not wait for the readers. spec:460 says that `exec.exit` is
   terminal.
3. **An exit nobody hears of** (`claim_exit_seen`, `stdio_server.go:39`). A
   connection subscribes after it has answered the `exec.start`; a process that
   ends before that is not announced to the client that started it.
4. **A mixed file** (`claim_atomic`, `fs/service.go:91`). Two replacing writes
   of a path use the same temporary file; one may rename what the other has
   half written.
5. **A closed session with children** (`claim_close`, `service.go:276`).
   `session.close` forgets the table entry and does nothing to the processes;
   `detach` is stored (369) and never read. spec:138 says that it "terminates any
   attached child processes unless detached" (also spec:773). What does end a child
   is its own end, its deadline, or its context, when its client goes.

### Differences between the code and the documents, without a run

Met while reading; each is evident from the lines given.

* spec:517 calls `max_processes_per_session` a limit; on several connections it
  may be exceeded by one for each further handler (298 and 346). The run and
  the theorem state what does hold.
* The child of an `exec.start` that was posted runs under the context of its
  request (322), which net/http ends when the POST has been answered
  (`httpjsonrpc/handler.go:24`): it is killed at once. No document says how long
  it should live; `ChildOutlivesRequest` holds on the other transports.
* `exec.wait` of a process whose waiter has finished answers "process not
  found" instead of a status (spec:188); of two waits at once, one gets the
  status and the other runs into its timeout.
* spec:196 lists a status `timed_out`; `Manager.Wait` never sets it
  (`exec/manager.go:147-171`), a timeout shows in `timed_out` only.
* On a WebSocket, responses (`handler.go:45`) and notifications (59) are
  written without a mutex; the library demands one writer. `OneWriter` holds for
  stdio; `AcceptedIsDelivered` and `InOrderAtMostOnce` leave out of a WebSocket
  what was written while another wrote, and a forwarder that the library catches
  at it takes the program down.
* A WebSocket handler that waits in `handle()` for a child to read (376, 460,
  `pty.go:147`) never comes to its deferred clean-up, also when its client has
  gone: its subscriptions, forwarders and children stay. `HangupCleansUp` and
  `LeftChildrenEnd` name this exception.
* Nothing removes `<path>.rexd.tmp` when writing or renaming it fails
  (`fs/service.go:92-97`), and nothing removes a part of a file that could not be
  created whole (98-106). `NoTmpLeft` and `FailedHunkKeepsFiles` say what stays.
* `GuardHolds` is for a path that one client writes: `Stat` and `Rename` are
  separate steps, so of two writers with the same `expected_mtime` both may
  succeed. Two versions within one millisecond have the same mtime.
* `fs.write` with `expected_mtime` of a file that has been deleted creates it
  (`fs/service.go:75`); `fs.edit` reports a conflict (142).
* Mode `create` does not refuse an existing file, and `atomic` is not a
  parameter: always on, except for an append (spec:263-265, `service.go:507`).
* `fs.edit` looks for a second match after the end of the first
  (`fs/service.go:166`), so two overlapping matches count as one although
  spec:347 wants exactly one location.
* A chunk that only adds lines is placed at the end of the file wherever it
  stands in the patch; the replacements are then not sorted (`patch.go:233-239`)
  and a later one may be refused as out of range (189-196) or land beside its
  place. `UpdateMeansPatch` is for patches whose additions come last.
* `*** End of File` never marks a chunk: a chunk ends at any line with three
  stars (`patch.go:122-127`). The chunks that follow it are not read, and the
  hunk is written as if it had none.
* `*** End Patch` is recognised with white space before it (`patch.go:48`), so a
  line of context with this text ends the patch without an error. A line of a
  chunk that has lost its leading space, such as a blank one, is skipped.
* Of several blank lines at the end of a file one is taken for the final
  newline (`patch.go:203`), as is the last line of an added file if it is blank
  (`service.go:633`). CRLF in a file is rewritten to LF.
* The target of a move is overwritten if it exists (`service.go:670`). fs.patch
  removes what `*** Delete File` names with `os.Remove`, also an empty directory.
* The policy allows of the root `/` nothing but itself, because it compares with
  the root and a separator, `//` (`policy.go:63`). The roots a session asks for
  (`service.go:220-232`) are reported to the client and give its working
  directory, but a request is held to the roots of the configuration.
* The README's HTTP example (`README.md:97`) gives `--http` and a file that has
  stdio on, or leaves it at its default, which is on; `main.go:43` then runs
  stdio.
* spec:771-773 recommends that processes die on disconnect; a stdio server that
  comes to the end of its input leaves its children running, and does not react
  to SIGTERM before that (it does kill them).
* spec:757 gives every process a deadline and a limit; a terminal has neither
  and is not counted.
* Requests that fail are not written to the audit log (`service.go:187`).
* `fs.glob` cuts the list of matches before it drops those the policy forbids,
  so it may return fewer than there are (`fs/service.go:248`).

## 4. Fairness

* Every goroutine of the program that can take a step eventually does: weak
  fairness of `Waiter(p)`, `Timer(p)` and a request that has begun
  (`ExecClaims!Goroutines`), of `LoopStep(c)`, `Forwarder(k)`, `Publish(j)`
  (`Connections!Goroutines`), of a terminal's reader and waiter, a handler in a
  request, the loop of a connection that has lost its client, and the goroutine
  of `os/exec` that kills a child when its context has ended
  (`ProgramClaims!Progress`). The Go scheduler is preemptive and fair. Readers of
  pipes are not assumed fair: no property of exec needs them.
* A write to a child's stdin that does not fit the pipe, or one to a terminal,
  must end only when the child is gone or the terminal closed (`StdinFails`,
  `TermGone`): a child need never read. So `handle()` need not return
  (`Connections!Returns` has no fairness), and where a handler may hang in it the
  property says so (`LeftChildrenEnd`, `HangupCleansUp`).
* The check of the WebSocket library need not notice that two writes overlap, and
  no call fails because it must.
* No client sends a request, reads, or goes away because it must; no child ends
  by itself; **time is not forced**, so `EveryChildIsReaped` has the
  alternative that a deadline stays armed for ever.
* The mutex of the stdio encoder is strongly fair (`SF_vars` on acquiring it):
  Go's `sync.Mutex` hands the lock to a waiter that has waited for more than a
  millisecond. Without that, one forwarder could be overtaken for ever.

## 5. What is proved

Eight modules are checked by TLAPS; SplicingProofs has only lemmas for the
others. The theorems are about the specifications for every value of the
constants that satisfies the named assumptions of the modules: finite sets of sessions, processes, terminals, handlers and paths,
natural limits and bounds, model values outside the sets they stand beside,
channels and jobs with at least one place and one notification, roots that are
sequences of paths, names whose temporary name is another, texts of lines and
white spaces among which is the empty one.

| module | theorem | states |
|---|---|---|
| ExecServiceProofs | `TypeCorrect` | `Spec => []TypeOK` |
| | `CountIsExact` | `Spec => []CountMatches` |
| | `OvershootBounded` | `Spec => []OvershootIsBounded` |
| | `TimeoutsAreReal` | `Spec => []ReportedTimeoutIsReal` |
| | `TimeoutsAreReported` | `Spec => []TimeoutKillIsReported` |
| ExecEventProofs | `GoneIsAnnounced` | `Spec => []GoneMeansAnnounced` |
| | `NoChildIsStray` | `Spec => []NoStrayChild` |
| | `SeqStrictlyRises` | `Spec => []SeqIsStrict` |
| | `OutputCapped` | `Spec => []OutputIsCapped` |
| ConnectionProofs | `TypeCorrect` | `Spec => []TypeOK` |
| | `NothingIsSentOnClosed` | `Spec => []NoSendOnClosed` |
| | `WritersExclude` | `Spec => []OneWriter` |
| | `ImplementsFifo` | `Spec => InOrderAtMostOnce`, which is `Fifo!Spec` of LossyFifo |
| ProgramProofs | `ImplementsExec` | `ProgramSpec => Spec` (of ExecService) |
| | `ProgramTypeCorrect` | `ProgramSpec => []ProgramTypeOK` |
| | `ProgramCountIsExact` | `ProgramSpec => []CountMatches` |
| | `TerminalsAreAnnounced` | `ProgramSpec => []PtyGoneMeansAnnounced` |
| | `ChildrenOutliveRequests` | `ProgramSpec => []ChildOutlivesRequest` |
| FileProofs | `FilesTypeCorrect` | `Spec => []TypeOK` |
| | `NoTmpIsLeft` | `Spec => []NoTmpLeft` |
| | `MovesKeepContent` | `Spec => MoveKeepsContent` |
| | `GuardsHold` | `Spec => GuardHolds` |
| | `FileIsWhole` | `Spec => []NoPartialFile` |
| | `ReadIsWhole` | `Spec => []NoPartialRead` |
| | `WritesTakeEffectAtOnce` | `Spec => WritesAreAtomic`, which is `Replacement!Spec` of AtomicFiles |
| PatchProofs | `PatchTypeCorrect` | `PatchSpec => []PatchTypeOK` |
| | `PlacedInOrder` | `PatchSpec => []ChunksInOrder` |
| | `PatchLeavesAPrefix` | `PatchSpec => []PatchIsAPrefix` |
| | `FailedHunkLosesNothing` | `PatchSpec => []FailedHunkKeepsFiles` |
| | `PatchStaysInRoots` | `PatchSpec => []OnlyInRoots` |
| PatchMeaningProofs | `UpdatesAsMeant` | `PatchSpec => []UpdateMeansPatch` |
| | `ReadAsMeant` | `PatchSpec => []ParsesWhatWasMeant` |

The argument:

* `TypeInv` adds to `TypeOK` of ExecService that a handler in the middle of a
  request has a session and a process (`HandlerOK`), without which the tables
  could be indexed with a model value.
* **CountIsExact.** `CountMatches` is not inductive: when the waiter gives a
  slot back, nothing says that no second request or waiter is about to give
  back the same one. `Ownership` says it: a child that is being started belongs
  to exactly one request, has no waiter yet and has its owner set; a child that
  was not started has no owner; a waiter is past its wait exactly when the child
  has been reaped; somebody is in charge of each unreaped child, unless its
  session is gone. `CountInv` adds that an id not issued yet has count zero, so
  a session opens with the right count. Each step then changes `Charged(s)` and
  `processCount[s]` together, or neither (`KeepsSlots`).
* **OvershootBounded.** `AdmitInv` bounds the counter *and* the requests that
  have passed the test and not been counted, by limit + handlers - 1. A request
  is admitted while the counter is below the limit, and at most the other
  handlers are admitted with it; counting moves one from the second term to the
  first. Children that are not reaped and not counted all belong to admitted
  requests (`UncountedChildren`), from `Ownership`.
* **Timeouts.** `FreshAtFirst` (until a process is registered its flags and
  counters are clear), `MarkedThenKilled` (a kill by the deadline goroutine comes
  after its mark) and `MarksAreReal` (a mark not yet copied, on a process not
  yet captured, has a reason: the deadline expired or the limit was exceeded;
  afterwards cancellation may mark it, too late to be reported). The order that
  matters is that `Manager.Wait` copies the flag *before* it cancels the
  deadline.
* **GoneIsAnnounced.** That a process has left the registry says little about
  what was published. `GoneInv` follows the waiter: until it removes a process the
  process is registered, from the end of `exec.start` on; when it has captured the
  status the exit channel has it; from the removal on `exec.exit` is published.
* **NoChildIsStray** puts together who is in charge of a child (`Ownership`), when
  it is registered (`GoneInv`) and why a deadline ends (`TimeInv`), and adds
  `CareInv`: the deadline goroutine leaves only a child it has killed
  (`TimerOutlivesChild`); what has a waiter has a deadline and its goroutine
  (`TimedWhileWatched`), because `exec.start` sets the one before it starts the
  others (`ArmedByStart`); and what is registered without a waiter still has
  the request that starts it (`HandedOver`). A request that leaves a child behind
  is then one whose session has gone, and that child was never registered.
* **SeqStrictlyRises.** The number is drawn under the lock and the line
  published outside of it. `SeqIsDrawn` has both sides: nothing published of a
  stream has a number above the last one drawn, and while its reader is about to
  publish, none has that number yet.
* **OutputCapped.** Two readers may both have counted a line and neither
  published it, so the lines published are not compared with the counter alone:
  `GrantsAreCounted` bounds the lines published *and* the readers about to publish
  one, by the counter and by the limit.
* **NothingIsSentOnClosed.** That no pending channel is closed is not inductive
  by itself. `Offering` adds that whoever has channels left to offer to is
  publishing, and that these channels are still in the table; nobody
  unsubscribes while somebody publishes, and what is closed is not in the table.
* **WritersExclude** follows from who may be inside a write: the loop only at
  "write", a forwarder only at "write" of its own connection, and on stdio
  somebody enters only where nobody is.
* **ImplementsFifo** is a refinement of LossyFifo under the mapping of
  `ConnectionClaims`. `FifoInv` has three parts. What is offered to a channel is
  offered once (`OnceOffered`), because a job's notifications are numbered and a
  channel pending for a job has not had the current one (`Drawn`, `Targets`). A
  connection has at most one subscription to a session, and nothing else reaches
  its wire (`Table`, `OnWire`), so what the wire holds of a session is what one
  forwarder wrote. And of each subscription, what is held and then what is in its
  channel is a part of what was offered, in order, after the place that delivery
  has come to (`InOrder`). Then a step of a publisher sends or stutters, the end
  of a forwarder's write delivers if it met no other, and every other step, a
  panic included, stutters.
* **ImplementsExec** is a refinement with the identity as its mapping: a step of
  a transport, a client, a context or a terminal either is a step of ExecService
  under more conditions or leaves its variables alone. All theorems about
  ExecService hold of the program by it; `CountMatches` is stated.
* **TerminalsAreAnnounced.** `WaiterInOrder` ties the place of a terminal's
  waiter to the table, the child, `pty.exit` and the file. Requests may kill the
  child and close the file at any time, which only ever helps; `Busy` says that
  a request is about a terminal.
* **ChildrenOutliveRequests.** A child killed by its context was started by a
  handler and has a reason for it (`CutForAReason`); a connection's loop returns
  only after its client has gone (`ReturnedAreGone`); and no step takes a reason
  back, or gives a started child another starter (`Onwards`).
* **ProgramTypeCorrect** takes the types of ExecService from `ImplementsExec` and
  the terminals' from `TermInv`. Two parts of it are more than types: a handler
  runs one request at a time, of exec or of pty (`OneRequestKept`), and every child
  has the handler that started it (`StartersStayKnown`).
* **Files.** Four invariants, each on the one before. `TypesInv`: types, that a
  call fits the place of its handler, and that no inode has two names. `ApartInv`:
  an inode that a handler has open belongs to the path of its request, so
  requests for other paths leave it alone, also when they rename. `WriterInv`: on
  a path with a single writer (`Sole`) the temporary file is empty when it is
  written, is the request's data when it is renamed, and after that is the file;
  and a guard that held at the stat still holds. `MovesKeepContent` and
  `GuardsHold` follow from it, for any number of handlers on other paths.
  `SentInv`: on a path that is only replaced everything in these steps was sent
  by a client, so that what stands there is whole, and so is what an open file
  holds. A crash ends all handlers, and a failed call its request; the next write
  truncates what it has left.
* **NoTmpIsLeft** needs the types alone. The request that waits for a temporary
  file goes on waiting until it has renamed it (`WaiterStays`), or fails and leaves
  it among the `remains` (`WaiterFails`), where it stays until it is gone
  (`RemainsStay`); another one that renames it first takes it from both.
* **WritesTakeEffectAtOnce** is a refinement of AtomicFiles under the mapping of
  `FileClaims`, on top of `SentInv`. On a path that is only replaced and by one
  client, nothing but that client's rename changes the content the path names
  (`FileStays`, `FileReplaced`), and nothing changes what a read has opened
  (`OpenStays`): the truncating and writing goes on in the temporary file, which
  `ApartInv` and `WriterInv` keep away from both. So a rename is `TakesEffect`, with
  the data of the request (`MapsStep`); a request that arrives is `Read` or `Write`
  (`MapsStart`), an answer or an error `Answers` or `Refuses` (`RequestEnds`), a
  crash `Dies`; every other step stutters. That the path's client never patches or
  moves is part of the induction (`MethodKept`).
* **Patches.** `DerivationInv` says that one replacement is kept for every chunk
  placed, each ending where the search has come to at the latest; from this the
  replacements are in order. `PatchInv` has two trees, the one that the hunk under
  way began with (`was`) and the present one: they are the same but while a move
  has written its target and not removed its source (`HalfMoved`), or a hunk has
  failed. `PrefixInv` says of every path that in the first of them it is as the last
  hunk on it has left it, or as it was (`Stands`); `FailedHunkKept` what the calls of
  one hunk may have changed between the two, call by call.
* **UpdatesAsMeant.** `MeantInv` gives for the replacements found so far a
  *trail*, the walks over one chunk, two chunks and so on, the last of which has
  come as far as the search (`IsTrail`); each leg is one of those the next chunk
  means. Replacements are then made from the last to the first, so the invariant
  has to speak of a file that is half done: with `i` of them still to make, it is
  the old file as far as walk `i` has copied, and after that what the last walk
  writes (`RestAt`). `MakeRest` is the step from `i` to `i - 1`; it is where
  overlapping or unsorted replacements would fail, and where the code's test
  against running off the file is shown to never fire.
* **ReadAsMeant** has three parts. The *tidy* text, the lines of the body alone, is
  read as its hunks: for each kind of line, chunk and hunk there is a lemma that
  says which state of the parser it leads to (`ReadsChunk`, `ReadsHunk`,
  `ReadsBody`). A written text is then followed line by line beside the tidy one:
  `Agrees` relates the two states, a line of the body takes both on
  (`LineAgrees`) and a line that means nothing leaves them related
  (`NoiseAgrees`); it is here that a line of three stars in the middle of a chunk,
  or anything before the target of a move, would fail. Last, an
  invariant of the reading of any text (`Seen`) gives that what is read as a patch
  has its markers, a header between them, and no header without a path
  (`ReadIsPatch`).
* **PatchStaysInRoots.** `KeepsOutside` holds of the tree after every hunk:
  what is put or taken is at a path the policy has allowed after cleaning it, and
  that path is a root or below one (`ResolvedIsBelow`); the temporary file of it is
  next to it, so below the root too unless it is the root itself.

TLC checks the same formulas in the runs of section 3.

**Recursion.** What a recursive function gives for every input needs an
induction. The library's theorems for that take a predicate as a parameter, which
the prover cannot instantiate; `SplicingProofs` proves induction for a *set* of
numbers instead (`NatInductionOnSets`) and from it that a function defined by
recursion over `0..n` exists (`RecursionExists`). `Clean`, `ReadText`,
`OfJobs`, the walks of `PatchClaims` and the concatenation in `Substitute` are
recursive functions, and are reasoned about with these two.

**Only model-checked:** everything live (`EveryChildIsReaped`,
`TimerIsReleased`, `SlowClientDoesNotBlock`, `AcceptedIsDelivered`,
`HangupCleansUp`, `ClosedTerminalEnds`, `LeftChildrenEnd`), since fairness and
ENABLED are outside the reach of the proofs. Every safety property of a passing
run has a theorem. What the five violations refute is not proved, being false;
their runs give the counterexamples.

## 6. What is not modelled

* **Audit and protocol types**: appending a line under a mutex, declarations.
* **Configuration** beyond the choice of the transport: the values of limits
  are constants.
* **HTTP routing**, the negotiation of a WebSocket, and SSH around stdio.
* `fs.list`, `fs.glob`, `fs.stat`, `session.info` and `pty.resize` change nothing
  that the models keep. Parent directories, offsets and sizes of reads,
  encodings and permissions are left out of `fs.*`.
* **Symbolic links and directories**: the policy does not look at them, and the
  files of the models are regular ones.
* **Process ids** are times in nanoseconds (`service.go:360`); two that
  coincide are not modelled.
* **Descendants of a child**: one that holds on to the stdin pipe lets a write to
  it wait after the child has gone.
* **What a panic of a forwarder does to processes and files**: the end of the
  program in Connections only; in the other models it is a crash like any other.
* **A part of a file that ends inside a line** is, in PatchRequest, one that ends at
  a line; in FileService contents are blocks.
* `exec.kill` with a signal that the child survives has no effect on the state
  and is not a step.

## 7. Plan

Done, in this order: SessionManager, ExecManager, ExecService and its claims and
proofs; EventBus, Connections and the implementation of LossyFifo; FileService;
PatchApply; then PtyManager and Program, PathPolicy, PatchText and PatchRequest,
ConnectionProofs, ProgramProofs and PatchProofs.

Then the proofs: ExecEventProofs, `ProgramTypeCorrect`, FileProofs, the rest of
PatchProofs and PatchMeaningProofs, the implementation of LossyFifo; last,
PatchWriting and `ReadAsMeant`, AtomicFiles and its implementation,
`NoStrayChild` and its proof; then the failures of system calls in FileService and
PatchRequest with `FailedHunkLosesNothing`, and writes on a WebSocket that meet.

What could come next:

1. The theorems about ExecService that are stated of the program only through
   `ImplementsExec` (all but `CountMatches`), as corollaries in ProgramProofs.
2. AtomicFiles for files that are also edited: an edit reads and writes in two
   steps, so it is a register with compare-and-set only when it is guarded, and
   then only within the resolution of the times.

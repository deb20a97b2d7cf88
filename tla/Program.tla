------------------------------- MODULE Program -------------------------------
(***************************************************************************)
(* The rexd program: how it starts and ends (cmd/rexd/main.go,             *)
(* internal/config/config.go, internal/server/http_server.go), the clients *)
(* behind its request handlers, the terminal methods, and the contexts of  *)
(* requests, which are what ends the children a client leaves behind.      *)
(*                                                                         *)
(* ExecService lets the context of a child end at any time; here it ends   *)
(* when the transport ends it.  A handler is the loop of the stdio server  *)
(* or of a WebSocket connection, or a client's HTTP connection, which      *)
(* carries one POST request after another.                                 *)
(***************************************************************************)
EXTENDS ExecService, PtyManager

CONSTANTS
  StdioLoop,         \* the handler there is on stdio
  HttpTransport,     \* of the handlers there are over HTTP: "ws" or "post"
  MaxChildren,       \* bound: the children that are started
  NoTerm, NoHandler  \* model values

ASSUME ProgramAssumption ==
  /\ StdioLoop \in Handlers
  /\ HttpTransport \in [Handlers -> {"ws", "post"}]
  /\ MaxChildren \in Nat
  /\ NoTerm \notin Terms
  /\ NoHandler \notin Handlers
  /\ Procs \cap Terms = {}

Children == Procs \cup Terms

VARIABLES
  transport,  \* of a handler: "stdio", "ws", "post"; "none": there is no such
  client,     \* "here" or "gone"
  returned,   \* the handlers whose loop has returned
  ptyPc,      \* "idle", or the terminal request the handler is in
  ptyOf,      \* the terminal it is about
  starter,    \* the handler that started a child
  answered,   \* the children whose request has been answered
  cutOff,     \* history: the children that were killed by their context
  told,       \* SIGTERM or SIGINT has come
  ended       \* main has returned or exited

progVars == <<transport, client, returned, ptyPc, ptyOf, starter, answered, cutOff, told, ended>>
allVars  == <<vars, ptyVars, progVars>>

\* The type invariant: in particular a handler runs one request at a time, and
\* a child that exists was started by somebody.
ProgramTypeOK ==
  /\ TypeOK
  /\ PtyTypeOK
  /\ transport \in [Handlers -> {"stdio", "ws", "post", "none"}]
  /\ client \in [Handlers -> {"here", "gone"}]
  /\ returned \subseteq Handlers
  /\ ptyPc \in [Handlers -> {"idle", "input", "close"}]
  /\ ptyOf \in [Handlers -> Terms \cup {NoTerm}]
  /\ starter \in [Children -> Handlers \cup {NoHandler}]
  /\ answered \subseteq Children
  /\ cutOff \subseteq Children
  /\ told \in BOOLEAN
  /\ ended \in BOOLEAN
  /\ \A h \in Handlers : pc[h] = "idle" \/ ptyPc[h] = "idle"
  /\ \A p \in Procs : os[p] # "none" => starter[p] \in Handlers
  /\ \A t \in Terms : term[t] # "none" => starter[t] \in Handlers

-----------------------------------------------------------------------------
(* The start. *)

\* What main reads in the configuration file and in the flags: run on stdio?
\* listen for HTTP?
Settings == [stdio : BOOLEAN, http : BOOLEAN]

\* Without a file, stdio is on.
DefaultConfig == [stdio |-> TRUE, http |-> FALSE]

\* A flag adds to the file and takes nothing back; stdio comes first.
Mode(file, flags) ==
  IF file.stdio \/ flags.stdio THEN "stdio"
  ELSE IF file.http \/ flags.http THEN "http" ELSE "refused"

\* The handlers a mode has.
Serves(mode) ==
  \/ /\ mode = "stdio"
     /\ transport = [h \in Handlers |-> IF h = StdioLoop THEN "stdio" ELSE "none"]
  \/ mode = "http" /\ transport = HttpTransport
  \/ mode = "refused" /\ transport = [h \in Handlers |-> "none"]

ProgramInit ==
  /\ Init
  /\ PtyInit
  /\ \E file \in Settings \cup {DefaultConfig}, flags \in Settings :
       /\ Serves(Mode(file, flags))
       /\ ended = (Mode(file, flags) = "refused")
  /\ client = [h \in Handlers |-> "here"]
  /\ returned = {}
  /\ ptyPc = [h \in Handlers |-> "idle"]
  /\ ptyOf = [h \in Handlers |-> NoTerm]
  /\ starter = [c \in Children |-> NoHandler]
  /\ answered = {}
  /\ cutOff = {}
  /\ told = FALSE

-----------------------------------------------------------------------------
(* The context of a request. *)

\* Is the context done that a request of h runs in?  A WebSocket connection is
\* hijacked, so net/http does not notice when its client goes.
ContextDone(h) ==
  \/ transport[h] = "stdio" /\ told
  \/ transport[h] = "post" /\ client[h] = "gone"

\* Mutant: every message of a WebSocket connection has a context of its own.
ChildContextPerMessage(c) ==
  LET h == starter[c] IN
  /\ h \in Handlers
  /\ \/ ContextDone(h)
     \/ transport[h] = "ws" /\ (h \in returned \/ c \in answered)
     \/ transport[h] = "post" /\ c \in answered

\* Mutant: a WebSocket connection gives its requests no context.
ChildContextOfProgram(c) ==
  LET h == starter[c] IN
  /\ h \in Handlers
  /\ \/ ContextDone(h)
     \/ transport[h] = "post" /\ c \in answered

\* Is the context done that a child was started in?  net/http ends the context
\* of a request when its handler returns: for a POST when it has been
\* answered, for a WebSocket connection when the loop returns.
ChildContextDone(c) ==
  LET h == starter[c] IN
  /\ h \in Handlers
  /\ \/ ContextDone(h)
     \/ transport[h] = "ws" /\ h \in returned
     \/ transport[h] = "post" /\ c \in answered

\* exec.CommandContext kills the child.
CutOffProcess(p) ==
  /\ ChildContextDone(p)
  /\ ContextKill(p)
  /\ cutOff' = cutOff \cup {p}
  /\ UNCHANGED <<smVars, hVars, pVars, ptyVars, transport, client, returned, ptyPc, ptyOf,
                 starter, answered, told, ended>>

CutOffTerm(t) ==
  /\ ChildContextDone(t)
  /\ PtyChildEnds(t)
  /\ cutOff' = cutOff \cup {t}
  /\ UNCHANGED <<vars, transport, client, returned, ptyPc, ptyOf, starter, answered,
                 told, ended>>

-----------------------------------------------------------------------------
(* Requests. *)

HasRoomForChild == Cardinality({c \in Children : starter[c] # NoHandler}) < MaxChildren

Idle(h) == pc[h] = "idle" /\ ptyPc[h] = "idle"

\* A request is read, or the one that has been read goes on.
Serving(h) ==
  /\ transport[h] # "none" /\ h \notin returned
  /\ Idle(h) => client[h] = "here"

\* A step of a session or exec request.  cmd.Start refuses a context that is
\* done.  A step after which the handler is idle has answered.
ExecStep(h) ==
  /\ Serving(h)
  /\ ptyPc[h] = "idle"
  /\ HandlerStep(h)
  /\ starter' = [c \in Children |->
       IF c \in Procs /\ os[c] = "none" /\ os'[c] # "none" THEN h ELSE starter[c]]
  /\ starter' # starter => HasRoomForChild /\ ~ContextDone(h)
  /\ answered' = IF pc'[h] = "idle" THEN answered \cup {c \in Children : starter[c] = h}
                 ELSE answered
  /\ UNCHANGED <<ptyVars, transport, client, returned, ptyPc, ptyOf, cutOff, told, ended>>

\* Mutant: a terminal is started outside the context of its request.
PtyOpenDetached(h, t) ==
  /\ Serving(h) /\ Idle(h)
  /\ sessions # {}
  /\ HasRoomForChild /\ ~ContextDone(h)
  /\ OpenPty(t)
  /\ answered' = answered \cup {t}
  /\ UNCHANGED <<vars, transport, client, returned, ptyPc, ptyOf, starter, cutOff, told, ended>>

PtyOpen(h, t) ==
  /\ Serving(h) /\ Idle(h)
  /\ sessions # {}
  /\ HasRoomForChild /\ ~ContextDone(h)
  /\ OpenPty(t)
  /\ starter' = [starter EXCEPT ![t] = h]
  /\ answered' = answered \cup {t}
  /\ UNCHANGED <<vars, transport, client, returned, ptyPc, ptyOf, cutOff, told, ended>>

\* Input: a write that the terminal has no room for waits.
PtyInputBegins(h, t) ==
  /\ Serving(h) /\ Idle(h)
  /\ t \in ptys
  /\ ptyPc' = [ptyPc EXCEPT ![h] = "input"]
  /\ ptyOf' = [ptyOf EXCEPT ![h] = t]
  /\ UNCHANGED <<vars, ptyVars, transport, client, returned, starter, answered, cutOff,
                 told, ended>>

PtyCloseBegins(h, t) ==
  /\ Serving(h) /\ Idle(h)
  /\ KillPty(t)
  /\ ptyPc' = [ptyPc EXCEPT ![h] = "close"]
  /\ ptyOf' = [ptyOf EXCEPT ![h] = t]
  /\ UNCHANGED <<vars, transport, client, returned, starter, answered, cutOff, told, ended>>

PtyAnswers(h) ==
  /\ ptyPc' = [ptyPc EXCEPT ![h] = "idle"]
  /\ ptyOf' = [ptyOf EXCEPT ![h] = NoTerm]
  /\ UNCHANGED <<vars, transport, client, returned, starter, answered, cutOff, told, ended>>

\* The child has read, or is gone, or the file has been closed.
PtyInputEnds(h) ==
  /\ ptyPc[h] = "input"
  /\ PtyAnswers(h)
  /\ UNCHANGED ptyVars

PtyCloseEnds(h) ==
  /\ ptyPc[h] = "close"
  /\ ClosePtyFile(ptyOf[h])
  /\ PtyAnswers(h)

PtyRequest(h) ==
  \/ \E t \in Terms : PtyOpen(h, t) \/ PtyInputBegins(h, t) \/ PtyCloseBegins(h, t)
  \/ PtyInputEnds(h) \/ PtyCloseEnds(h)

-----------------------------------------------------------------------------
(* The steps that no request takes part in. *)

Supervision(p) ==
  /\ \/ Waiter(p)
     \/ (Timer(p) \/ DeadlinePasses(p) \/ ChildExits(p)) /\ UNCHANGED <<smVars, hVars, pVars>>
  /\ UNCHANGED <<ptyVars, progVars>>

Writes(p, i) ==
  /\ Reader(p, i) \/ ChildWrites(p, i)
  /\ UNCHANGED <<smVars, hVars, pVars, ptyVars, progVars>>

Terminal(t) ==
  /\ PtyChildWrites(t) \/ PtyChildEnds(t) \/ PtyRead(t) \/ PtyWait(t)
  /\ UNCHANGED <<vars, progVars>>

-----------------------------------------------------------------------------
(* Clients, signals and the end of the program. *)

\* It disconnects, or sends what is not JSON, which ends the loop as well.
ClientGoes(h) ==
  /\ transport[h] # "none"
  /\ client[h] = "here"
  /\ client' = [client EXCEPT ![h] = "gone"]
  /\ UNCHANGED <<vars, ptyVars, transport, returned, ptyPc, ptyOf, starter, answered,
                 cutOff, told, ended>>

\* The loop of a WebSocket connection, or the HTTP connection, ends.
Returns(h) ==
  /\ transport[h] \in {"ws", "post"}
  /\ Idle(h) /\ client[h] = "gone" /\ h \notin returned
  /\ returned' = returned \cup {h}
  /\ UNCHANGED <<vars, ptyVars, transport, client, ptyPc, ptyOf, starter, answered,
                 cutOff, told, ended>>

Signal ==
  /\ ~told
  /\ told' = TRUE
  /\ UNCHANGED <<vars, ptyVars, transport, client, returned, ptyPc, ptyOf, starter,
                 answered, cutOff, ended>>

\* A stdio server ends when its input does, signal or not; an HTTP server on a
\* signal, as soon as ListenAndServe returns, whatever requests are under way.
\* The children stay.
Ends ==
  /\ \/ \E h \in Handlers : transport[h] = "stdio" /\ Idle(h) /\ client[h] = "gone"
     \/ told /\ \A h \in Handlers : transport[h] # "stdio"
  /\ ended' = TRUE
  /\ UNCHANGED <<vars, ptyVars, transport, client, returned, ptyPc, ptyOf, starter,
                 answered, cutOff, told>>

ProgramNext ==
  /\ ~ended
  /\ \/ \E h \in Handlers : ExecStep(h) \/ PtyRequest(h) \/ ClientGoes(h) \/ Returns(h)
     \/ \E p \in Procs : CutOffProcess(p) \/ Supervision(p)
     \/ \E p \in Procs, i \in Streams : Writes(p, i)
     \/ \E t \in Terms : CutOffTerm(t) \/ Terminal(t)
     \/ Signal \/ Ends

ProgramSpec == ProgramInit /\ [][ProgramNext]_allVars
=============================================================================

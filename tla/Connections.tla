---------------------------- MODULE Connections -----------------------------
(***************************************************************************)
(* The connections of rexd: the loop of the stdio server                   *)
(* (internal/server/stdio_server.go) and of a WebSocket connection         *)
(* (internal/transport/wsjsonrpc/handler.go).  Each answers requests one   *)
(* at a time, subscribes to a session after it has answered the first      *)
(* request that names it, and forwards the session's notifications by a    *)
(* goroutine per subscription, on the same output as the responses.        *)
(* Two goroutines that write to a WebSocket connection at once, which      *)
(* nothing prevents, may mix their frames, or one of them panics.          *)
(***************************************************************************)
EXTENDS EventBus

CONSTANTS
  Conns,
  Transport     \* of a connection: "stdio" or "ws"

ASSUME TransportAssumption == Transport \in [Conns -> {"stdio", "ws"}]

Loop == 0                    \* the connection's own goroutine, among writers
Response == [job |-> "none", n |-> 0]

VARIABLES
  pc,        \* where the loop of a connection is; "none": there is no such
  request,   \* the session id of the request it runs, or NoSession
  subs,      \* activeSessionSubs: the connection's subscription to a session; 0: none
  starter,   \* the connections that started a job
  connOf,    \* the connection of a subscription
  fwd,       \* the goroutine of a subscription
  held,      \* the notification it has taken; Response: none
  writing,   \* the writers inside a write of a connection
  mixed,     \* those whose write overlaps another's
  panicked,  \* has a panic that nobody recovers ended the program?
  client,    \* does the client read, not read, or is it gone?
  wire       \* history: the notifications written whole to a connection

subVars  == <<subs, connOf, starter>>
connVars == <<pc, request, subVars, client>>
outVars  == <<fwd, held, writing, mixed, panicked, wire>>
vars     == <<busVars, jobVars, offers, connVars, outVars>>

\* The type invariant: no channel holds more than its capacity, and only
\* subscriptions that were made are in the tables of the bus and connections.
TypeOK ==
  /\ BusTypeOK
  /\ pc \in [Conns -> {"none", "read", "handle", "respond", "write", "subscribe",
                    "closing", "closed"}]
  /\ request \in [Conns -> Sessions \cup {NoSession}]
  /\ subs \in [Conns -> [Sessions -> 0..nextSubID]]
  /\ connOf \in [Subs -> Conns \cup {"none"}]
  /\ starter \in [Jobs -> SUBSET Conns]
  /\ fwd \in [Subs -> {"off", "recv", "lock", "write", "done"}]
  /\ held \in [Subs -> Event \cup {Response}]
  /\ writing \in [Conns -> SUBSET (Subs \cup {Loop})]
  /\ mixed \in [Conns -> SUBSET (Subs \cup {Loop})]
  /\ panicked \in BOOLEAN
  /\ client \in [Conns -> {"reads", "stalled", "gone"}]
  /\ wire \in [Conns -> Seq(Event)]

\* main runs the stdio server or the HTTP server, and never both.
Init ==
  /\ BusInit
  /\ \E mode \in {"stdio", "ws"} :
       pc = [c \in Conns |-> IF Transport[c] = mode THEN "read" ELSE "none"]
  /\ request = [c \in Conns |-> NoSession]
  /\ subs = [c \in Conns |-> [s \in Sessions |-> 0]]
  /\ connOf = [k \in Subs |-> "none"]
  /\ starter = [j \in Jobs |-> {}]
  /\ fwd = [k \in Subs |-> "off"]
  /\ held = [k \in Subs |-> Response]
  /\ writing = [c \in Conns |-> {}]
  /\ mixed = [c \in Conns |-> {}]
  /\ panicked = FALSE
  /\ client = [c \in Conns |-> "reads"]
  /\ wire = [c \in Conns |-> <<>>]

-----------------------------------------------------------------------------
(* The output.  Encoder.Encode of the stdio server takes a mutex around    *)
(* the whole write; a WebSocket connection has none, and its library says  *)
(* that there may be one writer at a time.                                 *)

\* Mutant: no mutex.
WriteBeginsUnlocked(c, w) ==
  /\ writing' = [writing EXCEPT ![c] = @ \cup {w}]
  /\ UNCHANGED mixed

WriteBegins(c, w) ==
  /\ Transport[c] = "stdio" => writing[c] = {}
  /\ writing' = [writing EXCEPT ![c] = @ \cup {w}]
  /\ mixed' = IF writing[c] = {} THEN mixed
              ELSE [mixed EXCEPT ![c] = @ \cup writing[c] \cup {w}]

LeavesOutput(c, w) ==
  /\ w \in writing[c]
  /\ writing' = [writing EXCEPT ![c] = @ \ {w}]
  /\ mixed' = [mixed EXCEPT ![c] = @ \ {w}]

\* Mutant: the mutex is not released.
WriteEndsLocked(c, w, item) ==
  /\ w \in writing[c]
  /\ client[c] # "stalled"
  /\ UNCHANGED <<writing, mixed>>
  /\ wire' = IF client[c] = "reads" /\ item # Response
             THEN [wire EXCEPT ![c] = Append(@, item)] ELSE wire

\* A write to a client that has gone fails; one to a client that does not
\* read blocks.  What a write that overlapped another has put on the
\* connection is anybody's guess (the two share a buffer) and is not counted.
WriteEnds(c, w, item) ==
  /\ client[c] # "stalled"
  /\ LeavesOutput(c, w)
  /\ wire' = IF client[c] = "reads" /\ item # Response /\ w \notin mixed[c]
             THEN [wire EXCEPT ![c] = Append(@, item)] ELSE wire

\* "concurrent write to websocket connection": the library's check, when it
\* notices the other writer.
WritePanics(c, w) == w \in mixed[c] /\ LeavesOutput(c, w)

-----------------------------------------------------------------------------
(* The loop. *)

LoopGoto(c, from, to) ==
  /\ pc[c] = from
  /\ pc' = [pc EXCEPT ![c] = to]

\* A request is read and handle() called; it may start a job in the session
\* that the request names.
Handle(c, s) ==
  /\ client[c] # "gone"
  /\ LoopGoto(c, "read", "handle")
  /\ request' = [request EXCEPT ![c] = s]
  /\ \/ UNCHANGED <<home, starter>>
     \/ \E j \in Jobs :
          /\ s # NoSession /\ home[j] = NoSession
          /\ home' = [home EXCEPT ![j] = s]
          /\ starter' = [starter EXCEPT ![j] = {c}]
  /\ UNCHANGED <<busVars, count, publishing, pending, offers, subs, connOf, client,
                 outVars>>

\* handle() returns, which it need not do: a write to the stdin of a child
\* that does not read blocks.  The stdio server does not answer a request
\* without an id.
Returns(c) ==
  /\ \/ LoopGoto(c, "handle", "respond")
     \/ Transport[c] = "stdio" /\ LoopGoto(c, "handle", "subscribe")
  /\ UNCHANGED <<busVars, jobVars, offers, request, subVars, client, outVars>>

RespondBegins(c) ==
  /\ LoopGoto(c, "respond", "write")
  /\ WriteBegins(c, Loop)
  /\ UNCHANGED <<busVars, jobVars, offers, request, subVars, client, fwd, held,
                 panicked, wire>>

RespondEnds(c) ==
  /\ LoopGoto(c, "write", IF client[c] = "gone" THEN "closing" ELSE "subscribe")
  /\ WriteEnds(c, Loop, Response)
  /\ UNCHANGED <<busVars, jobVars, offers, request, subVars, client, fwd, held, panicked>>

\* The HTTP server recovers the panic of a handler, whose deferred functions
\* run.
RespondPanics(c) ==
  /\ LoopGoto(c, "write", "closing")
  /\ WritePanics(c, Loop)
  /\ UNCHANGED <<busVars, jobVars, offers, request, subVars, client, fwd, held,
                 panicked, wire>>

\* Mutant: every request subscribes anew.
WantedAgain(c) == request[c] # NoSession

Wanted(c) == request[c] # NoSession /\ subs[c][request[c]] = 0

SubscribeSession(c) ==
  /\ LoopGoto(c, "subscribe", "read")
  /\ Wanted(c)
  /\ \E k \in Subs :
       /\ Subscribe(k, request[c])
       /\ subs' = [subs EXCEPT ![c][request[c]] = k]
       /\ connOf' = [connOf EXCEPT ![k] = c]
       /\ fwd' = [fwd EXCEPT ![k] = "recv"]
  /\ request' = [request EXCEPT ![c] = NoSession]
  /\ UNCHANGED <<starter, client, held, writing, mixed, panicked, wire>>

SubscribeNothing(c) ==
  /\ LoopGoto(c, "subscribe", "read")
  /\ ~Wanted(c)
  /\ request' = [request EXCEPT ![c] = NoSession]
  /\ UNCHANGED <<busVars, jobVars, offers, subVars, client, outVars>>

\* End of input.
Hangup(c) ==
  /\ client[c] = "gone"
  /\ LoopGoto(c, "read", "closing")
  /\ UNCHANGED <<busVars, jobVars, offers, request, subVars, client, outVars>>

\* A line or message that is not JSON ends the loop as well.
Malformed(c) ==
  /\ client[c] # "gone"
  /\ LoopGoto(c, "read", "closing")
  /\ UNCHANGED <<busVars, jobVars, offers, request, subVars, client, outVars>>

\* The WebSocket handler unsubscribes in a deferred function, and closes the
\* connection in another; the stdio server just returns, and with it the
\* program.
UnsubscribeDeferred(c, s) ==
  /\ pc[c] = "closing" /\ Transport[c] = "ws"
  /\ Unsubscribe(subs[c][s])
  /\ UNCHANGED <<connVars, outVars>>

CloseConn(c) ==
  /\ LoopGoto(c, "closing", "closed")
  /\ Transport[c] = "ws" => \A s \in Sessions : subs[c][s] \notin subscribed
  /\ client' = [client EXCEPT ![c] = "gone"]
  /\ UNCHANGED <<busVars, jobVars, offers, request, subVars, outVars>>

LoopStep(c) ==
  \/ RespondBegins(c) \/ RespondEnds(c) \/ SubscribeSession(c) \/ SubscribeNothing(c)
  \/ Hangup(c) \/ CloseConn(c)
  \/ \E s \in Sessions : UnsubscribeDeferred(c, s)

-----------------------------------------------------------------------------
(* The goroutine that forwards a subscription. *)

ForwardGoto(k, from, to) ==
  /\ fwd[k] = from
  /\ fwd' = [fwd EXCEPT ![k] = to]

Takes(k) ==
  /\ ForwardGoto(k, "recv", "lock")
  /\ Receive(k)
  /\ held' = [held EXCEPT ![k] = Head(chan[k])]
  /\ UNCHANGED <<connVars, writing, mixed, panicked, wire>>

ForwardBegins(k) ==
  /\ ForwardGoto(k, "lock", "write")
  /\ WriteBegins(connOf[k], k)
  /\ UNCHANGED <<busVars, jobVars, offers, connVars, held, panicked, wire>>

\* Errors are ignored.
ForwardEnds(k) ==
  /\ ForwardGoto(k, "write", "recv")
  /\ WriteEnds(connOf[k], k, held[k])
  /\ held' = [held EXCEPT ![k] = Response]
  /\ UNCHANGED <<busVars, jobVars, offers, connVars, panicked>>

\* Nobody recovers the panic of a forwarder: the program ends.
ForwardPanics(k) ==
  /\ ForwardGoto(k, "write", "done")
  /\ WritePanics(connOf[k], k)
  /\ panicked' = TRUE
  /\ UNCHANGED <<busVars, jobVars, offers, connVars, held, wire>>

\* The range over a closed channel ends when its buffer is empty.
ForwardStops(k) ==
  /\ ForwardGoto(k, "recv", "done")
  /\ Drained(k)
  /\ UNCHANGED <<busVars, jobVars, offers, connVars, held, writing, mixed, panicked, wire>>

Forwarder(k) == Takes(k) \/ ForwardBegins(k) \/ ForwardEnds(k) \/ ForwardStops(k)

-----------------------------------------------------------------------------
\* The client stops reading, or disconnects.
ClientTurns(c) ==
  /\ pc[c] # "none"
  /\ \/ client[c] = "reads" /\ client' = [client EXCEPT ![c] = "stalled"]
     \/ client[c] # "gone" /\ client' = [client EXCEPT ![c] = "gone"]
  /\ UNCHANGED <<busVars, jobVars, offers, pc, request, subVars, outVars>>

\* The program lives until a stdio loop returns or a forwarder panics.
Alive ==
  /\ ~panicked
  /\ \A c \in Conns : Transport[c] = "stdio" => pc[c] # "closed"

Publish(j) == Publisher(j) /\ UNCHANGED <<connVars, outVars>>

Next ==
  /\ Alive
  /\ \/ \E c \in Conns :
          \/ \E s \in Sessions \cup {NoSession} : Handle(c, s)
          \/ Returns(c)
          \/ LoopStep(c)
          \/ RespondPanics(c)
          \/ Malformed(c)
          \/ ClientTurns(c)
     \/ \E k \in Subs : Forwarder(k) \/ ForwardPanics(k)
     \/ \E j \in Jobs : Publish(j)

Spec == Init /\ [][Next]_vars

\* The goroutines of the program run whenever they can; clients need not,
\* handle() need not return, and a race need not be noticed.  The mutex of a
\* stdio server is handed to a waiter that has waited long: strong fairness.
Goroutines ==
  /\ \A c \in Conns : WF_vars(Alive /\ LoopStep(c))
  /\ \A k \in Subs : WF_vars(Alive /\ Forwarder(k))
  /\ \A j \in Jobs : WF_vars(Alive /\ Publish(j))
  /\ \A c \in {d \in Conns : Transport[d] = "stdio"} :
       /\ SF_vars(Alive /\ RespondBegins(c))
       /\ \A k \in Subs : SF_vars(Alive /\ ForwardBegins(k))

FairSpec == Spec /\ Goroutines
=============================================================================

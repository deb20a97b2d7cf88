-------------------------- MODULE ConnectionClaims --------------------------
(***************************************************************************)
(* What must hold of Connections, and what the repository says of it that  *)
(* the code does not do.                                                   *)
(***************************************************************************)
EXTENDS Connections

-----------------------------------------------------------------------------
(* Safety. *)

\* No publisher is about to send on a channel that has been closed, which
\* would be a panic: the unsubscribe function closes a channel while another
\* goroutine may be in the middle of Publish (bus.go:31-43 and 52-59).
NoSendOnClosed == \A j \in Jobs : pending[j] \cap closed = {}

\* One goroutine at a time writes to an output, so responses and
\* notifications are not mixed up (ndjson/codec.go:39-46).  It holds for stdio;
\* a WebSocket connection has no lock.
OneWriter == \A c \in Conns : Transport[c] = "stdio" => Cardinality(writing[c]) <= 1

\* What there is of some jobs in a sequence of notifications.
OfJobs(s, jobs) ==
  LET of[i \in 0..Len(s)] ==
        IF i = 0 THEN <<>>
        ELSE IF s[i].job \in jobs THEN Append(of[i - 1], s[i]) ELSE of[i - 1]
  IN of[Len(s)]

\* The notifications a subscription has brought to its connection.
Delivered(k) ==
  IF fwd[k] = "off" THEN <<>>
  ELSE OfJobs(wire[connOf[k]], {j \in Jobs : home[j] = topic[k]})

\* Where the last element of one sequence stands in another; 0 if it does not.
LastPlace(s, d) ==
  LET places == {i \in DOMAIN s : d # <<>> /\ s[i] = d[Len(d)]}
  IN IF places = {} THEN 0 ELSE CHOOSE i \in places : TRUE

Fifo == INSTANCE LossyFifo WITH
  Channels <- Subs, Messages <- Event, sent <- offers,
  got <- [k \in Subs |-> Delivered(k)],
  last <- [k \in Subs |-> LastPlace(offers[k], Delivered(k))]

\* From Publish over the channel and the forwarding goroutine to the wire, a
\* connection gets the notifications of a session in order and at most once:
\* it subscribes to a session once, whatever the number of requests.  Of a
\* WebSocket it is said of the notifications whose write met no other.
InOrderAtMostOnce == Fifo!Spec

-----------------------------------------------------------------------------
(* Liveness. *)

\* A client that does not read, whose channels fill up, never holds up a
\* publisher: a process ends and is reaped whoever listens (bus.go:55-58).
SlowClientDoesNotBlock ==
  \A j \in Jobs :
    home[j] # NoSession ~> (count[j] = Events[j] /\ ~publishing[j]) \/ ~Alive

\* When a WebSocket client has gone, or has sent what is not JSON, or the
\* answer to it panics, its handler ends, and so does every goroutine that
\* forwards to it (handler.go:27-41): as soon as the handler is not, or no
\* longer, inside handle(), where it may wait for ever and nothing is cleaned up.
HangupCleansUp ==
  \A c \in Conns :
    Transport[c] = "ws" /\ ((client[c] = "gone" /\ pc[c] # "handle") \/ pc[c] = "closing") ~>
      \/ ~Alive
      \/ /\ pc[c] = "closed"
         /\ \A s \in Sessions : subs[c][s] # 0 => fwd[subs[c][s]] = "done"

\* A goroutine is writing a notification while another writes to the same
\* WebSocket connection.
WritesOver(c, e) == \E k \in Subs : connOf[k] = c /\ held[k] = e /\ k \in mixed[c]

\* A notification that found room in the channel is written whole to a client
\* that reads, unless another goroutine writes to the same WebSocket connection
\* just then: on stdio there is no exception (handler.go:45 and 59,
\* stdio_server.go:41-45).
AcceptedIsDelivered ==
  \A c \in Conns, s \in Sessions, e \in Event :
    (\E k \in Subs : subs[c][s] = k /\ \E i \in 1..Len(chan[k]) : chan[k][i] = e)
      ~> \/ \E i \in 1..Len(wire[c]) : wire[c][i] = e
         \/ WritesOver(c, e)
         \/ client[c] # "reads" \/ ~Alive

-----------------------------------------------------------------------------
(* Claims. *)

Reaches(c, e) ==
  \/ \E i \in 1..Len(wire[c]) : wire[c][i] = e
  \/ \E k \in Subs :
       /\ k \in {subs[c][s] : s \in Sessions}
       /\ held[k] = e \/ \E i \in 1..Len(chan[k]) : chan[k][i] = e

\* spec:150, exec.start streams "output via events": the connection that
\* starts a process and reads gets its exec.exit, as stdio_protocol_test.go:
\* 120-138 expects.  But a connection subscribes after it has answered the
\* first request that names the session (stdio_server.go:26-48), and that is
\* the exec.start.
ExitIsSeen ==
  \A j \in Jobs : count[j] = Events[j] /\ ~publishing[j] =>
    \A c \in starter[j] : client[c] = "reads" => Reaches(c, [job |-> j, n |-> Events[j]])
=============================================================================

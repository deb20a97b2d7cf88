-------------------------- MODULE ConnectionProofs --------------------------
(***************************************************************************)
(* Theorems about Connections, for every value of its constants.           *)
(***************************************************************************)
EXTENDS SplicingProofs, ConnectionClaims

-----------------------------------------------------------------------------
(* The bus.  While a job publishes, nobody unsubscribes, so the channels it *)
(* has still to offer its notification to are those of the table, and no    *)
(* channel of the table has been closed.                                    *)

Offering ==
  \A j \in Jobs :
    /\ publishing[j] => count[j] > 0
    /\ pending[j] # {} => publishing[j]
    /\ pending[j] \subseteq subscribed

BusInv == BusTypeOK /\ Offering /\ closed \cap subscribed = {}

\* At the start nothing is subscribed.
LEMMA BusStarts == BusInit => BusInv
BY BusAssumption DEF BusInit, BusInv, BusTypeOK, Offering, Subs

\* A new subscription is one that has never been closed.
LEMMA SubscribeKeeps ==
  ASSUME BusInv, NEW k \in Subs, NEW s \in Sessions, Subscribe(k, s)
  PROVE  BusInv'
<1> USE DEF Subscribe, BusInv, jobVars
<1>0. k \in Nat /\ nextSubID \in Nat /\ MaxSubs \in Nat
  BY BusAssumption DEF Subs, BusTypeOK
<1>1. BusTypeOK' BY <1>0, BusAssumption DEF BusTypeOK, Subs
<1>2. Offering' BY DEF Offering
<1>3. k \notin closed BY <1>0 DEF BusTypeOK
<1> QED BY <1>1, <1>2, <1>3

\* The unsubscribe function waits for the publishers: none has a channel left.
LEMMA UnsubscribeKeeps ==
  ASSUME BusInv, NEW k, Unsubscribe(k)
  PROVE  BusInv'
<1> USE DEF Unsubscribe, BusInv, jobVars
<1>1. BusTypeOK' BY DEF BusTypeOK
<1>2. Offering' BY DEF Offering, WriteLock
<1> QED BY <1>1, <1>2

\* What an offer puts into a channel fits.
LEMMA OfferKeeps ==
  ASSUME BusInv, NEW j \in Jobs, NEW k \in Subs, PublishOffers(j, k)
  PROVE  BusInv'
<1> DEFINE e == [job |-> j, n |-> count[j]]
<1>0. publishing[j] /\ count[j] > 0 BY DEF PublishOffers, BusInv, Offering
<1>1. e \in Event BY <1>0, BusAssumption DEF BusInv, BusTypeOK, Event
<1>2. chan' = (IF Len(chan[k]) < Capacity
               THEN [chan EXCEPT ![k] = Append(@, e)] ELSE chan)
      /\ offers' = [offers EXCEPT ![k] = Append(@, e)]
      /\ pending' = [pending EXCEPT ![j] = @ \ {k}]
      /\ UNCHANGED <<nextSubID, topic, subscribed, closed, home, count, publishing>>
  BY DEF PublishOffers
<1> HIDE DEF e
<1>3. chan' \in [Subs -> Seq(Event)] BY <1>1, <1>2 DEF BusInv, BusTypeOK
<1>4. \A i \in Subs : Len(chan'[i]) <= Capacity
  BY <1>1, <1>2, BusAssumption DEF BusInv, BusTypeOK
<1>5. offers' \in [Subs -> Seq(Event)] BY <1>1, <1>2 DEF BusInv, BusTypeOK
<1>6. pending' \in [Jobs -> SUBSET Subs] BY <1>2 DEF BusInv, BusTypeOK
<1>7. Offering' BY <1>2 DEF BusInv, BusTypeOK, Offering
<1> QED BY <1>2, <1>3, <1>4, <1>5, <1>6, <1>7 DEF BusInv, BusTypeOK

\* Publish works on the table as it found it.
LEMMA PublishKeeps ==
  ASSUME BusInv, NEW j \in Jobs, Publisher(j)
  PROVE  BusInv'
<1> USE DEF BusInv, busVars
<1>1. CASE PublishBegins(j)
  <2>1. subscribed \subseteq Subs BY BusAssumption DEF BusTypeOK, Subs
  <2>2. pending' \in [Jobs -> SUBSET Subs] BY <1>1, <2>1 DEF PublishBegins, BusTypeOK
  <2>3. count' \in [Jobs -> Nat] /\ \A i \in Jobs : count'[i] <= Events[i]
    <3>1. count[j] \in Nat /\ Events[j] \in Nat BY BusAssumption DEF BusTypeOK
    <3>2. count' = [count EXCEPT ![j] = @ + 1] /\ count[j] + 1 <= Events[j]
      BY <1>1, <3>1 DEF PublishBegins
    <3> QED BY <3>1, <3>2 DEF BusTypeOK
  <2>4. publishing' \in [Jobs -> BOOLEAN] BY <1>1 DEF PublishBegins, BusTypeOK
  <2>5. BusTypeOK' BY <1>1, <2>2, <2>3, <2>4 DEF PublishBegins, BusTypeOK
  <2>6. Offering' BY <1>1 DEF PublishBegins, BusTypeOK, Offering
  <2> QED BY <1>1, <2>5, <2>6 DEF PublishBegins
<1>2. CASE \E k \in Subs : PublishOffers(j, k) BY <1>2, OfferKeeps
<1>3. CASE PublishEnds(j)
  <2>1. BusTypeOK' BY <1>3 DEF PublishEnds, BusTypeOK
  <2>2. Offering' BY <1>3 DEF PublishEnds, BusTypeOK, Offering
  <2> QED BY <1>3, <2>1, <2>2 DEF PublishEnds
<1> QED BY <1>1, <1>2, <1>3 DEF Publisher

\* A receiver makes room.
LEMMA ReceiveKeeps ==
  ASSUME BusInv, NEW k \in Subs, Receive(k)
  PROVE  BusInv' /\ Head(chan[k]) \in Event
<1> USE DEF BusInv, Receive, jobVars
<1>1. chan[k] \in Seq(Event) /\ chan[k] # <<>> BY DEF BusTypeOK
<1>2. Tail(chan[k]) \in Seq(Event) /\ Len(Tail(chan[k])) = Len(chan[k]) - 1
      /\ Len(chan[k]) \in Nat /\ Head(chan[k]) \in Event
  BY <1>1
<1>3. BusTypeOK' BY <1>2, BusAssumption DEF BusTypeOK
<1>4. Offering' BY DEF Offering
<1> QED BY <1>2, <1>3, <1>4

-----------------------------------------------------------------------------
(* Type correctness of the connections. *)

TypeInv == TypeOK /\ BusInv

\* The initial state is well typed.
LEMMA TypeInit == Init => TypeInv
<1> SUFFICES ASSUME Init PROVE TypeInv
  OBVIOUS
<1>1. BusInv /\ nextSubID = 0 BY BusStarts DEF Init, BusInit
<1>2. pc \in [Conns -> {"none", "read", "handle", "respond", "write", "subscribe",
                        "closing", "closed"}]
  BY DEF Init
<1>3. /\ wire \in [Conns -> Seq(Event)] /\ held \in [Subs -> Event \cup {Response}]
      /\ writing \in [Conns -> SUBSET (Subs \cup {Loop})]
      /\ mixed \in [Conns -> SUBSET (Subs \cup {Loop})]
  BY DEF Init
<1>4. /\ request \in [Conns -> Sessions \cup {NoSession}]
      /\ subs \in [Conns -> [Sessions -> 0..nextSubID]]
      /\ connOf \in [Subs -> Conns \cup {"none"}]
      /\ starter \in [Jobs -> SUBSET Conns]
  BY <1>1 DEF Init
<1>5. /\ fwd \in [Subs -> {"off", "recv", "lock", "write", "done"}]
      /\ client \in [Conns -> {"reads", "stalled", "gone"}]
      /\ panicked \in BOOLEAN
  BY DEF Init
<1> QED BY <1>1, <1>2, <1>3, <1>4, <1>5 DEF TypeInv, TypeOK, BusInv

\* The beginning of a write adds a writer, and perhaps an overlap.
LEMMA BeginTypes ==
  ASSUME TypeOK, NEW c \in Conns, NEW w \in Subs \cup {Loop}, WriteBegins(c, w)
  PROVE  /\ writing' \in [Conns -> SUBSET (Subs \cup {Loop})]
         /\ mixed' \in [Conns -> SUBSET (Subs \cup {Loop})]
<1> USE DEF TypeOK, WriteBegins
<1>1. writing' \in [Conns -> SUBSET (Subs \cup {Loop})] OBVIOUS
<1>2. CASE writing[c] = {} BY <1>1, <1>2
<1>3. CASE writing[c] # {}
  <2>1. mixed[c] \cup writing[c] \cup {w} \in SUBSET (Subs \cup {Loop}) OBVIOUS
  <2> QED BY <1>1, <1>3, <2>1
<1> QED BY <1>2, <1>3

\* A panic takes a writer away.
LEMMA PanicTypes ==
  ASSUME TypeOK, NEW c, NEW w, WritePanics(c, w)
  PROVE  /\ writing' \in [Conns -> SUBSET (Subs \cup {Loop})]
         /\ mixed' \in [Conns -> SUBSET (Subs \cup {Loop})]
BY DEF TypeOK, WritePanics, LeavesOutput

\* The end of a write puts a notification on the wire, or nothing.
LEMMA WriteTypes ==
  ASSUME TypeOK, NEW c, NEW w, NEW item \in Event \cup {Response}, WriteEnds(c, w, item)
  PROVE  /\ writing' \in [Conns -> SUBSET (Subs \cup {Loop})]
         /\ mixed' \in [Conns -> SUBSET (Subs \cup {Loop})]
         /\ wire' \in [Conns -> Seq(Event)]
<1> USE DEF TypeOK, WriteEnds, LeavesOutput
<1>1. CASE c \in Conns /\ item # Response
  <2>1. item \in Event /\ Append(wire[c], item) \in Seq(Event) BY <1>1
  <2> QED BY <1>1, <2>1
<1>2. CASE c \in Conns /\ item = Response BY <1>2
<1>3. CASE c \notin Conns BY <1>3
<1> QED BY <1>1, <1>2, <1>3

\* A request starts a job or leaves the bus as it is.
LEMMA HandleTypes ==
  ASSUME TypeInv, NEW c \in Conns, NEW s \in Sessions \cup {NoSession}, Handle(c, s)
  PROVE  TypeInv'
<1> USE DEF TypeInv, Handle, LoopGoto, busVars, outVars
<1>1. home \in [Jobs -> Sessions \cup {NoSession}] /\ starter \in [Jobs -> SUBSET Conns]
  BY DEF TypeOK, BusTypeOK
<1>2. home' \in [Jobs -> Sessions \cup {NoSession}] /\ starter' \in [Jobs -> SUBSET Conns]
  <2>1. CASE UNCHANGED <<home, starter>> BY <1>1, <2>1
  <2>2. ASSUME NEW j \in Jobs, home' = [home EXCEPT ![j] = s],
               starter' = [starter EXCEPT ![j] = {c}]
        PROVE  home' \in [Jobs -> Sessions \cup {NoSession}]
               /\ starter' \in [Jobs -> SUBSET Conns]
    BY <1>1, <2>2
  <2> QED BY <2>1, <2>2
<1>3. BusInv' BY <1>2 DEF BusInv, BusTypeOK, Offering
<1>4. pc' \in [Conns -> {"none", "read", "handle", "respond", "write", "subscribe",
                         "closing", "closed"}]
  BY ZenonT(30) DEF TypeOK
<1>5. request' \in [Conns -> Sessions \cup {NoSession}] BY DEF TypeOK
<1> QED BY <1>2, <1>3, <1>4, <1>5 DEF TypeOK, BusInv

\* The other steps of the loop of a connection.
LEMMA LoopTypes ==
  ASSUME TypeInv, NEW c \in Conns,
         LoopStep(c) \/ Returns(c) \/ RespondPanics(c) \/ Malformed(c) \/ ClientTurns(c)
  PROVE  TypeInv'
<1> USE DEF TypeInv, TypeOK, LoopGoto, busVars, jobVars, subVars, outVars, connVars
<1>1. CASE RespondBegins(c)
  <2>1. writing' \in [Conns -> SUBSET (Subs \cup {Loop})]
        /\ mixed' \in [Conns -> SUBSET (Subs \cup {Loop})]
    BY <1>1, BeginTypes DEF RespondBegins
  <2>2. BusInv' BY <1>1 DEF RespondBegins, BusInv, BusTypeOK, Offering
  <2> QED BY <1>1, <2>1, <2>2 DEF RespondBegins, BusInv
<1>2. CASE RespondEnds(c)
  <2>1. wire' \in [Conns -> Seq(Event)] /\ writing' \in [Conns -> SUBSET (Subs \cup {Loop})]
        /\ mixed' \in [Conns -> SUBSET (Subs \cup {Loop})]
    BY <1>2, WriteTypes DEF RespondEnds
  <2>2. BusInv' BY <1>2 DEF RespondEnds, BusInv, BusTypeOK, Offering
  <2> QED BY <1>2, <2>1, <2>2 DEF RespondEnds, BusInv
<1>3. CASE SubscribeSession(c)
  <2>0. request[c] \in Sessions BY <1>3 DEF SubscribeSession, Wanted
  <2> PICK k \in Subs : /\ Subscribe(k, request[c])
                        /\ subs' = [subs EXCEPT ![c][request[c]] = k]
                        /\ connOf' = [connOf EXCEPT ![k] = c]
                        /\ fwd' = [fwd EXCEPT ![k] = "recv"]
    BY <1>3 DEF SubscribeSession
  <2>1. BusInv' BY <2>0, SubscribeKeeps
  <2>2. nextSubID' = k /\ k = nextSubID + 1 /\ nextSubID \in Nat
    BY DEF Subscribe, BusTypeOK
  <2>3. subs' \in [Conns -> [Sessions -> 0..nextSubID']]
    <3>1. \A d \in Conns : \A s \in Sessions : subs[d][s] \in 0..nextSubID'
      BY <2>2
    <3>2. k \in 0..nextSubID' BY <2>2
    <3>3. [subs[c] EXCEPT ![request[c]] = k] \in [Sessions -> 0..nextSubID']
      BY <3>1, <3>2, <2>0
    <3> QED BY <3>1, <3>3
  <2> QED BY <1>3, <2>1, <2>3 DEF SubscribeSession, BusInv
<1>4. CASE SubscribeNothing(c)
  BY <1>4 DEF SubscribeNothing, BusInv, BusTypeOK, Offering
<1>5. CASE Hangup(c) BY <1>5 DEF Hangup, BusInv, BusTypeOK, Offering
<1>6. CASE CloseConn(c) BY <1>6 DEF CloseConn, BusInv, BusTypeOK, Offering
<1>7. CASE \E s \in Sessions : UnsubscribeDeferred(c, s)
  <2> PICK s \in Sessions : UnsubscribeDeferred(c, s) BY <1>7
  <2>1. BusInv' BY UnsubscribeKeeps DEF UnsubscribeDeferred
  <2>2. nextSubID' = nextSubID BY DEF UnsubscribeDeferred, Unsubscribe
  <2> QED BY <2>1, <2>2 DEF UnsubscribeDeferred, BusInv
<1>8. CASE Malformed(c) BY <1>8 DEF Malformed, BusInv, BusTypeOK, Offering
<1>9. CASE ClientTurns(c)
  <2>1. client' \in [Conns -> {"reads", "stalled", "gone"}]
    <3>1. CASE client' = [client EXCEPT ![c] = "stalled"] BY <3>1
    <3>2. CASE client' = [client EXCEPT ![c] = "gone"] BY <3>2
    <3> QED BY <1>9, <3>1, <3>2 DEF ClientTurns
  <2>2. BusInv' BY <1>9 DEF ClientTurns, BusInv, BusTypeOK, Offering
  <2> QED BY <1>9, <2>1, <2>2 DEF ClientTurns, BusInv
<1>10. CASE Returns(c) BY <1>10 DEF Returns, BusInv, BusTypeOK, Offering
<1>11. CASE RespondPanics(c)
  <2>1. writing' \in [Conns -> SUBSET (Subs \cup {Loop})]
        /\ mixed' \in [Conns -> SUBSET (Subs \cup {Loop})]
    BY <1>11, PanicTypes DEF RespondPanics
  <2>2. BusInv' BY <1>11 DEF RespondPanics, BusInv, BusTypeOK, Offering
  <2> QED BY <1>11, <2>1, <2>2 DEF RespondPanics, BusInv
<1> QED BY <1>1, <1>2, <1>3, <1>4, <1>5, <1>6, <1>7, <1>8, <1>9, <1>10, <1>11 DEF LoopStep

\* The goroutine that forwards a subscription.
LEMMA ForwarderTypes ==
  ASSUME TypeInv, NEW k \in Subs, Forwarder(k) \/ ForwardPanics(k)
  PROVE  TypeInv'
<1> USE DEF TypeInv, TypeOK, ForwardGoto, busVars, jobVars, subVars, outVars, connVars
<1>1. CASE Takes(k)
  <2>1. BusInv' /\ Head(chan[k]) \in Event BY <1>1, ReceiveKeeps DEF Takes
  <2>2. nextSubID' = nextSubID BY <1>1 DEF Takes, Receive
  <2> QED BY <1>1, <2>1, <2>2 DEF Takes, BusInv
<1>2. CASE ForwardBegins(k)
  <2>1. writing' \in [Conns -> SUBSET (Subs \cup {Loop})]
        /\ mixed' \in [Conns -> SUBSET (Subs \cup {Loop})]
    <3>1. CASE connOf[k] \in Conns BY <1>2, <3>1, BeginTypes DEF ForwardBegins
    <3>2. CASE connOf[k] \notin Conns BY <1>2, <3>2 DEF ForwardBegins, WriteBegins
    <3> QED BY <3>1, <3>2
  <2>2. BusInv' BY <1>2 DEF ForwardBegins, BusInv, BusTypeOK, Offering
  <2> QED BY <1>2, <2>1, <2>2 DEF ForwardBegins, BusInv
<1>3. CASE ForwardEnds(k)
  <2>1. wire' \in [Conns -> Seq(Event)] /\ writing' \in [Conns -> SUBSET (Subs \cup {Loop})]
        /\ mixed' \in [Conns -> SUBSET (Subs \cup {Loop})]
    BY <1>3, WriteTypes DEF ForwardEnds
  <2>2. BusInv' BY <1>3 DEF ForwardEnds, BusInv, BusTypeOK, Offering
  <2> QED BY <1>3, <2>1, <2>2 DEF ForwardEnds, BusInv
<1>4. CASE ForwardStops(k) BY <1>4 DEF ForwardStops, BusInv, BusTypeOK, Offering
<1>5. CASE ForwardPanics(k)
  <2>1. writing' \in [Conns -> SUBSET (Subs \cup {Loop})]
        /\ mixed' \in [Conns -> SUBSET (Subs \cup {Loop})]
    BY <1>5, PanicTypes DEF ForwardPanics
  <2>2. BusInv' BY <1>5 DEF ForwardPanics, BusInv, BusTypeOK, Offering
  <2> QED BY <1>5, <2>1, <2>2 DEF ForwardPanics, BusInv
<1> QED BY <1>1, <1>2, <1>3, <1>4, <1>5 DEF Forwarder

\* Every step keeps the types.
LEMMA TypeNext == TypeInv /\ [Next]_vars => TypeInv'
<1> SUFFICES ASSUME TypeInv, [Next]_vars PROVE TypeInv'
  OBVIOUS
<1>1. CASE \E c \in Conns : \E s \in Sessions \cup {NoSession} : Handle(c, s)
  BY <1>1, HandleTypes
<1>2. CASE \E c \in Conns : \/ LoopStep(c) \/ Returns(c) \/ RespondPanics(c)
                           \/ Malformed(c) \/ ClientTurns(c)
  BY <1>2, LoopTypes
<1>3. CASE \E k \in Subs : Forwarder(k) \/ ForwardPanics(k) BY <1>3, ForwarderTypes
<1>4. CASE \E j \in Jobs : Publish(j)
  <2> PICK j \in Jobs : Publish(j) BY <1>4
  <2>1. BusInv' BY PublishKeeps DEF Publish, TypeInv
  <2>2. nextSubID' = nextSubID
    BY DEF Publish, Publisher, PublishBegins, PublishOffers, PublishEnds, busVars
  <2> QED BY <2>1, <2>2 DEF Publish, connVars, outVars, subVars, TypeInv, TypeOK, BusInv
<1>5. CASE UNCHANGED vars
  BY <1>5 DEF vars, busVars, jobVars, connVars, subVars, outVars, TypeInv, TypeOK, BusInv,
     BusTypeOK, Offering
<1> QED BY <1>1, <1>2, <1>3, <1>4, <1>5 DEF Next

\* Every reachable state is well typed: in particular no channel is ever over
\* its capacity.
THEOREM TypeCorrect == Spec => []TypeOK
<1>1. TypeInv => TypeOK BY DEF TypeInv
<1> QED BY <1>1, TypeInit, TypeNext, PTL DEF Spec

\* No publisher ever sends on a closed channel: what it has still to offer to
\* is in the table, where nothing is closed.
THEOREM NothingIsSentOnClosed == Spec => []NoSendOnClosed
<1>1. TypeInv => NoSendOnClosed BY DEF TypeInv, BusInv, Offering, NoSendOnClosed
<1> QED BY <1>1, TypeInit, TypeNext, PTL DEF Spec

-----------------------------------------------------------------------------
(* The mutex of the stdio encoder. *)

AtMostOne == \A c \in Conns : Transport[c] = "stdio" => \E w : writing[c] \subseteq {w}

\* A write begins when no other is under way, and its end begins none.
LEMMA AtMostOneNext == TypeInv /\ AtMostOne /\ [Next]_vars => AtMostOne'
<1> SUFFICES ASSUME TypeInv, AtMostOne, [Next]_vars PROVE AtMostOne'
  OBVIOUS
<1>0. writing \in [Conns -> SUBSET (Subs \cup {Loop})] BY DEF TypeInv, TypeOK
<1>1. ASSUME NEW c, NEW w, WriteBegins(c, w) PROVE AtMostOne'
  BY <1>0, <1>1 DEF AtMostOne, WriteBegins
<1>2. ASSUME NEW c, NEW w, NEW item, WriteEnds(c, w, item) PROVE AtMostOne'
  BY <1>0, <1>2 DEF AtMostOne, WriteEnds, LeavesOutput
<1>9. ASSUME NEW c, NEW w, WritePanics(c, w) PROVE AtMostOne'
  BY <1>0, <1>9 DEF AtMostOne, WritePanics, LeavesOutput
<1>3. ASSUME UNCHANGED writing PROVE AtMostOne'
  BY <1>3 DEF AtMostOne
<1>4. ASSUME NEW c \in Conns, LoopStep(c) PROVE AtMostOne'
  <2>1. CASE RespondBegins(c) BY <1>1, <2>1 DEF RespondBegins
  <2>2. CASE RespondEnds(c) BY <1>2, <2>2 DEF RespondEnds
  <2>3. CASE ~RespondBegins(c) /\ ~RespondEnds(c)
    BY <1>3, <1>4, <2>3 DEF LoopStep, SubscribeSession, SubscribeNothing, Hangup, CloseConn,
       UnsubscribeDeferred, outVars
  <2> QED BY <2>1, <2>2, <2>3
<1>5. ASSUME NEW k \in Subs, Forwarder(k) PROVE AtMostOne'
  <2>1. CASE ForwardBegins(k) BY <1>1, <2>1 DEF ForwardBegins
  <2>2. CASE ForwardEnds(k) BY <1>2, <2>2 DEF ForwardEnds
  <2>3. CASE Takes(k) \/ ForwardStops(k) BY <1>3, <2>3 DEF Takes, ForwardStops
  <2> QED BY <1>5, <2>1, <2>2, <2>3 DEF Forwarder
<1>6. CASE \E c \in Conns : \/ \E s \in Sessions \cup {NoSession} : Handle(c, s)
                            \/ Returns(c) \/ Malformed(c) \/ ClientTurns(c)
  BY <1>3, <1>6 DEF Handle, Returns, Malformed, ClientTurns, outVars
<1>10. CASE \/ \E c \in Conns : RespondPanics(c)
            \/ \E k \in Subs : ForwardPanics(k)
  BY <1>9, <1>10 DEF RespondPanics, ForwardPanics
<1>7. CASE \E j \in Jobs : Publish(j) BY <1>3, <1>7 DEF Publish, outVars
<1>8. CASE UNCHANGED vars BY <1>3, <1>8 DEF vars, outVars
<1> QED BY <1>4, <1>5, <1>6, <1>7, <1>8, <1>10 DEF Next

\* A set with at most one element has at most the cardinality 1.
LEMMA AtMostOneCardinality ==
  ASSUME NEW S, NEW w, S \subseteq {w}
  PROVE  Cardinality(S) <= 1
<1>1. IsFiniteSet({w}) /\ Cardinality({w}) = 1 BY FS_Singleton
<1>2. Cardinality(S) <= Cardinality({w}) BY <1>1, FS_Subset
<1> QED BY <1>1, <1>2

\* Responses and notifications of a stdio server are never written at once.
THEOREM WritersExclude == Spec => []OneWriter
<1>1. Init => AtMostOne BY DEF Init, AtMostOne
<1>2. AtMostOne => OneWriter
  <2> SUFFICES ASSUME AtMostOne, NEW c \in Conns, Transport[c] = "stdio"
               PROVE  Cardinality(writing[c]) <= 1
    BY DEF OneWriter
  <2>1. PICK w : writing[c] \subseteq {w} BY DEF AtMostOne
  <2> QED BY <2>1, AtMostOneCardinality
<1> QED BY <1>1, <1>2, TypeInit, TypeNext, AtMostOneNext, PTL DEF Spec

-----------------------------------------------------------------------------
(* What there is of some jobs in a sequence of notifications.              *)

\* What there is of some jobs in the first k notifications.
Selects(of, s, jobs) ==
  of = [i \in 0..Len(s) |->
          IF i = 0 THEN <<>>
          ELSE IF s[i].job \in jobs THEN Append(of[i - 1], s[i]) ELSE of[i - 1]]

Selection(of, s, jobs) ==
  /\ of[0] = <<>>
  /\ \A i \in 1..Len(s) :
       of[i] = IF s[i].job \in jobs THEN Append(of[i - 1], s[i]) ELSE of[i - 1]

\* The recursive function of OfJobs exists; its values are sequences of
\* notifications.
LEMMA OfJobsExists ==
  ASSUME NEW D, NEW s \in Seq(D), NEW jobs
  PROVE  \E of \in [0..Len(s) -> Seq(D)] :
           Selection(of, s, jobs) /\ OfJobs(s, jobs) = of[Len(s)]
<1> DEFINE Chosen(i, t) == IF s[i].job \in jobs THEN Append(t, s[i]) ELSE t
           step == [i \in 1..Len(s) |-> [t \in Seq(D) |-> Chosen(i, t)]]
           f == CHOOSE of : Selects(of, s, jobs)
<1>0. Len(s) \in Nat /\ <<>> \in Seq(D) OBVIOUS
<1>1. ASSUME NEW i \in 1..Len(s), NEW t \in Seq(D) PROVE Chosen(i, t) \in Seq(D)
  <2>1. s[i] \in D BY <1>0
  <2> QED BY <2>1, AppendProperties
<1>2. step \in [1..Len(s) -> [Seq(D) -> Seq(D)]] BY <1>1
<1> HIDE DEF step
<1>3. PICK g \in [0..Len(s) -> Seq(D)] : Follows(g, <<>>, step, Len(s))
  BY <1>0, <1>2, RecursionExists
<1>4. g[0] = <<>> /\ \A i \in 1..Len(s) : g[i] = step[i][g[i - 1]] BY <1>3 DEF Follows
<1>5. ASSUME NEW i \in 1..Len(s) PROVE g[i] = Chosen(i, g[i - 1])
  <2>1. g[i - 1] \in Seq(D) BY <1>0
  <2>2. step[i][g[i - 1]] = Chosen(i, g[i - 1]) BY <2>1 DEF step
  <2> QED BY <1>4, <2>2
<1>6. Selects(g, s, jobs)
  <2>1. \A i \in 0..Len(s) : g[i] = IF i = 0 THEN <<>> ELSE Chosen(i, g[i - 1])
    <3> TAKE i \in 0..Len(s)
    <3>1. CASE i = 0 BY <1>4, <3>1
    <3>2. CASE i # 0
      <4>1. i \in 1..Len(s) BY <1>0, <3>2
      <4> QED BY <1>5, <3>2, <4>1
    <3> QED BY <3>1, <3>2
  <2>2. g = [i \in 0..Len(s) |-> g[i]] BY <1>3
  <2> QED BY <2>1, <2>2 DEF Selects
<1>7. Selects(f, s, jobs) BY <1>6
<1>8. OfJobs(s, jobs) = f[Len(s)] BY DEF OfJobs, Selects
<1> HIDE DEF f
<1>9. f[0] = <<>> /\ \A i \in 1..Len(s) : f[i] = Chosen(i, f[i - 1])
  <2>1. \A i \in 0..Len(s) : f[i] = IF i = 0 THEN <<>> ELSE Chosen(i, f[i - 1])
    BY <1>7 DEF Selects
  <2> QED BY <1>0, <2>1
<1>10. f \in [0..Len(s) -> Seq(D)]
  <2> DEFINE S == {i \in Nat : i \in 0..Len(s) => f[i] \in Seq(D)}
  <2>1. 0 \in S BY <1>0, <1>9
  <2>2. ASSUME NEW i \in Nat, i \in S PROVE i + 1 \in S
    <3> SUFFICES ASSUME i + 1 \in 0..Len(s) PROVE f[i + 1] \in Seq(D)
      OBVIOUS
    <3>1. f[i] \in Seq(D) /\ i + 1 \in 1..Len(s) /\ (i + 1) - 1 = i BY <1>0, <2>2
    <3>2. f[i + 1] = Chosen(i + 1, f[i]) BY <1>9, <3>1
    <3> QED BY <1>1, <3>1, <3>2
  <2>3. Nat \subseteq S
    <3> HIDE DEF S
    <3> QED BY <2>1, <2>2, NatInductionOnSets
  <2>4. \A i \in 0..Len(s) : f[i] \in Seq(D) BY <1>0, <2>3
  <2>5. DOMAIN f = 0..Len(s) /\ f = [i \in 0..Len(s) |-> f[i]] BY <1>7 DEF Selects
  <2> QED BY <2>4, <2>5
<1> QED BY <1>8, <1>9, <1>10 DEF Selection

\* Two such functions agree as far as the sequences do.
LEMMA SelectionsAgree ==
  ASSUME NEW s, NEW t, NEW jobs, NEW others, NEW f, NEW g,
         Selection(f, s, jobs), Selection(g, t, others),
         Len(s) \in Nat, Len(t) \in Nat, NEW m \in Nat, m <= Len(s), m <= Len(t),
         \A i \in 1..m : s[i] = t[i] /\ (s[i].job \in jobs <=> s[i].job \in others)
  PROVE  f[m] = g[m]
<1> DEFINE S == {i \in Nat : i \in 0..m => f[i] = g[i]}
<1>1. 0 \in S BY DEF Selection
<1>2. ASSUME NEW i \in Nat, i \in S PROVE i + 1 \in S
  <2> SUFFICES ASSUME i + 1 \in 0..m PROVE f[i + 1] = g[i + 1]
    OBVIOUS
  <2>1. /\ i + 1 \in 1..m /\ i + 1 \in 1..Len(s) /\ i + 1 \in 1..Len(t)
        /\ (i + 1) - 1 = i /\ f[i] = g[i]
    BY <1>2
  <2>2. f[i + 1] = IF s[i + 1].job \in jobs THEN Append(f[i], s[i + 1]) ELSE f[i]
    BY <2>1 DEF Selection
  <2>3. g[i + 1] = IF t[i + 1].job \in others THEN Append(g[i], t[i + 1]) ELSE g[i]
    BY <2>1 DEF Selection
  <2> QED BY <2>1, <2>2, <2>3
<1>3. Nat \subseteq S
  <2> HIDE DEF S
  <2> QED BY <1>1, <1>2, NatInductionOnSets
<1> QED BY <1>3

\* What there is of some jobs is a sequence of notifications.
LEMMA OfJobsType ==
  ASSUME NEW D, NEW s \in Seq(D), NEW jobs
  PROVE  OfJobs(s, jobs) \in Seq(D)
<1>1. PICK f \in [0..Len(s) -> Seq(D)] :
           Selection(f, s, jobs) /\ OfJobs(s, jobs) = f[Len(s)]
  BY OfJobsExists
<1>2. Len(s) \in 0..Len(s) OBVIOUS
<1> QED BY <1>1, <1>2

\* There is nothing of jobs that occur nowhere.
LEMMA OfJobsNone ==
  ASSUME NEW D, NEW s \in Seq(D), NEW jobs, \A i \in 1..Len(s) : s[i].job \notin jobs
  PROVE  OfJobs(s, jobs) = <<>>
<1>1. PICK f : Selection(f, s, jobs) /\ OfJobs(s, jobs) = f[Len(s)] BY OfJobsExists
<1> DEFINE S == {i \in Nat : i \in 0..Len(s) => f[i] = <<>>}
<1>2. 0 \in S BY <1>1 DEF Selection
<1>3. ASSUME NEW i \in Nat, i \in S PROVE i + 1 \in S
  <2> SUFFICES ASSUME i + 1 \in 0..Len(s) PROVE f[i + 1] = <<>>
    OBVIOUS
  <2>1. i + 1 \in 1..Len(s) /\ (i + 1) - 1 = i /\ f[i] = <<>> BY <1>3
  <2> QED BY <1>1, <2>1 DEF Selection
<1>4. Nat \subseteq S
  <2> HIDE DEF S
  <2> QED BY <1>2, <1>3, NatInductionOnSets
<1> QED BY <1>1, <1>4

\* What is asked of other jobs makes no difference if they occur nowhere.
LEMMA OfJobsSame ==
  ASSUME NEW D, NEW s \in Seq(D), NEW jobs, NEW others,
         \A i \in 1..Len(s) : s[i].job \in jobs <=> s[i].job \in others
  PROVE  OfJobs(s, jobs) = OfJobs(s, others)
<1>1. PICK f : Selection(f, s, jobs) /\ OfJobs(s, jobs) = f[Len(s)] BY OfJobsExists
<1>2. PICK g : Selection(g, s, others) /\ OfJobs(s, others) = g[Len(s)] BY OfJobsExists
<1>3. Len(s) \in Nat /\ Len(s) <= Len(s) OBVIOUS
<1>4. f[Len(s)] = g[Len(s)] BY <1>1, <1>2, <1>3, SelectionsAgree
<1> QED BY <1>1, <1>2, <1>4

\* One more notification is one more if it is of one of the jobs.
LEMMA OfJobsAppend ==
  ASSUME NEW D, NEW s \in Seq(D), NEW e \in D, NEW jobs
  PROVE  /\ OfJobs(s, jobs) \in Seq(D)
         /\ OfJobs(Append(s, e), jobs) =
              IF e.job \in jobs THEN Append(OfJobs(s, jobs), e) ELSE OfJobs(s, jobs)
<1> DEFINE t == Append(s, e)
           m == Len(s)
<1>0. /\ m \in Nat /\ t \in Seq(D) /\ Len(t) = m + 1 /\ t[m + 1] = e
      /\ \A i \in 1..m : t[i] = s[i]
  BY AppendProperties
<1>1. PICK f \in [0..Len(s) -> Seq(D)] :
           Selection(f, s, jobs) /\ OfJobs(s, jobs) = f[Len(s)]
  BY OfJobsExists
<1> HIDE DEF t
<1>2. PICK g \in [0..Len(t) -> Seq(D)] :
           Selection(g, t, jobs) /\ OfJobs(t, jobs) = g[Len(t)]
  BY <1>0, OfJobsExists
<1>3. f[m] = g[m]
  <2>1. m <= Len(s) /\ m <= Len(t) /\ Len(t) \in Nat BY <1>0
  <2>2. \A i \in 1..m : s[i] = t[i] /\ (s[i].job \in jobs <=> s[i].job \in jobs) BY <1>0
  <2>3. Selection(f, s, jobs) /\ Selection(g, t, jobs) BY <1>1, <1>2
  <2>4. Len(s) \in Nat /\ m \in Nat BY <1>0
  <2> HIDE DEF m
  <2> QED BY <2>1, <2>2, <2>3, <2>4, SelectionsAgree
<1>4. g[m + 1] = IF t[m + 1].job \in jobs THEN Append(g[m], t[m + 1]) ELSE g[m]
  <2>1. m + 1 \in 1..Len(t) /\ (m + 1) - 1 = m BY <1>0
  <2> QED BY <1>2, <2>1 DEF Selection
<1>5. f[m] \in Seq(D)
  <2>1. m \in 0..Len(s) BY <1>0
  <2> QED BY <1>1, <2>1
<1> QED BY <1>0, <1>1, <1>2, <1>3, <1>4, <1>5 DEF t

-----------------------------------------------------------------------------
(* What is on its way to a client: of the notifications offered, the one    *)
(* its forwarder holds and then those in the channel, each offered later    *)
(* than the one before and than the last one delivered.                     *)

Distinct(o) == \A i, j \in DOMAIN o : o[i] = o[j] => i = j
Elements(o) == {o[i] : i \in DOMAIN o}
Place(o, e) == CHOOSE i \in DOMAIN o : o[i] = e

Queue(o, last, h, q) ==
  /\ \A m \in DOMAIN q : q[m] \in Elements(o) /\ last < Place(o, q[m])
  /\ \A l, m \in DOMAIN q : l < m => Place(o, q[l]) < Place(o, q[m])
  /\ h # Response =>
       /\ h \in Elements(o) /\ last < Place(o, h)
       /\ \A m \in DOMAIN q : Place(o, h) < Place(o, q[m])

\* The place of an element among distinct ones.
LEMMA PlaceIs ==
  ASSUME NEW o, Distinct(o), NEW i \in DOMAIN o
  PROVE  Place(o, o[i]) = i
BY DEF Place, Distinct

\* An element that comes last leaves the others at their places.
LEMMA PlaceAppended ==
  ASSUME NEW o \in Seq(Event), Distinct(o), NEW e \in Event, e \notin Elements(o)
  PROVE  /\ Distinct(Append(o, e))
         /\ Elements(Append(o, e)) = Elements(o) \cup {e}
         /\ Place(Append(o, e), e) = Len(o) + 1
         /\ \A d \in Elements(o) :
              Place(Append(o, e), d) = Place(o, d) /\ Place(o, d) \in 1..Len(o)
<1> DEFINE p == Append(o, e)
           m == Len(o)
<1>0. /\ m \in Nat /\ DOMAIN o = 1..m /\ DOMAIN p = 1..(m + 1) /\ p[m + 1] = e
      /\ \A i \in 1..m : p[i] = o[i]
  BY AppendProperties
<1> HIDE DEF p, m
<1>1. Distinct(p)
  <2> SUFFICES ASSUME NEW i \in DOMAIN p, NEW j \in DOMAIN p, p[i] = p[j] PROVE i = j
    BY DEF Distinct
  <2>1. ASSUME NEW l \in DOMAIN p PROVE l \in DOMAIN o \/ l = m + 1 BY <1>0
  <2>2. \A l \in DOMAIN o : p[l] # e BY <1>0 DEF Elements
  <2> QED BY <1>0, <2>1, <2>2 DEF Distinct
<1>2. Elements(p) = Elements(o) \cup {e}
  <2>1. ASSUME NEW d \in Elements(p) PROVE d \in Elements(o) \cup {e}
    <3> PICK i \in DOMAIN p : d = p[i] BY <2>1 DEF Elements
    <3>1. i \in DOMAIN o \/ i = m + 1 BY <1>0
    <3> QED BY <1>0, <3>1 DEF Elements
  <2>2. ASSUME NEW d \in Elements(o) PROVE d \in Elements(p)
    <3> PICK i \in DOMAIN o : d = o[i] BY <2>2 DEF Elements
    <3>1. i \in DOMAIN p /\ p[i] = d BY <1>0
    <3> QED BY <3>1 DEF Elements
  <2>3. e \in Elements(p)
    <3>1. m + 1 \in DOMAIN p BY <1>0
    <3> QED BY <1>0, <3>1 DEF Elements
  <2> QED BY <2>1, <2>2, <2>3
<1>3. Place(p, e) = m + 1
  <2>1. m + 1 \in DOMAIN p BY <1>0
  <2> QED BY <1>0, <1>1, <2>1, PlaceIs
<1>4. ASSUME NEW d \in Elements(o) PROVE Place(p, d) = Place(o, d) /\ Place(o, d) \in 1..m
  <2> PICK i \in DOMAIN o : d = o[i] BY DEF Elements
  <2>1. i \in DOMAIN p /\ p[i] = d BY <1>0
  <2> QED BY <1>0, <1>1, <2>1, PlaceIs
<1> QED BY <1>1, <1>2, <1>3, <1>4 DEF p, m

\* A place is a number from 1 to the length.
LEMMA PlaceType ==
  ASSUME NEW o \in Seq(Event), NEW e \in Elements(o)
  PROVE  Place(o, e) \in 1..Len(o) /\ o[Place(o, e)] = e
BY DEF Place, Elements

\* Offering a notification, whether or not there is room for it.
LEMMA QueueOffer ==
  ASSUME NEW o \in Seq(Event), Distinct(o), NEW e \in Event, e \notin Elements(o),
         NEW last \in 0..Len(o), NEW h, NEW q \in Seq(Event), Queue(o, last, h, q)
  PROVE  /\ Queue(Append(o, e), last, h, q)
         /\ Queue(Append(o, e), last, h, Append(q, e))
<1> DEFINE p == Append(o, e)
           r == Append(q, e)
<1>1. /\ Elements(p) = Elements(o) \cup {e} /\ Place(p, e) = Len(o) + 1
      /\ \A d \in Elements(o) : Place(p, d) = Place(o, d) /\ Place(o, d) \in 1..Len(o)
  BY PlaceAppended
<1>2. /\ Len(q) \in Nat /\ DOMAIN q = 1..Len(q) /\ DOMAIN r = 1..(Len(q) + 1)
      /\ r[Len(q) + 1] = e /\ \A m \in DOMAIN q : r[m] = q[m]
  BY AppendProperties
<1> HIDE DEF p, r
<1>3. Queue(p, last, h, q) BY <1>1 DEF Queue
<1>4. \A m \in DOMAIN r : m \in DOMAIN q \/ (m = Len(q) + 1 /\ r[m] = e) BY <1>2
<1>5. \A d \in Elements(o) : Place(p, d) < Place(p, e) BY <1>1
<1>6. last < Place(p, e) BY <1>1
<1>7. ASSUME NEW m \in DOMAIN r PROVE r[m] \in Elements(p) /\ last < Place(p, r[m])
  BY <1>1, <1>2, <1>3, <1>4, <1>6 DEF Queue
<1>8. ASSUME NEW l \in DOMAIN r, NEW m \in DOMAIN r, l < m
      PROVE  Place(p, r[l]) < Place(p, r[m])
  <2>1. l \in DOMAIN q BY <1>2, <1>8
  <2>2. CASE m \in DOMAIN q BY <1>2, <1>3, <1>8, <2>1, <2>2 DEF Queue
  <2>3. CASE r[m] = e
    <3>1. q[l] \in Elements(o) BY <2>1 DEF Queue
    <3> QED BY <1>2, <1>5, <2>1, <2>3, <3>1
  <2> QED BY <1>4, <2>2, <2>3
<1>9. ASSUME h # Response
      PROVE  /\ h \in Elements(p) /\ last < Place(p, h)
             /\ \A m \in DOMAIN r : Place(p, h) < Place(p, r[m])
  <2>1. h \in Elements(o) BY <1>9 DEF Queue
  <2>2. ASSUME NEW m \in DOMAIN r PROVE Place(p, h) < Place(p, r[m])
    <3>1. CASE m \in DOMAIN q BY <1>2, <1>3, <1>9, <3>1 DEF Queue
    <3>2. CASE r[m] = e BY <1>5, <2>1, <3>2
    <3> QED BY <1>4, <3>1, <3>2
  <2> QED BY <1>1, <1>3, <1>9, <2>2 DEF Queue
<1>10. Queue(p, last, h, r) BY <1>7, <1>8, <1>9 DEF Queue
<1> QED BY <1>3, <1>10 DEF p, r

\* Taking the first of the channel.
LEMMA QueueTakes ==
  ASSUME NEW o, NEW last, NEW h, NEW q \in Seq(Event), q # <<>>, Queue(o, last, h, q)
  PROVE  Queue(o, last, Head(q), Tail(q))
<1>1. /\ Len(q) \in Nat /\ Len(q) > 0 /\ DOMAIN q = 1..Len(q) /\ Head(q) = q[1]
      /\ DOMAIN Tail(q) = 1..(Len(q) - 1)
      /\ \A m \in 1..(Len(q) - 1) : Tail(q)[m] = q[m + 1]
  OBVIOUS
<1>2. \A m \in DOMAIN Tail(q) : m + 1 \in DOMAIN q /\ 1 < m + 1 /\ Tail(q)[m] = q[m + 1]
  BY <1>1
<1>3. \A l, m \in DOMAIN Tail(q) : l < m => l + 1 < m + 1 BY <1>1
<1>4. 1 \in DOMAIN q BY <1>1
<1> QED BY <1>1, <1>2, <1>3, <1>4 DEF Queue

\* What is held has been delivered, or is dropped.
LEMMA QueueEnds ==
  ASSUME NEW o, NEW last, NEW h, NEW q, Queue(o, last, h, q)
  PROVE  /\ Queue(o, last, Response, q)
         /\ h # Response => Queue(o, Place(o, h), Response, q)
BY DEF Queue

\* The place of the last element of a sequence, which is there.
LEMMA LastPlaceIs ==
  ASSUME NEW o \in Seq(Event), Distinct(o), NEW d \in Seq(Event),
         d # <<>> => d[Len(d)] \in Elements(o)
  PROVE  /\ LastPlace(o, d) = IF d = <<>> THEN 0 ELSE Place(o, d[Len(d)])
         /\ LastPlace(o, d) \in 0..Len(o)
<1>1. CASE d = <<>> BY <1>1 DEF LastPlace
<1>2. CASE d # <<>>
  <2> PICK i \in DOMAIN o : o[i] = d[Len(d)] BY <1>2 DEF Elements
  <2>1. {l \in DOMAIN o : d # <<>> /\ o[l] = d[Len(d)]} = {i} BY <1>2 DEF Distinct
  <2>2. LastPlace(o, d) = i BY <2>1 DEF LastPlace
  <2>3. Place(o, d[Len(d)]) = i BY PlaceIs
  <2>4. i \in 0..Len(o) OBVIOUS
  <2> QED BY <1>2, <2>2, <2>3, <2>4
<1> QED BY <1>1, <1>2

\* It stays there when something is offered.
LEMMA LastPlaceStays ==
  ASSUME NEW o \in Seq(Event), Distinct(o), NEW e \in Event, e \notin Elements(o),
         NEW d \in Seq(Event), d # <<>> => d[Len(d)] \in Elements(o)
  PROVE  LastPlace(Append(o, e), d) = LastPlace(o, d)
<1> DEFINE p == Append(o, e)
<1>1. /\ p \in Seq(Event) /\ Distinct(p) /\ Elements(p) = Elements(o) \cup {e}
      /\ \A c \in Elements(o) : Place(p, c) = Place(o, c)
  BY PlaceAppended, AppendProperties
<1> HIDE DEF p
<1>2. LastPlace(p, d) = IF d = <<>> THEN 0 ELSE Place(p, d[Len(d)]) BY <1>1, LastPlaceIs
<1>3. LastPlace(o, d) = IF d = <<>> THEN 0 ELSE Place(o, d[Len(d)]) BY LastPlaceIs
<1> QED BY <1>1, <1>2, <1>3 DEF p

-----------------------------------------------------------------------------
(* What is offered: each notification once to a channel, numbered up to the *)
(* count of its job, of jobs that have the channel's session for a home.    *)

Drawn ==
  \A k \in Subs : \A i \in DOMAIN offers[k] :
    LET e == offers[k][i] IN
    /\ e.n <= count[e.job]
    /\ k \in pending[e.job] => e.n < count[e.job]
    /\ home[e.job] = topic[k]
    /\ k <= nextSubID

Targets ==
  \A j \in Jobs :
    /\ count[j] > 0 => home[j] # NoSession
    /\ \A k \in pending[j] : topic[k] = home[j]

OnceOffered == \A k \in Subs : Distinct(offers[k])

\* A connection has one subscription to a session, and its goroutine runs.
Table ==
  \A k \in Subs : fwd[k] # "off" =>
    connOf[k] \in Conns /\ topic[k] \in Sessions /\ subs[connOf[k]][topic[k]] = k

\* Only what a connection subscribes to is on its wire.
OnWire ==
  \A c \in Conns : \A i \in DOMAIN wire[c] :
    LET s == home[wire[c][i].job] IN s \in Sessions /\ subs[c][s] # 0

LastIsOffered(k) ==
  Delivered(k) # <<>> => Delivered(k)[Len(Delivered(k))] \in Elements(offers[k])

InOrder(k) ==
  /\ LastIsOffered(k)
  /\ Queue(offers[k], LastPlace(offers[k], Delivered(k)), held[k], chan[k])

OffersInv == TypeInv /\ Drawn /\ Targets /\ OnceOffered
TableInv == Table /\ OnWire
FifoInv == OffersInv /\ TableInv /\ \A k \in Subs : InOrder(k)

\* A notification names its job and its number.
LEMMA EventParts == \A e \in Event : e.job \in Jobs /\ e.n \in 1..Events[e.job] /\ e.n \in Nat \ {0}
BY BusAssumption DEF Event

\* What was offered is typed.
LEMMA OfferedParts ==
  ASSUME TypeInv, NEW k \in Subs, NEW i \in DOMAIN offers[k]
  PROVE  /\ offers[k][i] \in Event /\ offers[k][i].job \in Jobs
         /\ offers[k][i].n \in Nat /\ offers[k][i].n > 0
         /\ offers[k][i].n <= Events[offers[k][i].job]
<1>1. offers[k][i] \in Event BY DEF TypeInv, BusInv, BusTypeOK
<1> QED BY <1>1, EventParts, BusAssumption

\* An offer is of a notification that the channel has not been offered.
LEMMA OfferIsNew ==
  ASSUME OffersInv, NEW j \in Jobs, NEW k \in Subs, PublishOffers(j, k)
  PROVE  /\ [job |-> j, n |-> count[j]] \in Event
         /\ [job |-> j, n |-> count[j]] \notin Elements(offers[k])
<1>1. publishing[j] /\ count[j] > 0 /\ count[j] \in Nat /\ count[j] <= Events[j]
  BY DEF PublishOffers, OffersInv, TypeInv, BusInv, Offering, BusTypeOK
<1>2. [job |-> j, n |-> count[j]] \in Event BY <1>1, BusAssumption DEF Event
<1>3. ASSUME NEW i \in DOMAIN offers[k], offers[k][i] = [job |-> j, n |-> count[j]]
      PROVE  FALSE
  <2>1. k \in pending[j] BY DEF PublishOffers
  <2>2. count[j] < count[j] BY <1>3, <2>1 DEF OffersInv, Drawn
  <2> QED BY <1>1, <2>2
<1> QED BY <1>2, <1>3 DEF Elements

\* Steps that leave the bus alone keep it.
LEMMA OffersStill ==
  ASSUME OffersInv, TypeInv', UNCHANGED <<offers, count, pending, home, topic, nextSubID>>
  PROVE  OffersInv'
BY DEF OffersInv, Drawn, Targets, OnceOffered

\* A job that publishes has a home for good.
LEMMA HomeIsFixed ==
  ASSUME OffersInv, NEW j \in Jobs, home[j] = NoSession
  PROVE  /\ pending[j] = {}
         /\ \A k \in Subs : \A i \in DOMAIN offers[k] : offers[k][i].job # j
<1>1. count[j] \in Nat /\ ~ count[j] > 0
  BY DEF OffersInv, TypeInv, BusInv, BusTypeOK, Targets
<1>2. pending[j] = {} BY <1>1 DEF OffersInv, TypeInv, BusInv, Offering
<1>3. ASSUME NEW k \in Subs, NEW i \in DOMAIN offers[k], offers[k][i].job = j PROVE FALSE
  <2>1. offers[k][i].n \in Nat /\ offers[k][i].n > 0 BY OfferedParts DEF OffersInv
  <2>2. offers[k][i].n <= count[j] BY <1>3 DEF OffersInv, Drawn
  <2> QED BY <1>1, <2>1, <2>2
<1> QED BY <1>2, <1>3

\* A request that starts a job gives a home to one that has published nothing.
LEMMA HandleKeepsOffers ==
  ASSUME OffersInv, NEW c \in Conns, NEW s \in Sessions \cup {NoSession}, Handle(c, s)
  PROVE  OffersInv'
<1>1. TypeInv' BY HandleTypes DEF OffersInv
<1>2. UNCHANGED <<offers, count, pending, topic, nextSubID>> BY DEF Handle, busVars
<1>3. CASE UNCHANGED home BY <1>1, <1>2, <1>3, OffersStill
<1>4. CASE \E j \in Jobs : s # NoSession /\ home[j] = NoSession /\ home' = [home EXCEPT ![j] = s]
  <2> PICK j \in Jobs : s # NoSession /\ home[j] = NoSession /\ home' = [home EXCEPT ![j] = s]
    BY <1>4
  <2>1. /\ pending[j] = {}
        /\ \A k \in Subs : \A i \in DOMAIN offers[k] : offers[k][i].job # j
    BY HomeIsFixed
  <2>2. home \in [Jobs -> Sessions \cup {NoSession}]
    BY DEF OffersInv, TypeInv, BusInv, BusTypeOK
  <2>3. \A i \in Jobs : i # j => home'[i] = home[i] BY <2>2
  <2>4. home'[j] = s BY <2>2
  <2>5. Drawn'
    <3> SUFFICES ASSUME NEW k \in Subs, NEW i \in DOMAIN offers[k]
                 PROVE  home'[offers[k][i].job] = topic[k]
      BY <1>2 DEF OffersInv, Drawn
    <3>1. offers[k][i].job \in Jobs BY OfferedParts DEF OffersInv
    <3> QED BY <2>1, <2>3, <3>1 DEF OffersInv, Drawn
  <2>6. Targets'
    <3> SUFFICES ASSUME NEW i \in Jobs
                 PROVE  /\ count[i] > 0 => home'[i] # NoSession
                        /\ \A k \in pending[i] : topic[k] = home'[i]
      BY <1>2 DEF Targets
    <3>1. CASE i = j BY <2>1, <2>4, <3>1
    <3>2. CASE i # j BY <2>3, <3>2 DEF OffersInv, Targets
    <3> QED BY <3>1, <3>2
  <2> QED BY <1>1, <1>2, <2>5, <2>6 DEF OffersInv, OnceOffered
<1> QED BY <1>3, <1>4 DEF Handle

\* A new subscription is one that nothing has been offered to.
LEMMA SubscribeKeepsOffers ==
  ASSUME OffersInv, TypeInv', NEW k \in Subs, NEW s \in Sessions, Subscribe(k, s)
  PROVE  OffersInv' /\ offers[k] = <<>>
<1>1. /\ k = nextSubID + 1 /\ nextSubID' = k /\ topic' = [topic EXCEPT ![k] = s]
      /\ UNCHANGED <<chan, home, count, pending, offers>>
  BY DEF Subscribe, jobVars
<1>2. nextSubID \in Nat /\ topic \in [Subs -> Sessions \cup {NoSession}] /\ k \in Nat
  BY BusAssumption DEF OffersInv, TypeInv, BusInv, BusTypeOK, Subs
<1>3. \A i \in DOMAIN offers[k] : FALSE BY <1>1, <1>2 DEF OffersInv, Drawn
<1>4. offers[k] \in Seq(Event) BY DEF OffersInv, TypeInv, BusInv, BusTypeOK
<1>5. offers[k] = <<>>
  <2>1. offers[k] # <<>> => 1 \in DOMAIN offers[k] BY <1>4
  <2> QED BY <1>3, <2>1
<1>6. Drawn'
  <2> SUFFICES ASSUME NEW l \in Subs, NEW i \in DOMAIN offers[l]
               PROVE  home[offers[l][i].job] = topic'[l] /\ l <= nextSubID'
    BY <1>1 DEF OffersInv, Drawn
  <2>1. l # k BY <1>3
  <2>2. home[offers[l][i].job] = topic[l] /\ l <= nextSubID BY DEF OffersInv, Drawn
  <2>3. l \in Nat BY DEF Subs
  <2> QED BY <1>1, <1>2, <2>1, <2>2, <2>3
<1>7. Targets'
  <2>1. \A j \in Jobs : k \notin pending[j]
    <3> SUFFICES ASSUME NEW j \in Jobs, k \in pending[j] PROVE FALSE
      OBVIOUS
    <3>1. k \in 1..nextSubID BY DEF OffersInv, TypeInv, BusInv, BusTypeOK, Offering
    <3> QED BY <1>1, <1>2, <3>1
  <2>2. \A j \in Jobs : pending[j] \subseteq Subs BY DEF OffersInv, TypeInv, BusInv, BusTypeOK
  <2> QED BY <1>1, <1>2, <2>1, <2>2 DEF OffersInv, Targets
<1> QED BY <1>1, <1>5, <1>6, <1>7 DEF OffersInv, OnceOffered

\* A job numbers what it publishes.
LEMMA PublishKeepsOffers ==
  ASSUME OffersInv, TypeInv', NEW j \in Jobs, Publisher(j)
  PROVE  OffersInv'
<1> USE DEF OffersInv
<1>0. /\ count \in [Jobs -> Nat] /\ pending \in [Jobs -> SUBSET Subs]
      /\ offers \in [Subs -> Seq(Event)]
  BY DEF TypeInv, BusInv, BusTypeOK
<1>1. CASE PublishBegins(j)
  <2>1. /\ home[j] # NoSession /\ count' = [count EXCEPT ![j] = @ + 1]
        /\ pending' = [pending EXCEPT ![j] = {k \in subscribed : topic[k] = home[j]}]
        /\ UNCHANGED <<offers, home, topic, nextSubID>>
    BY <1>1 DEF PublishBegins, busVars
  <2>2. pending[j] = {} BY <1>1 DEF PublishBegins, TypeInv, BusInv, Offering
  <2>3. Drawn'
    <3> SUFFICES ASSUME NEW k \in Subs, NEW i \in DOMAIN offers[k]
                 PROVE  /\ offers[k][i].n <= count'[offers[k][i].job]
                        /\ k \in pending'[offers[k][i].job] =>
                             offers[k][i].n < count'[offers[k][i].job]
      BY <2>1 DEF Drawn
    <3> DEFINE e == offers[k][i]
    <3>1. e.job \in Jobs /\ e.n \in Nat BY OfferedParts
    <3>2. e.n <= count[e.job] /\ (k \in pending[e.job] => e.n < count[e.job]) BY DEF Drawn
    <3> HIDE DEF e
    <3>3. CASE e.job = j
      <4>1. count'[e.job] = count[e.job] + 1 /\ count[e.job] \in Nat
        BY <1>0, <2>1, <3>1, <3>3
      <4>2. e.n <= count'[e.job] /\ e.n < count'[e.job] BY <3>1, <3>2, <4>1
      <4> QED BY <4>2 DEF e
    <3>4. CASE e.job # j
      <4>1. count'[e.job] = count[e.job] /\ pending'[e.job] = pending[e.job]
        BY <1>0, <2>1, <3>1, <3>4
      <4>2. /\ e.n <= count'[e.job]
            /\ k \in pending'[e.job] => e.n < count'[e.job]
        BY <3>2, <4>1
      <4> QED BY <4>2 DEF e
    <3> QED BY <3>3, <3>4
  <2>4. Targets' BY <1>0, <2>1 DEF Targets
  <2> QED BY <2>1, <2>3, <2>4 DEF OnceOffered
<1>2. ASSUME NEW k \in Subs, PublishOffers(j, k) PROVE OffersInv'
  <2> DEFINE e == [job |-> j, n |-> count[j]]
  <2>1. /\ offers' = [offers EXCEPT ![k] = Append(@, e)]
        /\ pending' = [pending EXCEPT ![j] = @ \ {k}] /\ k \in pending[j]
        /\ UNCHANGED <<home, count, topic, nextSubID>>
    BY <1>2 DEF PublishOffers
  <2>2. e \in Event /\ e \notin Elements(offers[k]) BY <1>2, OfferIsNew
  <2>3. e.job = j /\ e.n = count[j] OBVIOUS
  <2> HIDE DEF e
  <2>4. \A l \in Subs : l # k => offers'[l] = offers[l] BY <1>0, <2>1
  <2>5. offers'[k] = Append(offers[k], e) /\ offers[k] \in Seq(Event) BY <1>0, <2>1
  <2>6. OnceOffered' BY <2>2, <2>4, <2>5, PlaceAppended DEF OnceOffered
  <2>7. Drawn'
    <3> SUFFICES ASSUME NEW l \in Subs, NEW i \in DOMAIN offers'[l]
                 PROVE  LET d == offers'[l][i] IN
                        /\ d.n <= count[d.job] /\ (l \in pending'[d.job] => d.n < count[d.job])
                        /\ home[d.job] = topic[l] /\ l <= nextSubID
      BY <2>1 DEF Drawn
    <3>1. CASE i \in DOMAIN offers[l] /\ offers'[l][i] = offers[l][i]
      <4>1. offers[l][i].job \in Jobs BY <3>1, OfferedParts
      <4>2. pending'[offers[l][i].job] \subseteq pending[offers[l][i].job] BY <1>0, <2>1, <4>1
      <4> QED BY <3>1, <4>2 DEF Drawn
    <3>2. CASE l = k /\ offers'[l][i] = e
      <4>1. k \notin pending'[j] BY <1>0, <2>1
      <4>2. topic[k] = home[j] BY <2>1 DEF Targets
      <4>3. k <= nextSubID
        <5>1. k \in 1..nextSubID BY <2>1 DEF TypeInv, BusInv, BusTypeOK, Offering
        <5> QED BY <5>1
      <4>4. count[j] \in Nat BY <1>0
      <4> QED BY <2>3, <3>2, <4>1, <4>2, <4>3, <4>4
    <3>3. \/ i \in DOMAIN offers[l] /\ offers'[l][i] = offers[l][i]
          \/ l = k /\ offers'[l][i] = e
      <4>1. CASE l # k BY <2>4, <4>1
      <4>2. CASE l = k
        <5>1. i \in 1..(Len(offers[k]) + 1) /\ Len(offers[k]) \in Nat
          BY <2>2, <2>5, <4>2, AppendProperties
        <5>2. CASE i = Len(offers[k]) + 1 BY <2>2, <2>5, <4>2, <5>2, AppendProperties
        <5>3. CASE i # Len(offers[k]) + 1
          <6>1. i \in 1..Len(offers[k]) BY <5>1, <5>3
          <6> QED BY <2>2, <2>5, <4>2, <6>1, AppendProperties
        <5> QED BY <5>2, <5>3
      <4> QED BY <4>1, <4>2
    <3> QED BY <3>1, <3>2, <3>3
  <2>8. Targets' BY <1>0, <2>1 DEF Targets
  <2> QED BY <2>6, <2>7, <2>8
<1>3. CASE PublishEnds(j) BY <1>3, OffersStill DEF PublishEnds, busVars
<1> QED BY <1>1, <1>2, <1>3 DEF Publisher

\* Every step keeps what is offered in order.
LEMMA OffersNext == OffersInv /\ [Next]_vars => OffersInv'
<1> SUFFICES ASSUME OffersInv, [Next]_vars PROVE OffersInv'
  OBVIOUS
<1>0. TypeInv' BY TypeNext DEF OffersInv
<1>1. CASE \E c \in Conns : \E s \in Sessions \cup {NoSession} : Handle(c, s)
  BY <1>1, HandleKeepsOffers
<1>2. ASSUME NEW c \in Conns, \/ LoopStep(c) \/ Returns(c) \/ RespondPanics(c)
                              \/ Malformed(c) \/ ClientTurns(c)
      PROVE  OffersInv'
  <2>1. CASE SubscribeSession(c)
    <3> PICK k \in Subs : Subscribe(k, request[c]) BY <2>1 DEF SubscribeSession
    <3>1. request[c] \in Sessions BY <2>1 DEF SubscribeSession, Wanted, OffersInv, TypeInv, TypeOK
    <3> QED BY <1>0, <3>1, SubscribeKeepsOffers
  <2>2. CASE ~ SubscribeSession(c)
    <3>1. UNCHANGED <<offers, count, pending, home, topic, nextSubID>>
      BY <1>2, <2>2 DEF LoopStep, RespondBegins, RespondEnds, SubscribeNothing, Hangup, CloseConn,
         Returns, RespondPanics, UnsubscribeDeferred, Unsubscribe, Malformed, ClientTurns, busVars, jobVars
    <3> QED BY <1>0, <3>1, OffersStill
  <2> QED BY <2>1, <2>2
<1>3. ASSUME NEW k \in Subs, Forwarder(k) \/ ForwardPanics(k) PROVE OffersInv'
  <2>1. UNCHANGED <<offers, count, pending, home, topic, nextSubID>>
    BY <1>3 DEF Forwarder, Takes, Receive, ForwardBegins, ForwardEnds, ForwardStops,
       ForwardPanics, busVars, jobVars
  <2> QED BY <1>0, <2>1, OffersStill
<1>4. CASE \E j \in Jobs : Publish(j) BY <1>0, <1>4, PublishKeepsOffers DEF Publish
<1>5. CASE UNCHANGED vars BY <1>0, <1>5, OffersStill DEF vars, busVars, jobVars
<1> QED BY <1>1, <1>2, <1>3, <1>4, <1>5 DEF Next

-----------------------------------------------------------------------------
(* What is delivered. *)

\* The types that the following steps use.
LEMMA FifoTypes ==
  ASSUME FifoInv
  PROVE  /\ offers \in [Subs -> Seq(Event)] /\ chan \in [Subs -> Seq(Event)]
         /\ held \in [Subs -> Event \cup {Response}]
         /\ wire \in [Conns -> Seq(Event)] /\ home \in [Jobs -> Sessions \cup {NoSession}]
         /\ subs \in [Conns -> [Sessions -> 0..nextSubID]] /\ nextSubID \in Nat
         /\ connOf \in [Subs -> Conns \cup {"none"}]
         /\ topic \in [Subs -> Sessions \cup {NoSession}]
         /\ fwd \in [Subs -> {"off", "recv", "lock", "write", "done"}]
BY BusAssumption DEF FifoInv, OffersInv, TypeInv, TypeOK, BusTypeOK

\* What has been delivered are notifications, of the subscription's session.
LEMMA DeliveredType ==
  ASSUME FifoInv, NEW k \in Subs
  PROVE  Delivered(k) \in Seq(Event)
<1>1. fwd[k] # "off" => wire[connOf[k]] \in Seq(Event)
  BY FifoTypes DEF FifoInv, TableInv, Table
<1> QED BY <1>1, OfJobsType DEF Delivered

\* A step that leaves the wire, the homes of jobs and a subscription alone.
LEMMA DeliveredStill ==
  ASSUME NEW k \in Subs, UNCHANGED <<wire, home>>, fwd[k] = "off" <=> fwd'[k] = "off",
         fwd[k] # "off" => connOf'[k] = connOf[k] /\ topic'[k] = topic[k]
  PROVE  Delivered(k)' = Delivered(k)
BY DEF Delivered

\* A step that leaves the notifications of a subscription where they are.
LEMMA InOrderStill ==
  ASSUME NEW k \in Subs, InOrder(k), Delivered(k)' = Delivered(k), offers'[k] = offers[k],
         held'[k] = held[k], chan'[k] = chan[k]
  PROVE  InOrder(k)'
BY DEF InOrder, LastIsOffered

\* Nothing is delivered, and nothing offered.
LEMMA NothingMoves ==
  ASSUME UNCHANGED offers, \A k \in Subs : Delivered(k)' = Delivered(k)
  PROVE  UNCHANGED Fifo!vars
BY DEF Fifo!vars

\* Most steps are about something else.
Quiet ==
  /\ UNCHANGED <<offers, chan, held, home, topic, wire, subs, connOf>>
  /\ \A k \in Subs : fwd[k] = "off" <=> fwd'[k] = "off"

\* They keep the order.
LEMMA QuietKeeps ==
  ASSUME FifoInv, OffersInv', Quiet
  PROVE  FifoInv' /\ UNCHANGED Fifo!vars
<1>1. \A k \in Subs : Delivered(k)' = Delivered(k) BY DeliveredStill DEF Quiet
<1>2. TableInv' BY DEF Quiet, FifoInv, TableInv, Table, OnWire
<1>3. \A k \in Subs : InOrder(k)' BY <1>1, InOrderStill DEF FifoInv, Quiet
<1> QED BY <1>1, <1>2, <1>3, NothingMoves DEF FifoInv, Quiet

\* A request may start a job, of which nothing is on any wire.
LEMMA HandleKeepsFifo ==
  ASSUME FifoInv, OffersInv', NEW c \in Conns, NEW s \in Sessions \cup {NoSession}, Handle(c, s)
  PROVE  FifoInv' /\ UNCHANGED Fifo!vars
<1>1. UNCHANGED <<offers, chan, held, topic, wire, subs, connOf, fwd>>
  BY DEF Handle, busVars, outVars
<1>2. CASE UNCHANGED home
  <2>1. Quiet BY <1>1, <1>2 DEF Quiet
  <2> QED BY <2>1, QuietKeeps
<1>3. ASSUME NEW j \in Jobs, home[j] = NoSession, home' = [home EXCEPT ![j] = s]
      PROVE  FifoInv' /\ UNCHANGED Fifo!vars
  <2>1. \A i \in Jobs : i # j => home'[i] = home[i] BY <1>3, FifoTypes
  <2>2. ASSUME NEW d \in Conns, NEW i \in DOMAIN wire[d]
        PROVE  wire[d][i].job \in Jobs /\ wire[d][i].job # j
    <3>1. wire[d][i] \in Event BY FifoTypes
    <3>2. wire[d][i].job \in Jobs BY <3>1, EventParts
    <3>3. home[wire[d][i].job] \in Sessions BY DEF FifoInv, TableInv, OnWire
    <3> QED BY <1>3, <3>2, <3>3, BusAssumption
  <2>3. TableInv' BY <1>1, <2>1, <2>2 DEF FifoInv, TableInv, Table, OnWire
  <2>4. ASSUME NEW k \in Subs PROVE Delivered(k)' = Delivered(k)
    <3>1. CASE fwd[k] = "off" BY <1>1, <3>1 DEF Delivered
    <3>2. CASE fwd[k] # "off"
      <4> DEFINE w == wire[connOf[k]]
                 then == {i \in Jobs : home'[i] = topic[k]}
                 now == {i \in Jobs : home[i] = topic[k]}
      <4>1. connOf[k] \in Conns BY <3>2 DEF FifoInv, TableInv, Table
      <4>2. w \in Seq(Event) BY <4>1, FifoTypes
      <4>3. \A i \in 1..Len(w) : w[i].job \in then <=> w[i].job \in now
        BY <2>1, <2>2, <4>1, <4>2
      <4>4. Delivered(k) = OfJobs(w, now) BY <3>2 DEF Delivered
      <4>5. Delivered(k)' = OfJobs(w, then) BY <1>1, <3>2 DEF Delivered
      <4> HIDE DEF w, then, now
      <4> QED BY <4>2, <4>3, <4>4, <4>5, OfJobsSame
    <3> QED BY <3>1, <3>2
  <2>5. \A k \in Subs : InOrder(k)' BY <1>1, <2>4, InOrderStill DEF FifoInv
  <2> QED BY <1>1, <2>3, <2>4, <2>5, NothingMoves DEF FifoInv
<1> QED BY <1>2, <1>3 DEF Handle

\* A new subscription has brought nothing yet: nothing of its session is on
\* the wire of a connection that had none.
LEMMA SubscribeKeepsFifo ==
  ASSUME FifoInv, OffersInv', NEW c \in Conns, SubscribeSession(c)
  PROVE  FifoInv' /\ UNCHANGED Fifo!vars
<1> DEFINE s == request[c]
<1>1. PICK k \in Subs : /\ Subscribe(k, s)
                        /\ subs' = [subs EXCEPT ![c][s] = k]
                        /\ connOf' = [connOf EXCEPT ![k] = c]
                        /\ fwd' = [fwd EXCEPT ![k] = "recv"]
  BY DEF SubscribeSession
<1>2. s \in Sessions /\ subs[c][s] = 0 /\ UNCHANGED <<held, wire>>
  BY DEF SubscribeSession, Wanted, FifoInv, OffersInv, TypeInv, TypeOK
<1> HIDE DEF s
<1>3. /\ k = nextSubID + 1 /\ topic' = [topic EXCEPT ![k] = s]
      /\ UNCHANGED <<offers, chan, home>>
  BY <1>1 DEF Subscribe, jobVars
<1>4. k \in Nat \ {0} BY <1>3, FifoTypes
<1>5. fwd[k] = "off"
  <2> SUFFICES ASSUME fwd[k] # "off" PROVE FALSE
    OBVIOUS
  <2>1. connOf[k] \in Conns /\ topic[k] \in Sessions /\ subs[connOf[k]][topic[k]] = k
    BY DEF FifoInv, TableInv, Table
  <2>2. k \in 0..nextSubID BY <2>1, FifoTypes
  <2> QED BY <1>3, <2>2, FifoTypes
<1>6. \A l \in Subs : l # k => connOf'[l] = connOf[l] /\ topic'[l] = topic[l] /\ fwd'[l] = fwd[l]
  BY <1>1, <1>3, FifoTypes
<1>7. connOf'[k] = c /\ topic'[k] = s /\ fwd'[k] = "recv" /\ subs'[c][s] = k
  BY <1>1, <1>2, <1>3, FifoTypes
<1>8. \A d \in Conns : \A r \in Sessions : d # c \/ r # s => subs'[d][r] = subs[d][r]
  BY <1>1, <1>2, FifoTypes
<1>9. Table'
  <2> SUFFICES ASSUME NEW l \in Subs, fwd'[l] # "off"
               PROVE  /\ connOf'[l] \in Conns /\ topic'[l] \in Sessions
                      /\ subs'[connOf'[l]][topic'[l]] = l
    BY DEF Table
  <2>1. CASE l = k BY <1>2, <1>7, <2>1
  <2>2. CASE l # k
    <3>1. /\ connOf[l] \in Conns /\ topic[l] \in Sessions
          /\ subs[connOf[l]][topic[l]] = l
      BY <1>6, <2>2 DEF FifoInv, TableInv, Table
    <3>2. l # 0 BY DEF Subs
    <3>3. connOf[l] # c \/ topic[l] # s BY <1>2, <3>1, <3>2
    <3> QED BY <1>6, <1>8, <2>2, <3>1, <3>3
  <2> QED BY <2>1, <2>2
<1>10. OnWire'
  <2> SUFFICES ASSUME NEW d \in Conns, NEW i \in DOMAIN wire[d]
               PROVE  home[wire[d][i].job] \in Sessions /\ subs'[d][home[wire[d][i].job]] # 0
    BY <1>2, <1>3 DEF OnWire
  <2>1. home[wire[d][i].job] \in Sessions /\ subs[d][home[wire[d][i].job]] # 0
    BY DEF FifoInv, TableInv, OnWire
  <2> QED BY <1>2, <1>8, <2>1
<1>11. ASSUME NEW l \in Subs PROVE Delivered(l)' = Delivered(l)
  <2>1. CASE l # k BY <1>2, <1>3, <1>6, <2>1, DeliveredStill
  <2>2. CASE l = k
    <3> DEFINE jobs == {j \in Jobs : home[j] = s}
               w == wire[c]
    <3>1. Delivered(k)' = OfJobs(w, jobs) BY <1>2, <1>3, <1>7 DEF Delivered
    <3>2. w \in Seq(Event) BY FifoTypes
    <3>3. \A i \in 1..Len(w) : w[i].job \notin jobs BY <1>2, <3>2 DEF FifoInv, TableInv, OnWire
    <3>4. Delivered(k) = <<>> BY <1>5 DEF Delivered
    <3> HIDE DEF jobs, w
    <3> QED BY <2>2, <3>1, <3>2, <3>3, <3>4, OfJobsNone
  <2> QED BY <2>1, <2>2
<1>12. \A l \in Subs : InOrder(l)' BY <1>2, <1>3, <1>11, InOrderStill DEF FifoInv
<1> QED BY <1>3, <1>9, <1>10, <1>11, <1>12, NothingMoves DEF FifoInv, TableInv

\* The forwarder takes the first of its channel.
LEMMA TakesKeepsFifo ==
  ASSUME FifoInv, OffersInv', NEW k \in Subs, Takes(k)
  PROVE  FifoInv' /\ UNCHANGED Fifo!vars
<1>1. /\ fwd[k] = "recv" /\ fwd' = [fwd EXCEPT ![k] = "lock"]
      /\ chan[k] # <<>> /\ chan' = [chan EXCEPT ![k] = Tail(@)]
      /\ held' = [held EXCEPT ![k] = Head(chan[k])]
      /\ UNCHANGED <<offers, home, topic, wire, subs, connOf>>
  BY DEF Takes, ForwardGoto, Receive, jobVars, connVars, subVars
<1>2. \A l \in Subs : fwd[l] = "off" <=> fwd'[l] = "off" BY <1>1, FifoTypes
<1>3. \A l \in Subs : Delivered(l)' = Delivered(l) BY <1>1, <1>2, DeliveredStill
<1>4. TableInv' BY <1>1, <1>2 DEF FifoInv, TableInv, Table, OnWire
<1>5. ASSUME NEW l \in Subs PROVE InOrder(l)'
  <2>1. CASE l # k
    <3>1. held'[l] = held[l] /\ chan'[l] = chan[l] BY <1>1, <2>1, FifoTypes
    <3> QED BY <1>1, <1>3, <3>1, InOrderStill DEF FifoInv
  <2>2. CASE l = k
    <3>1. held'[k] = Head(chan[k]) /\ chan'[k] = Tail(chan[k]) /\ chan[k] \in Seq(Event)
      BY <1>1, FifoTypes
    <3>2. InOrder(k) BY DEF FifoInv
    <3>3. Queue(offers[k], LastPlace(offers[k], Delivered(k)), Head(chan[k]), Tail(chan[k]))
      BY <1>1, <3>1, <3>2, QueueTakes DEF InOrder
    <3> QED BY <1>1, <1>3, <2>2, <3>1, <3>2, <3>3 DEF InOrder, LastIsOffered
  <2> QED BY <2>1, <2>2
<1> QED BY <1>1, <1>3, <1>4, <1>5, NothingMoves DEF FifoInv

\* An offer is a step of the sender, whether or not the channel has room.
LEMMA OfferKeepsFifo ==
  ASSUME FifoInv, OffersInv', NEW j \in Jobs, NEW k \in Subs, PublishOffers(j, k),
         UNCHANGED <<connVars, outVars>>
  PROVE  FifoInv' /\ Fifo!Send(k)
<1> DEFINE e == [job |-> j, n |-> count[j]]
<1>1. /\ chan' = (IF Len(chan[k]) < Capacity
                  THEN [chan EXCEPT ![k] = Append(@, e)] ELSE chan)
      /\ offers' = [offers EXCEPT ![k] = Append(@, e)]
      /\ UNCHANGED <<home, topic, wire, subs, connOf, held, fwd>>
  BY DEF PublishOffers, connVars, subVars, outVars
<1>2. e \in Event /\ e \notin Elements(offers[k]) BY OfferIsNew DEF FifoInv
<1> HIDE DEF e
<1>3. \A l \in Subs : Delivered(l)' = Delivered(l) BY <1>1, DeliveredStill
<1>4. TableInv' BY <1>1 DEF FifoInv, TableInv, Table, OnWire
<1>5. Distinct(offers[k]) /\ offers[k] \in Seq(Event) /\ chan[k] \in Seq(Event)
      /\ Delivered(k) \in Seq(Event)
  BY FifoTypes, DeliveredType DEF FifoInv, OffersInv, OnceOffered
<1>6. /\ offers'[k] = Append(offers[k], e)
      /\ chan'[k] \in {chan[k], Append(chan[k], e)} /\ held'[k] = held[k]
  BY <1>1, FifoTypes
<1>7. InOrder(k) BY DEF FifoInv
<1>8. /\ LastPlace(Append(offers[k], e), Delivered(k)) = LastPlace(offers[k], Delivered(k))
      /\ LastPlace(offers[k], Delivered(k)) \in 0..Len(offers[k])
  BY <1>2, <1>5, <1>7, LastPlaceStays, LastPlaceIs DEF InOrder, LastIsOffered
<1>9. InOrder(k)'
  <2>1. Queue(offers'[k], LastPlace(offers[k], Delivered(k)), held[k], chan'[k])
    BY <1>2, <1>5, <1>6, <1>7, <1>8, QueueOffer DEF InOrder
  <2>2. Elements(offers'[k]) = Elements(offers[k]) \cup {e}
    BY <1>2, <1>5, <1>6, PlaceAppended
  <2> QED BY <1>3, <1>6, <1>7, <1>8, <2>1, <2>2 DEF InOrder, LastIsOffered
<1>10. ASSUME NEW l \in Subs, l # k PROVE InOrder(l)' /\ offers'[l] = offers[l]
  <2>1. offers'[l] = offers[l] /\ chan'[l] = chan[l] BY <1>1, <1>10, FifoTypes
  <2> QED BY <1>1, <1>3, <2>1, InOrderStill DEF FifoInv
<1>11. \A l \in Subs : LastPlace(offers'[l], Delivered(l)') = LastPlace(offers[l], Delivered(l))
  BY <1>3, <1>6, <1>8, <1>10
<1>12. Fifo!Send(k) BY <1>1, <1>2, <1>3, <1>11 DEF Fifo!Send
<1> QED BY <1>4, <1>9, <1>10, <1>12 DEF FifoInv

\* The end of a write is a delivery, if the client reads and no other write
\* overlapped it.
LEMMA ForwardEndsKeepsFifo ==
  ASSUME FifoInv, OffersInv', NEW k \in Subs, ForwardEnds(k)
  PROVE  FifoInv' /\ (Fifo!Deliver(k) \/ UNCHANGED Fifo!vars)
<1> DEFINE c == connOf[k]
           e == held[k]
<1>1. /\ fwd[k] = "write" /\ fwd' = [fwd EXCEPT ![k] = "recv"]
      /\ held' = [held EXCEPT ![k] = Response]
      /\ wire' = IF client[c] = "reads" /\ e # Response /\ k \notin mixed[c]
                 THEN [wire EXCEPT ![c] = Append(@, e)] ELSE wire
      /\ UNCHANGED <<offers, chan, home, topic, subs, connOf>>
  BY DEF ForwardEnds, ForwardGoto, WriteEnds, busVars, jobVars, connVars, subVars
<1>2. \A l \in Subs : fwd[l] = "off" <=> fwd'[l] = "off" BY <1>1, FifoTypes
<1>3. \A l \in Subs : l # k => held'[l] = held[l] BY <1>1, FifoTypes
<1>4. held'[k] = Response /\ InOrder(k) BY <1>1, FifoTypes DEF FifoInv
<1>5. Table' BY <1>1, <1>2 DEF FifoInv, TableInv, Table
<1>6. CASE UNCHANGED wire
  <2>1. \A l \in Subs : Delivered(l)' = Delivered(l) BY <1>1, <1>2, <1>6, DeliveredStill
  <2>2. OnWire' BY <1>1, <1>6 DEF FifoInv, TableInv, OnWire
  <2>3. InOrder(k)' BY <1>1, <1>4, <2>1, QueueEnds DEF InOrder, LastIsOffered
  <2>4. \A l \in Subs : InOrder(l)' BY <1>1, <1>3, <2>1, <2>3, InOrderStill DEF FifoInv
  <2> QED BY <1>1, <1>5, <2>1, <2>2, <2>4, NothingMoves DEF FifoInv, TableInv
<1>7. CASE client[c] = "reads" /\ e # Response /\ k \notin mixed[c]
  <2>1. /\ c \in Conns /\ topic[k] \in Sessions /\ subs[c][topic[k]] = k /\ k # 0
    BY <1>1 DEF FifoInv, TableInv, Table, Subs
  <2>2. /\ offers[k] \in Seq(Event) /\ Distinct(offers[k]) /\ wire[c] \in Seq(Event)
        /\ Delivered(k) \in Seq(Event)
    BY <2>1, FifoTypes, DeliveredType DEF FifoInv, OffersInv, OnceOffered
  <2>3. e \in Elements(offers[k]) /\ LastPlace(offers[k], Delivered(k)) < Place(offers[k], e)
    BY <1>4, <1>7 DEF InOrder, Queue
  <2> DEFINE i == Place(offers[k], e)
  <2>4. i \in 1..Len(offers[k]) /\ offers[k][i] = e BY <2>2, <2>3, PlaceType
  <2>5. e \in Event /\ home[e.job] = topic[k] /\ e.job \in Jobs
    <3>1. i \in DOMAIN offers[k] BY <2>2, <2>4
    <3>2. home[offers[k][i].job] = topic[k] BY <3>1 DEF FifoInv, OffersInv, Drawn
    <3>3. e \in Event BY <2>2, <2>4, <3>1
    <3> QED BY <2>4, <3>2, <3>3, EventParts
  <2> HIDE DEF c, e, i
  <2>6. wire' = [wire EXCEPT ![c] = Append(@, e)] BY <1>1, <1>7 DEF c, e
  <2>7. wire'[c] = Append(wire[c], e) /\ \A d \in Conns : d # c => wire'[d] = wire[d]
    BY <2>1, <2>6, FifoTypes
  <2>8. OnWire'
    <3> SUFFICES ASSUME NEW d \in Conns, NEW m \in DOMAIN wire'[d]
                 PROVE  /\ home[wire'[d][m].job] \in Sessions
                        /\ subs[d][home[wire'[d][m].job]] # 0
      BY <1>1 DEF OnWire
    <3>1. \/ m \in DOMAIN wire[d] /\ wire'[d][m] = wire[d][m]
          \/ d = c /\ wire'[d][m] = e
      <4>1. CASE d # c BY <2>7, <4>1
      <4>2. CASE d = c
        <5>1. m \in 1..(Len(wire[c]) + 1) /\ Len(wire[c]) \in Nat
          BY <2>2, <2>5, <2>7, <4>2, AppendProperties
        <5>2. CASE m = Len(wire[c]) + 1 BY <2>2, <2>5, <2>7, <4>2, <5>2, AppendProperties
        <5>3. CASE m # Len(wire[c]) + 1
          <6>1. m \in 1..Len(wire[c]) BY <5>1, <5>3
          <6> QED BY <2>2, <2>5, <2>7, <4>2, <6>1, AppendProperties
        <5> QED BY <5>2, <5>3
      <4> QED BY <4>1, <4>2
    <3>2. CASE m \in DOMAIN wire[d] /\ wire'[d][m] = wire[d][m]
      BY <3>2 DEF FifoInv, TableInv, OnWire
    <3>3. CASE d = c /\ wire'[d][m] = e BY <2>1, <2>5, <3>3
    <3> QED BY <3>1, <3>2, <3>3
  <2>9. \A jobs : OfJobs(Append(wire[c], e), jobs) =
               IF e.job \in jobs THEN Append(OfJobs(wire[c], jobs), e)
               ELSE OfJobs(wire[c], jobs)
    <3>1. wire[c] \in Seq(Event) /\ e \in Event BY <2>2, <2>5
    <3> DEFINE w == wire[c]
    <3> HIDE DEF w
    <3>2. w \in Seq(Event) BY <3>1 DEF w
    <3>3. \A jobs : OfJobs(Append(w, e), jobs) =
             IF e.job \in jobs THEN Append(OfJobs(w, jobs), e) ELSE OfJobs(w, jobs)
      BY <3>1, <3>2, OfJobsAppend
    <3> QED BY <3>3 DEF w
  <2>10. Delivered(k)' = Append(Delivered(k), e)
    <3> DEFINE jobs == {j \in Jobs : home[j] = topic[k]}
    <3>1. e.job \in jobs BY <2>5
    <3>2. Delivered(k) = OfJobs(wire[c], jobs) BY <1>1 DEF Delivered, c
    <3>3. Delivered(k)' = OfJobs(wire'[c], jobs) BY <1>1, <1>2 DEF Delivered, c
    <3> HIDE DEF jobs
    <3> QED BY <2>9, <2>7, <3>1, <3>2, <3>3
  <2>11. ASSUME NEW l \in Subs, l # k PROVE Delivered(l)' = Delivered(l)
    <3>1. CASE fwd[l] = "off" BY <1>2, <3>1 DEF Delivered
    <3>2. CASE fwd[l] # "off" /\ connOf[l] # c
      <4>1. connOf[l] \in Conns BY <3>2 DEF FifoInv, TableInv, Table
      <4>2. wire'[connOf[l]] = wire[connOf[l]] BY <2>7, <3>2, <4>1
      <4> QED BY <1>1, <1>2, <3>2, <4>2 DEF Delivered
    <3>3. CASE fwd[l] # "off" /\ connOf[l] = c
      <4> DEFINE jobs == {j \in Jobs : home[j] = topic[l]}
      <4>1. topic[l] # topic[k] BY <2>1, <2>11, <3>3 DEF FifoInv, TableInv, Table
      <4>2. e.job \notin jobs BY <2>5, <4>1
      <4>3. Delivered(l) = OfJobs(wire[c], jobs) BY <3>3 DEF Delivered
      <4>4. Delivered(l)' = OfJobs(wire'[c], jobs) BY <1>1, <1>2, <3>3 DEF Delivered
      <4> HIDE DEF jobs
      <4> QED BY <2>9, <2>7, <4>2, <4>3, <4>4
    <3> QED BY <3>1, <3>2, <3>3
  <2> DEFINE d == Append(Delivered(k), e)
  <2>12. d \in Seq(Event) /\ d # <<>> /\ d[Len(d)] = e BY <2>2, <2>5, AppendProperties
  <2> HIDE DEF d
  <2>13. LastPlace(offers[k], d) = i BY <2>2, <2>3, <2>12, LastPlaceIs DEF i
  <2>14. Delivered(k)' = d BY <2>10 DEF d
  <2>15. InOrder(k)'
    <3>1. Queue(offers[k], i, Response, chan[k]) BY <1>4, <1>7, QueueEnds DEF InOrder, e, i
    <3> QED BY <1>1, <1>4, <2>3, <2>12, <2>13, <2>14, <3>1 DEF InOrder, LastIsOffered
  <2>16. \A l \in Subs : l # k => InOrder(l)'
    BY <1>1, <1>3, <2>11, InOrderStill DEF FifoInv
  <2>17. Fifo!Deliver(k)
    <3> DEFINE got == [l \in Subs |-> Delivered(l)]
               last == [l \in Subs |-> LastPlace(offers[l], Delivered(l))]
    <3>1. i \in 1..Len(offers[k]) /\ offers[k][i] = e /\ i > last[k] /\ UNCHANGED offers
      BY <1>1, <2>2, <2>3, <2>4, LastPlaceIs DEF i, InOrder, LastIsOffered
    <3>2. got' = [got EXCEPT ![k] = Append(@, offers[k][i])]
      BY <2>10, <2>11, <3>1
    <3>3. last' = [last EXCEPT ![k] = i]
      BY <2>11, <2>13, <2>14, <3>1
    <3> QED BY <3>1, <3>2, <3>3 DEF Fifo!Deliver
  <2> QED BY <1>5, <2>8, <2>15, <2>16, <2>17 DEF FifoInv, TableInv
<1> QED BY <1>1, <1>6, <1>7

\* At the start nothing is offered, on its way or delivered.
LEMMA FifoInit == Init => FifoInv /\ Fifo!Init
<1> SUFFICES ASSUME Init PROVE FifoInv /\ Fifo!Init
  OBVIOUS
<1>1. TypeInv BY TypeInit
<1>2. /\ offers = [k \in Subs |-> <<>>] /\ chan = [k \in Subs |-> <<>>]
      /\ count = [j \in Jobs |-> 0] /\ pending = [j \in Jobs |-> {}]
      /\ held = [k \in Subs |-> Response] /\ fwd = [k \in Subs |-> "off"]
      /\ wire = [c \in Conns |-> <<>>]
  BY DEF Init, BusInit
<1>3. OffersInv BY <1>1, <1>2 DEF OffersInv, Drawn, Targets, OnceOffered, Distinct
<1>4. TableInv BY <1>2 DEF TableInv, Table, OnWire
<1>5. \A k \in Subs : Delivered(k) = <<>> /\ LastPlace(offers[k], Delivered(k)) = 0
  BY <1>2 DEF Delivered, LastPlace
<1>6. \A k \in Subs : InOrder(k) BY <1>2, <1>5 DEF InOrder, LastIsOffered, Queue
<1>7. Fifo!Init BY <1>2, <1>5 DEF Fifo!Init
<1> QED BY <1>3, <1>4, <1>6, <1>7 DEF FifoInv

\* Every step is one of the sender, a delivery, or about something else.
LEMMA FifoNext == FifoInv /\ [Next]_vars => FifoInv' /\ [Fifo!Next]_(Fifo!vars)
<1> SUFFICES ASSUME FifoInv, [Next]_vars PROVE FifoInv' /\ [Fifo!Next]_(Fifo!vars)
  OBVIOUS
<1>0. OffersInv' BY OffersNext DEF FifoInv
<1>1. ASSUME Quiet PROVE FifoInv' /\ [Fifo!Next]_(Fifo!vars) BY <1>0, <1>1, QuietKeeps
<1>2. CASE \E c \in Conns : \E s \in Sessions \cup {NoSession} : Handle(c, s)
  BY <1>0, <1>2, HandleKeepsFifo
<1>3. ASSUME NEW c \in Conns, \/ LoopStep(c) \/ Returns(c) \/ RespondPanics(c)
                              \/ Malformed(c) \/ ClientTurns(c)
      PROVE  FifoInv' /\ [Fifo!Next]_(Fifo!vars)
  <2>1. CASE SubscribeSession(c) BY <1>0, <2>1, SubscribeKeepsFifo
  <2>2. CASE ~ SubscribeSession(c)
    <3>1. UNCHANGED <<offers, chan, held, home, topic, wire, subs, connOf, fwd>>
      BY <1>3, <2>2 DEF LoopStep, RespondBegins, RespondEnds, WriteEnds, SubscribeNothing, Hangup,
         Returns, RespondPanics, CloseConn, UnsubscribeDeferred, Unsubscribe, Malformed, ClientTurns, busVars, jobVars,
         connVars, subVars, outVars
    <3> QED BY <1>1, <3>1 DEF Quiet
  <2> QED BY <2>1, <2>2
<1>4. ASSUME NEW k \in Subs, Forwarder(k) \/ ForwardPanics(k)
      PROVE  FifoInv' /\ [Fifo!Next]_(Fifo!vars)
  <2>1. CASE Takes(k) BY <1>0, <2>1, TakesKeepsFifo
  <2>2. CASE ForwardEnds(k) BY <1>0, <2>2, ForwardEndsKeepsFifo DEF Fifo!Next
  <2>3. CASE ForwardBegins(k) \/ ForwardStops(k) \/ ForwardPanics(k)
    <3>1. UNCHANGED <<offers, chan, held, home, topic, wire, subs, connOf>>
      BY <2>3 DEF ForwardBegins, ForwardStops, ForwardPanics, busVars, jobVars, connVars, subVars
    <3>2. \A l \in Subs : fwd[l] = "off" <=> fwd'[l] = "off"
      BY <2>3, FifoTypes DEF ForwardBegins, ForwardStops, ForwardPanics, ForwardGoto
    <3> QED BY <1>1, <3>1, <3>2 DEF Quiet
  <2> QED BY <1>4, <2>1, <2>2, <2>3 DEF Forwarder
<1>5. ASSUME NEW j \in Jobs, Publish(j) PROVE FifoInv' /\ [Fifo!Next]_(Fifo!vars)
  <2>1. ASSUME NEW k \in Subs, PublishOffers(j, k)
        PROVE  FifoInv' /\ [Fifo!Next]_(Fifo!vars)
    BY <1>0, <1>5, <2>1, OfferKeepsFifo DEF Publish, Fifo!Next
  <2>2. CASE PublishBegins(j) \/ PublishEnds(j)
    <3>1. UNCHANGED <<offers, chan, held, home, topic, wire, subs, connOf, fwd>>
      BY <1>5, <2>2 DEF Publish, PublishBegins, PublishEnds, busVars, connVars, subVars, outVars
    <3> QED BY <1>1, <3>1 DEF Quiet
  <2> QED BY <1>5, <2>1, <2>2 DEF Publish, Publisher
<1>6. CASE UNCHANGED vars
  <2>1. Quiet BY <1>6 DEF vars, Quiet, busVars, jobVars, connVars, subVars, outVars
  <2> QED BY <1>1, <2>1
<1> QED BY <1>2, <1>3, <1>4, <1>5, <1>6 DEF Next

\* From Publish to the wire, the notifications of a session come to a
\* connection in order and at most once: Connections implements LossyFifo.
THEOREM ImplementsFifo == Spec => InOrderAtMostOnce
<1> QED BY FifoInit, FifoNext, PTL DEF Spec, InOrderAtMostOnce, Fifo!Spec
=============================================================================

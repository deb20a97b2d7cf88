------------------------------ MODULE EventBus ------------------------------
(***************************************************************************)
(* The notification bus (internal/events/bus.go): subscriptions, each a    *)
(* buffered channel, and publishers that offer a notification to every     *)
(* channel of a session without ever waiting.                              *)
(*                                                                         *)
(* A publisher holds the read lock from PublishBegins to PublishEnds, so   *)
(* publishers run side by side and exclude Subscribe and the unsubscribe   *)
(* function, which take the write lock.                                    *)
(***************************************************************************)
EXTENDS Integers, Sequences, FiniteSets

CONSTANTS
  Sessions,    \* session ids clients send, whether or not a session has them
  NoSession,
  Jobs,        \* publishers: the goroutines of one running process
  Events,      \* bound: how many notifications a job has; the last is exec.exit
  Capacity,    \* of a channel: 128
  MaxSubs      \* bound: subscriptions made

ASSUME BusAssumption ==
  /\ NoSession \notin Sessions
  /\ Events \in [Jobs -> Nat \ {0}]
  /\ Capacity \in Nat \ {0}
  /\ MaxSubs \in Nat

Subs == 1..MaxSubs
Event == UNION {[job : {j}, n : 1..Events[j]] : j \in Jobs}

VARIABLES
  nextSubID,
  topic,       \* the session a subscription is for
  subscribed,  \* the subscriptions in Bus.subscribers
  chan,        \* the buffer of a subscription's channel
  closed,      \* the channels that have been closed
  home,        \* the session a job publishes to
  count,       \* notifications the job has published or is publishing
  publishing,  \* is the job inside Publish?
  pending,     \* channels Publish has still to offer the notification to
  offers       \* history: what was offered to a subscription

busVars == <<nextSubID, topic, subscribed, chan, closed>>
jobVars == <<home, count, publishing, pending>>

BusTypeOK ==
  /\ nextSubID \in 0..MaxSubs
  /\ topic \in [Subs -> Sessions \cup {NoSession}]
  /\ subscribed \subseteq 1..nextSubID
  /\ chan \in [Subs -> Seq(Event)]
  /\ \A k \in Subs : Len(chan[k]) <= Capacity
  /\ closed \subseteq 1..nextSubID
  /\ home \in [Jobs -> Sessions \cup {NoSession}]
  /\ count \in [Jobs -> Nat] /\ \A j \in Jobs : count[j] <= Events[j]
  /\ publishing \in [Jobs -> BOOLEAN]
  /\ pending \in [Jobs -> SUBSET Subs]
  /\ offers \in [Subs -> Seq(Event)]

BusInit ==
  /\ nextSubID = 0
  /\ topic = [k \in Subs |-> NoSession]
  /\ subscribed = {}
  /\ chan = [k \in Subs |-> <<>>]
  /\ closed = {}
  /\ home = [j \in Jobs |-> NoSession]
  /\ count = [j \in Jobs |-> 0]
  /\ publishing = [j \in Jobs |-> FALSE]
  /\ pending = [j \in Jobs |-> {}]
  /\ offers = [k \in Subs |-> <<>>]

-----------------------------------------------------------------------------
(* Subscribe and the function it returns. *)

WriteLock == \A j \in Jobs : ~publishing[j]

Subscribe(k, s) ==
  /\ WriteLock
  /\ k = nextSubID + 1
  /\ nextSubID' = k
  /\ topic' = [topic EXCEPT ![k] = s]
  /\ subscribed' = subscribed \cup {k}
  /\ UNCHANGED <<chan, closed, jobVars, offers>>

\* Mutant: the write lock is not taken.
UnsubscribeUnlocked(k) ==
  /\ k \in subscribed
  /\ closed' = closed \cup {k}
  /\ subscribed' = subscribed \ {k}
  /\ UNCHANGED <<nextSubID, topic, chan, jobVars, offers>>

\* Mutant: the channel is forgotten and not closed.
UnsubscribeOpen(k) ==
  /\ WriteLock
  /\ k \in subscribed
  /\ subscribed' = subscribed \ {k}
  /\ UNCHANGED <<nextSubID, topic, chan, closed, jobVars, offers>>

Unsubscribe(k) ==
  /\ WriteLock
  /\ k \in subscribed
  /\ closed' = closed \cup {k}
  /\ subscribed' = subscribed \ {k}
  /\ UNCHANGED <<nextSubID, topic, chan, jobVars, offers>>

-----------------------------------------------------------------------------
(* Publish, one notification of one job at a time. *)

PublishBegins(j) ==
  /\ home[j] # NoSession
  /\ ~publishing[j]
  /\ count[j] < Events[j]
  /\ count' = [count EXCEPT ![j] = @ + 1]
  /\ publishing' = [publishing EXCEPT ![j] = TRUE]
  /\ pending' = [pending EXCEPT ![j] = {k \in subscribed : topic[k] = home[j]}]
  /\ UNCHANGED <<busVars, home, offers>>

\* Mutant: a send that waits for room.
PublishWaits(j, k) ==
  /\ k \in pending[j]
  /\ Len(chan[k]) < Capacity
  /\ LET e == [job |-> j, n |-> count[j]] IN
       /\ chan' = [chan EXCEPT ![k] = Append(@, e)]
       /\ offers' = [offers EXCEPT ![k] = Append(@, e)]
  /\ pending' = [pending EXCEPT ![j] = @ \ {k}]
  /\ UNCHANGED <<nextSubID, topic, subscribed, closed, home, count, publishing>>

\* Mutant: a buffer without a limit.
PublishUnbounded(j, k) ==
  /\ k \in pending[j]
  /\ LET e == [job |-> j, n |-> count[j]] IN
       /\ chan' = [chan EXCEPT ![k] = Append(@, e)]
       /\ offers' = [offers EXCEPT ![k] = Append(@, e)]
  /\ pending' = [pending EXCEPT ![j] = @ \ {k}]
  /\ UNCHANGED <<nextSubID, topic, subscribed, closed, home, count, publishing>>

\* The select with a default: a full buffer drops the notification.
PublishOffers(j, k) ==
  /\ k \in pending[j]
  /\ LET e == [job |-> j, n |-> count[j]] IN
       /\ chan' = IF Len(chan[k]) < Capacity
                  THEN [chan EXCEPT ![k] = Append(@, e)] ELSE chan
       /\ offers' = [offers EXCEPT ![k] = Append(@, e)]
  /\ pending' = [pending EXCEPT ![j] = @ \ {k}]
  /\ UNCHANGED <<nextSubID, topic, subscribed, closed, home, count, publishing>>

PublishEnds(j) ==
  /\ publishing[j]
  /\ pending[j] = {}
  /\ publishing' = [publishing EXCEPT ![j] = FALSE]
  /\ UNCHANGED <<busVars, home, count, pending, offers>>

Publisher(j) ==
  PublishBegins(j) \/ (\E k \in Subs : PublishOffers(j, k)) \/ PublishEnds(j)

\* The range loop of a subscriber takes the next notification.
Receive(k) ==
  /\ chan[k] # <<>>
  /\ chan' = [chan EXCEPT ![k] = Tail(@)]
  /\ UNCHANGED <<nextSubID, topic, subscribed, closed, jobVars, offers>>

Drained(k) == k \in closed /\ chan[k] = <<>>
=============================================================================

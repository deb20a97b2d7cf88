----------------------------- MODULE LossyFifo ------------------------------
(***************************************************************************)
(* What a subscriber of rexd is promised: of the notifications offered to  *)
(* it, it is delivered some, each at most once and in the order in which   *)
(* they were offered.  Any of them may be lost.                            *)
(***************************************************************************)
EXTENDS Naturals, Sequences

CONSTANTS Channels, Messages

VARIABLES
  sent,   \* what was offered to a channel
  got,    \* what it delivered
  last    \* the position in sent of the last message delivered; 0: none

vars == <<sent, got, last>>

Init ==
  /\ sent = [k \in Channels |-> <<>>]
  /\ got = [k \in Channels |-> <<>>]
  /\ last = [k \in Channels |-> 0]

Send(k) ==
  /\ \E m \in Messages : sent' = [sent EXCEPT ![k] = Append(@, m)]
  /\ UNCHANGED <<got, last>>

Deliver(k) ==
  /\ \E i \in 1..Len(sent[k]) :
       /\ i > last[k]
       /\ got' = [got EXCEPT ![k] = Append(@, sent[k][i])]
       /\ last' = [last EXCEPT ![k] = i]
  /\ UNCHANGED sent

Next == \E k \in Channels : Send(k) \/ Deliver(k)

Spec == Init /\ [][Next]_vars
=============================================================================

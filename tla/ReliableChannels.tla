-------------------------- MODULE ReliableChannels --------------------------
(***************************************************************************)
(* What connection.h promises of SendReliableMessage: reliable messages    *)
(* "will always be delivered in the order sent".  Two channels, one in     *)
(* each direction; a message is identified by its place in the order in    *)
(* which its sender sent it: 1, 2, 3, ...                                  *)
(***************************************************************************)
EXTENDS Naturals, Sequences

CONSTANTS
  Endpoint,   \* the two ends
  Peer        \* the other end of each end

VARIABLES
  sent,       \* how many reliable messages each end has sent
  delivered   \* the messages handed to HandleMessagePacket at each end

vars == <<sent, delivered>>

Init ==
  /\ sent = [e \in Endpoint |-> 0]
  /\ delivered = [e \in Endpoint |-> <<>>]

Send(e) ==
  /\ sent' = [sent EXCEPT ![e] = @ + 1]
  /\ UNCHANGED delivered

\* One arriving packet may fill a gap and release several messages at once.
Deliver(e) ==
  /\ Len(delivered[e]) < sent[Peer[e]]
  /\ \E count \in 1 .. (sent[Peer[e]] - Len(delivered[e])) :
       delivered' = [delivered EXCEPT ![e] =
                       @ \o [i \in 1 .. count |-> Len(delivered[e]) + i]]
  /\ UNCHANGED sent

Next == \E e \in Endpoint : Send(e) \/ Deliver(e)

Spec == Init /\ [][Next]_vars
=============================================================================

----------------------------- MODULE MCDelivery -----------------------------
(* Two agents that send to each other.  A "Go" makes the depot send to its *)
(* peer twice, or to a peer without a URL, and the vehicle send once.      *)
EXTENDS Delivery

Peer(a) == CHOOSE b \in Agents : b # a
Ack(b) == [peer |-> b, topic |-> "Ack"]

MCSendsOf ==
  [a \in Agents |-> [t \in Topics |->
     CASE t # "Go"    -> {<<>>}
       [] a = "depot" -> {<<Ack(Peer(a)), Ack(Peer(a))>>, <<Ack(a)>>}
       [] OTHER       -> {<<Ack(Peer(a))>>}]]

\* Nobody has its own URL.
MCUrls == [a \in Agents |-> Agents \ {a}]
=============================================================================

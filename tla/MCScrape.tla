------------------------------ MODULE MCScrape ------------------------------
(* One topic whose handler proposes two actions, for TLC.            *)
EXTENDS Scrape

Call    == [kind |-> "call_mcp", server |-> "other"]
Message == [kind |-> "send_a2a", peer |-> "tms"]

MCActions == {Call, Message}
MCHandlerKind == [t \in Topics |-> "lex"]
MCProposals == [t \in Topics |-> {<<Message, Call>>}]

\* Denies the message to a peer, or cannot tell, once the agent is loaded.
LoadSpec(v) ==
  [s \in States |-> [a \in MCActions |->
     IF s = "loaded" /\ a = Message THEN v ELSE "Allow"]]

MCGates == {NoGate, <<LoadSpec("Inconclusive")>>}
=============================================================================

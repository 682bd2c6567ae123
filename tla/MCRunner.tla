------------------------------ MODULE MCRunner ------------------------------
(* A small agent for TLC: one Lex topic, one Rust tick topic, one topic     *)
(* without a handler; an MCP call the allowlist has, one it has not, and a  *)
(* message to a peer; no gate, or a gate of two specs one of which fails    *)
(* for lack of a binding.                                                   *)
EXTENDS Audit

McpListed   == [kind |-> "call_mcp", server |-> "ocpp"]
McpUnlisted == [kind |-> "call_mcp", server |-> "other"]
Message     == [kind |-> "send_a2a", peer |-> "tms"]

MCActions == {McpListed, McpUnlisted, Message}
MCHandlerKind == [t \in Topics |-> CASE t = "Request" -> "lex"
                                     [] t = "Tick" -> "rust"
                                     [] OTHER -> "none"]

\* A handler with nothing to do, with one action, and with two of which the
\* first is refused by the gate, by the allowlist, or not at all.
MCProposals ==
  [t \in Topics |->
     CASE t = "Request" -> {<<>>, <<McpUnlisted, Message>>, <<McpListed, Message>>}
       [] t = "Tick" -> {<<Message>>}
       [] OTHER -> {}]

\* No more load once loaded.
BudgetSpec ==
  [s \in States |-> [a \in MCActions |->
     IF s = "loaded" /\ a = McpListed THEN "Deny" ELSE "Allow"]]

\* The message lacks a field the spec reads; and so does the MCP call, which
\* the first spec denied already.
PayloadSpec ==
  [s \in States |-> [a \in MCActions |->
     IF s = "loaded" /\ a # McpUnlisted THEN "Inconclusive" ELSE "Allow"]]

MCGates == {NoGate, <<BudgetSpec, PayloadSpec>>}
=============================================================================

-------------------------------- MODULE Audit --------------------------------
(***************************************************************************)
(* The runner seen from outside: as the abstract agent GatedAgent, and as  *)
(* the trace soft-replay reads.                                            *)
(***************************************************************************)
EXTENDS Runner, ReplayScan

\* The "verdict" of a recorded output: verdict_to_json's lower-case names.
VerdictName == [Allow |-> "allow", Deny |-> "deny", Inconclusive |-> "inconclusive"]

\* The node scan_node meets for an event of the runner: a verdict is an object
\* with its name, other events have no verdict.
AsNode(e) ==
  [target  |-> e.event,
   shape   |-> IF e.event = "gate.verdict" THEN "object" ELSE "none",
   verdict |-> IF e.event = "gate.verdict" THEN VerdictName[e.verdict] ELSE "none"]

Nodes == [i \in DOMAIN trace |-> AsNode(trace[i])]

\* soft-replay never reports a violation for what a runner recorded, at
\* whatever point the recording ends (replay.rs:3-9 "no Deny or Inconclusive
\* was bypassed").
NeverViolates == ~HasViolation(ScanTrace(Nodes))

\* What gate and allowlist together permit.
Policy == {sa \in States \X Actions : Permitted(gate, sa[1], sa[2])}

\* A message leaves the agent's inbox when the handler has dealt with it, an
\* action leaves its list when it was refused or the executor performed it.
Inbox == InHand \o mailbox
Todo  == IF pc \in {"observe", "allow"} THEN Tail(pending) ELSE pending

Agent == INSTANCE GatedAgent WITH
  Lists      <- UNION {Proposals[t] : t \in Topics},
  policy     <- Policy,
  inbox      <- Inbox,
  agentState <- state,
  todo       <- Todo,
  effects    <- world,
  up         <- status = "running"

\* The runner implements the abstract agent (runner.rs:145-266).
ImplementsAgent == Agent!AgentSpec

\* ... and works off its inbox and its proposals like one.
ImplementsLiveAgent == Agent!AgentFairSpec
==============================================================================

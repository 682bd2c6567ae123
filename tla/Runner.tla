------------------------------- MODULE Runner -------------------------------
(***************************************************************************)
(* One agent process of soft: the mailbox, the tick threads that feed it,  *)
(* and Runner::step, which takes one message, dispatches it to a topic      *)
(* handler and passes every action the handler proposes through the spec    *)
(* gate and the MCP allowlist before the executor performs it              *)
(* (crates/soft-agent/src/runner.rs, mailbox.rs, gate.rs, trace.rs).        *)
(*                                                                         *)
(* A step of the code is several actions here.  The cut points are what    *)
(* another thread, or the outside world, can tell apart: each lock of a     *)
(* metric family, the call of the executor, the arrival of a message.  The  *)
(* trace and the agent's state belong to the runner alone, so a change of   *)
(* theirs is joined to the neighbouring action.                            *)
(***************************************************************************)
EXTENDS Naturals, Sequences, FiniteSets

CONSTANTS
  Topics,          \* message topics, with or without a handler
  Peers,           \* names senders of A2A messages give; "self" is not refused
  TickTopics,      \* topics given to RunnerBuilder::tick, one thread each
  HandlerKind,     \* topic -> "rust" | "lex" | "none", RunnerBuilder::handle*
  Proposals,       \* topic -> the lists of actions its handler may propose
  States,          \* values of the agent's JSON state
  InitialState,    \* RunnerBuilder::state
  Actions,         \* the actions handlers may propose
  AllowedServers,  \* AgentConfig::mcp_servers
  Gates,           \* candidate gates: NoGate or a list of specs
  NoGate,          \* Option::None of Runner.gate
  MaxMessages,     \* bound: messages accepted by the mailbox
  MaxIdle          \* bound: polls of an empty mailbox that are counted

Self == "self"    \* the sender name of synthetic tick messages

Kinds == {"call_mcp", "send_a2a", "local_llm", "cloud_llm"}
Verdicts == {"Allow", "Deny", "Inconclusive"}
Reasons == {"gate", "mcp_allowlist"}
Outcomes == {"Idle", "Processed", "Error"}
Messages == [from: Peers \cup {Self}, topic: Topics]
Specs == [States -> [Actions -> Verdicts]]

ASSUME RunnerAssumption ==
  /\ TickTopics \subseteq Topics
  /\ HandlerKind \in [Topics -> {"rust", "lex", "none"}]
  /\ Proposals \in [Topics -> SUBSET Seq(Actions)]
  /\ InitialState \in States
  /\ \A a \in Actions : a.kind \in Kinds
  /\ NoGate \notin Seq(Specs)
  /\ Gates \subseteq Seq(Specs) \cup {NoGate}
  /\ MaxMessages \in Nat /\ MaxIdle \in Nat

VARIABLES
  gate,      \* Runner.gate, fixed when the runner is built
  mailbox,   \* the mpsc queue
  ticking,   \* tick threads still in their loop
  state,     \* Runner.state
  pc,        \* where Runner::step is; "loop" between two steps
  msg,       \* the message of the step
  pending,   \* proposed actions not decided yet, the current one first
  result,    \* the outcome label of the step that is ending
  report,    \* allowed and denied of the step, StepReport::Processed
  trace,     \* TraceWriter.nodes
  metrics,   \* the counter families (histograms by their _count)
  status,    \* "running", then "finalized" or "crashed"
  stored,    \* traces the store holds
  accepted,  \* history: messages MailboxSender::send accepted, in order
  world      \* history: what the executor was asked to do, in order

vars == <<gate, mailbox, ticking, state, pc, msg, pending, result, report,
          trace, metrics, status, stored, accepted, world>>

-----------------------------------------------------------------------------
(* The gate, the allowlist and what they permit.                           *)

\* evaluate_gate_compiled: the first verdict that is not Allow, else Allow.
Evaluate(specs, s, a) ==
  IF \A i \in DOMAIN specs : specs[i][s][a] = "Allow"
  THEN "Allow"
  ELSE LET first == CHOOSE i \in DOMAIN specs :
                      /\ specs[i][s][a] # "Allow"
                      /\ \A j \in 1..(i - 1) : specs[j][s][a] = "Allow"
       IN  specs[first][s][a]

GateAllows(g, s, a) == g = NoGate \/ Evaluate(g, s, a) = "Allow"

AllowsMcpServer(a) == a.kind = "call_mcp" => a.server \in AllowedServers

Permitted(g, s, a) == GateAllows(g, s, a) /\ AllowsMcpServer(a)

Current == Head(pending)

-----------------------------------------------------------------------------
(* Trace events and counters.                                              *)

Received(m)     == [event |-> "a2a.received", msg |-> m]
Proposed(a)     == [event |-> "action.proposed", action |-> a]
Verdict(a, v)   == [event |-> "gate.verdict", action |-> a, verdict |-> v]
Skipped(a)      == [event |-> "action.skipped", action |-> a]
Executed(a, ok) == [event |-> "action.executed", action |-> a, ok |-> ok]

Events ==
  {Received(m) : m \in Messages} \cup {Proposed(a) : a \in Actions}
    \cup {Verdict(a, v) : a \in Actions, v \in Verdicts}
    \cup {Skipped(a) : a \in Actions}
    \cup {Executed(a, ok) : a \in Actions, ok \in BOOLEAN}

\* The series of the metric families: <<family, label>>, or <<family, kind,
\* reason>> for the denied counter.  A histogram is its _count series.
Counters ==
  ({"messages", "ticks"} \X Topics)
    \cup ({"proposed", "allowed", "executeDuration"} \X Kinds)
    \cup ({"denied"} \X Kinds \X Reasons)
    \cup ({"verdict"} \X Verdicts)
    \cup ({"steps", "stepDuration"} \X Outcomes)

\* LabeledCounter::inc, LabeledCounter2::inc, LabeledHistogram::observe: one
\* increment under the lock of the family.
Inc(counter) == metrics' = [metrics EXCEPT ![counter] = @ + 1]

\* What the executor was asked to do, in which state, and what it answered.
Performed == [action: Actions, state: States, ok: BOOLEAN]

TickOf(t) == [from |-> Self, topic |-> t]

Reports == [allowed: Nat, denied: Nat]

NoMessage == [from |-> Self, topic |-> "none"]

\* A slip (see below): the loop does not end with the last action.
NextActionLoopsOn ==
  pending' = Tail(pending) /\ pc' = "propose"

\* The for loop goes on with the next proposed action, or ends.
NextAction ==
  /\ pending' = Tail(pending)
  /\ pc' = IF pending' = <<>> THEN "end" ELSE "propose"

\* The runner's thread is at a place of Runner::step.
At(label) == status = "running" /\ pc = label

-----------------------------------------------------------------------------
(* Slips: what the actions below would be with a plausible mistake in the   *)
(* code.  No specification uses them; the checks are shown to notice them.  *)

\* matches!(verdict, Allow | Inconclusive).
EvaluateGateLenient ==
  /\ At("gate")
  /\ LET v == Evaluate(gate, state, Current)
     IN  /\ trace' = Append(trace, Verdict(Current, v))
         /\ Inc(<<"verdict", v>>)
         /\ pc' = IF v = "Deny" THEN "deny" ELSE "allowlist"
  /\ UNCHANGED <<gate, mailbox, ticking, state, msg, pending, result, report,
                 status, stored, accepted, world>>

\* Only refusals are recorded.
EvaluateGateSilent ==
  /\ At("gate")
  /\ LET v == Evaluate(gate, state, Current)
     IN  /\ trace' = IF v = "Allow" THEN trace ELSE Append(trace, Verdict(Current, v))
         /\ Inc(<<"verdict", v>>)
         /\ pc' = IF v = "Allow" THEN "allowlist" ELSE "deny"
  /\ UNCHANGED <<gate, mailbox, ticking, state, msg, pending, result, report,
                 status, stored, accepted, world>>

\* A refused action ends the step (break for continue).
DenyBreaks ==
  /\ At("deny")
  /\ Inc(<<"denied", Current.kind, "gate">>)
  /\ report' = [report EXCEPT !.denied = @ + 1]
  /\ pending' = <<>>
  /\ pc' = "end"
  /\ UNCHANGED <<gate, mailbox, ticking, state, msg, result, trace, status,
                 stored, accepted, world>>

DenyWrongReason ==
  /\ At("deny")
  /\ Inc(<<"denied", Current.kind, "mcp_allowlist">>)
  /\ report' = [report EXCEPT !.denied = @ + 1]
  /\ pending' = Tail(pending)
  /\ pc' = IF pending' = <<>> THEN "end" ELSE "propose"
  /\ UNCHANGED <<gate, mailbox, ticking, state, msg, result, trace, status,
                 stored, accepted, world>>

\* continue before inc_action_denied.
SkipMcpUncounted ==
  /\ At("allowlist")
  /\ ~AllowsMcpServer(Current)
  /\ trace' = Append(trace, Skipped(Current))
  /\ report' = [report EXCEPT !.denied = @ + 1]
  /\ pending' = Tail(pending)
  /\ pc' = IF pending' = <<>> THEN "end" ELSE "propose"
  /\ UNCHANGED <<gate, mailbox, ticking, state, msg, result, metrics, status,
                 stored, accepted, world>>

\* The outcome of the executor is not looked at.
AllowRecordsOk ==
  /\ At("allow")
  /\ trace' = Append(trace, Executed(Current, TRUE))
  /\ Inc(<<"allowed", Current.kind>>)
  /\ report' = [report EXCEPT !.allowed = @ + 1]
  /\ pending' = Tail(pending)
  /\ pc' = IF pending' = <<>> THEN "end" ELSE "propose"
  /\ UNCHANGED <<gate, mailbox, ticking, state, msg, result, status, stored,
                 accepted, world>>

\* a2a.received is recorded once the dispatch has succeeded.
DispatchErrorUnrecorded ==
  /\ At("dispatch")
  /\ HandlerKind[msg.topic] # "rust"
  /\ result' = "Error"
  /\ pc' = "end"
  /\ UNCHANGED <<gate, mailbox, ticking, state, msg, pending, report, trace,
                 metrics, status, stored, accepted, world>>

\* The main loop takes one step and stops (an if for a while).
ObserveStepReturns ==
  /\ At("ended")
  /\ Inc(<<"stepDuration", result>>)
  /\ pc' = "returned"
  /\ UNCHANGED <<gate, mailbox, ticking, state, msg, pending, result, report,
                 trace, status, stored, accepted, world>>

\* The tick thread does not look at the result of send.
TickExitIgnored(t) ==
  /\ t \in ticking
  /\ status = "finalized"
  /\ UNCHANGED vars

-----------------------------------------------------------------------------
(* RunnerBuilder::build, then the senders of the mailbox.                  *)

Init ==
  /\ gate \in Gates
  /\ mailbox = <<>>
  /\ ticking = TickTopics
  /\ state = InitialState
  /\ pc = "loop"
  /\ msg = NoMessage
  /\ pending = <<>>
  /\ result = "Idle"
  /\ report = [allowed |-> 0, denied |-> 0]
  /\ trace = <<>>
  /\ metrics = [c \in Counters |-> 0]
  /\ status = "running"
  /\ stored = {}
  /\ accepted = <<>>
  /\ world = <<>>

\* MailboxSender::send while the receiver exists.
Accept(m) ==
  /\ status = "running"
  /\ Len(accepted) < MaxMessages
  /\ mailbox' = Append(mailbox, m)
  /\ accepted' = Append(accepted, m)

\* A peer's message arrives, on whichever thread holds a clone of the sender.
Send(p, t) ==
  /\ Accept([from |-> p, topic |-> t])
  /\ UNCHANGED <<gate, ticking, state, pc, msg, pending, result, report,
                 trace, metrics, status, stored, world>>

\* A tick thread wakes up and sends.
Tick(t) ==
  /\ t \in ticking
  /\ Accept(TickOf(t))
  /\ UNCHANGED <<gate, ticking, state, pc, msg, pending, result, report,
                 trace, metrics, status, stored, world>>

\* A tick thread wakes up, finds the receiver dropped and leaves its loop.
TickExit(t) ==
  /\ t \in ticking
  /\ status = "finalized"
  /\ ticking' = ticking \ {t}
  /\ UNCHANGED <<gate, mailbox, state, pc, msg, pending, result, report,
                 trace, metrics, status, stored, accepted, world>>

-----------------------------------------------------------------------------
(* Runner::step.                                                           *)

\* try_recv returns None.
Idle ==
  /\ At("loop")
  /\ mailbox = <<>>
  /\ metrics[<<"steps", "Idle">>] < MaxIdle
  /\ Inc(<<"steps", "Idle">>)
  /\ result' = "Idle"
  /\ pc' = "ended"
  /\ UNCHANGED <<gate, mailbox, ticking, state, msg, pending, report, trace,
                 status, stored, accepted, world>>

\* try_recv returns a message; inc_message.
Receive ==
  /\ At("loop")
  /\ mailbox # <<>>
  /\ msg' = Head(mailbox)
  /\ mailbox' = Tail(mailbox)
  /\ Inc(<<"messages", msg'.topic>>)
  /\ report' = [allowed |-> 0, denied |-> 0]
  /\ pc' = IF msg'.from = Self THEN "tick" ELSE "dispatch"
  /\ UNCHANGED <<gate, ticking, state, pending, result, trace, status,
                 stored, accepted, world>>

\* inc_tick, for any message whose sender says "self".
CountTick ==
  /\ At("tick")
  /\ Inc(<<"ticks", msg.topic>>)
  /\ pc' = "dispatch"
  /\ UNCHANGED <<gate, mailbox, ticking, state, msg, pending, result, report,
                 trace, status, stored, accepted, world>>

\* The a2a.received event, then a handler that returns: it replaces the
\* state and proposes actions.
Dispatch ==
  /\ At("dispatch")
  /\ HandlerKind[msg.topic] # "none"
  /\ trace' = Append(trace, Received(msg))
  /\ state' \in States
  /\ pending' \in Proposals[msg.topic]
  /\ pc' = IF pending' = <<>> THEN "end" ELSE "propose"
  /\ result' = "Processed"
  /\ UNCHANGED <<gate, mailbox, ticking, msg, report, metrics, status, stored,
                 accepted, world>>

\* The a2a.received event, then no handler, or a Lex handler whose call or
\* whose returned action list fails: the message is gone, the state kept.
DispatchError ==
  /\ At("dispatch")
  /\ HandlerKind[msg.topic] # "rust"
  /\ trace' = Append(trace, Received(msg))
  /\ result' = "Error"
  /\ pc' = "end"
  /\ UNCHANGED <<gate, mailbox, ticking, state, msg, pending, report, metrics,
                 status, stored, accepted, world>>

\* inc_action_proposed and the action.proposed event.
Propose ==
  /\ At("propose")
  /\ Inc(<<"proposed", Current.kind>>)
  /\ trace' = Append(trace, Proposed(Current))
  /\ pc' = IF gate = NoGate THEN "allowlist" ELSE "gate"
  /\ UNCHANGED <<gate, mailbox, ticking, state, msg, pending, result, report,
                 status, stored, accepted, world>>

\* evaluate_traced against the state the handler left, the gate.verdict
\* event and inc_gate_verdict.
EvaluateGate ==
  /\ At("gate")
  /\ LET v == Evaluate(gate, state, Current)
     IN  /\ trace' = Append(trace, Verdict(Current, v))
         /\ Inc(<<"verdict", v>>)
         /\ pc' = IF v = "Allow" THEN "allowlist" ELSE "deny"
  /\ UNCHANGED <<gate, mailbox, ticking, state, msg, pending, result, report,
                 status, stored, accepted, world>>

\* inc_action_denied(kind, "gate"); continue.
Deny ==
  /\ At("deny")
  /\ Inc(<<"denied", Current.kind, "gate">>)
  /\ report' = [report EXCEPT !.denied = @ + 1]
  /\ NextAction
  /\ UNCHANGED <<gate, mailbox, ticking, state, msg, result, trace, status,
                 stored, accepted, world>>

\* call_mcp to a server that is not in the allowlist.
SkipMcp ==
  /\ At("allowlist")
  /\ ~AllowsMcpServer(Current)
  /\ trace' = Append(trace, Skipped(Current))
  /\ Inc(<<"denied", Current.kind, "mcp_allowlist">>)
  /\ report' = [report EXCEPT !.denied = @ + 1]
  /\ NextAction
  /\ UNCHANGED <<gate, mailbox, ticking, state, msg, result, status, stored,
                 accepted, world>>

\* executor.execute: the effect, whether the executor then says Ok or Err.
Execute ==
  /\ At("allowlist")
  /\ AllowsMcpServer(Current)
  /\ \E ok \in BOOLEAN :
       world' = Append(world, [action |-> Current, state |-> state, ok |-> ok])
  /\ pc' = "observe"
  /\ UNCHANGED <<gate, mailbox, ticking, state, msg, pending, result, report,
                 trace, metrics, status, stored, accepted>>

\* observe_action_execute_duration.
ObserveExecute ==
  /\ At("observe")
  /\ Inc(<<"executeDuration", Current.kind>>)
  /\ pc' = "allow"
  /\ UNCHANGED <<gate, mailbox, ticking, state, msg, pending, result, report,
                 trace, status, stored, accepted, world>>

\* The action.executed event and inc_action_allowed, on Ok and on Err.
Allow ==
  /\ At("allow")
  /\ trace' = Append(trace, Executed(Current, world[Len(world)].ok))
  /\ Inc(<<"allowed", Current.kind>>)
  /\ report' = [report EXCEPT !.allowed = @ + 1]
  /\ NextAction
  /\ UNCHANGED <<gate, mailbox, ticking, state, msg, result, status, stored,
                 accepted, world>>

\* inc_step(outcome).
EndStep ==
  /\ At("end")
  /\ Inc(<<"steps", result>>)
  /\ pc' = "ended"
  /\ UNCHANGED <<gate, mailbox, ticking, state, msg, pending, result, report,
                 trace, status, stored, accepted, world>>

\* observe_step_duration(outcome); step returns to its caller.
ObserveStep ==
  /\ At("ended")
  /\ Inc(<<"stepDuration", result>>)
  /\ pc' = "loop"
  /\ UNCHANGED <<gate, mailbox, ticking, state, msg, pending, result, report,
                 trace, status, stored, accepted, world>>

-----------------------------------------------------------------------------
(* The end of a runner: it is consumed between two steps, or the process   *)
(* dies anywhere.                                                          *)

\* Runner::finalize drops the runner whether or not save_trace succeeds.
Finalize ==
  /\ At("loop")
  /\ status' = "finalized"
  /\ stored' \in {stored, stored \cup {trace}}
  /\ UNCHANGED <<gate, mailbox, ticking, state, pc, msg, pending, result,
                 report, trace, metrics, accepted, world>>

\* SIGKILL, power loss or a panic of the runner's thread.
Crash ==
  /\ status = "running"
  /\ status' = "crashed"
  /\ ticking' = {}
  /\ UNCHANGED <<gate, mailbox, state, pc, msg, pending, result, report,
                 trace, metrics, stored, accepted, world>>

-----------------------------------------------------------------------------
Step ==
  \/ Idle \/ Receive \/ CountTick
  \/ Dispatch \/ DispatchError
  \/ Propose \/ EvaluateGate \/ Deny \/ SkipMcp
  \/ Execute \/ ObserveExecute \/ Allow
  \/ EndStep \/ ObserveStep

Next ==
  \/ \E p \in Peers, t \in Topics : Send(p, t)
  \/ \E t \in TickTopics : Tick(t) \/ TickExit(t)
  \/ Step
  \/ Finalize
  \/ Crash

Spec == Init /\ [][Next]_vars

\* The runner's thread is scheduled, and so is every tick thread that has
\* only to notice that the mailbox closed.  Nobody has to send, and the
\* process need not end.
Fairness ==
  /\ WF_vars(Step)
  /\ \A t \in TickTopics : WF_vars(TickExit(t))

FairSpec == Spec /\ Fairness

-----------------------------------------------------------------------------
(* Properties.                                                             *)

Labels == {"loop", "tick", "dispatch", "propose", "gate", "deny",
           "allowlist", "observe", "allow", "end", "ended"}

\* Between inc_action_proposed and the decision on the current action.
Deciding == {"gate", "deny", "allowlist", "observe", "allow"}

\* The values the variables of a runner range over, and which of them the
\* place in Runner::step implies: inside the loop over the proposed actions
\* (runner.rs:184-260) there is a current one.
TypeOK ==
  /\ gate \in Gates
  /\ mailbox \in Seq(Messages)
  /\ ticking \subseteq TickTopics
  /\ state \in States
  /\ pc \in Labels
  /\ msg \in Messages \cup {NoMessage}
  /\ pc \in {"tick", "dispatch"} => msg \in Messages
  /\ pending \in Seq(Actions)
  /\ result \in Outcomes
  /\ report \in Reports
  /\ trace \in Seq(Events)
  /\ metrics \in [Counters -> Nat]
  /\ status \in {"running", "finalized", "crashed"}
  /\ stored \subseteq Seq(Events)
  /\ accepted \in Seq(Messages)
  /\ world \in Seq(Performed)
  /\ (pending # <<>>) <=> (pc \in Deciding \cup {"propose"})
  /\ pc = "gate" => gate # NoGate
  /\ pc \in {"observe", "allow"} => world # <<>>

\* Nothing reaches the executor that the gate did not allow for the state the
\* agent was in, or that calls an MCP server outside the allowlist
\* (runner.rs:192-253; README.md:4 "every outbound action passes through a
\* spec gate before execution").
Enforcement ==
  \A i \in DOMAIN world : Permitted(gate, world[i].state, world[i].action)

\* Why Enforcement holds: past the gate, the current action was allowed (or
\* refused) for the state the runner is still in.
EnforcementInv ==
  /\ Enforcement
  /\ pc = "allowlist" => GateAllows(gate, state, Current)
  /\ pc = "deny" => ~GateAllows(gate, state, Current)

\* 1 while the step is deciding an action of kind k.
InFlight(k, labels) == IF pc \in labels /\ Current.kind = k THEN 1 ELSE 0

\* Every proposed action is counted once more, as allowed or under one reason
\* as denied, and the execution histogram is never behind the allowed counter
\* by an action that failed (runner.rs:187, 230, 243, 254-258).
Accounting ==
  \A k \in Kinds :
    /\ metrics[<<"proposed", k>>] =
         metrics[<<"allowed", k>>] + metrics[<<"denied", k, "gate">>]
           + metrics[<<"denied", k, "mcp_allowlist">>] + InFlight(k, Deciding)
    /\ metrics[<<"executeDuration", k>>] = metrics[<<"allowed", k>>] + InFlight(k, {"allow"})

\* How many of the first i events of a trace are of a kind.
Rank(tr, i, kind) == Cardinality({j \in 1..i : tr[j].event = kind})

\* A trace tells what the executor did first: n effects, in their order and
\* with their outcomes.
Tells(tr, n) ==
  /\ Rank(tr, Len(tr), "action.executed") = n
  /\ \A i \in DOMAIN tr : tr[i].event = "action.executed" =>
       LET did == world[Rank(tr, i, "action.executed")]
       IN  tr[i].action = did.action /\ tr[i].ok = did.ok

\* The trace tells what was done, in order and with its outcome; only the
\* action the executor has just returned from may be missing, and a stored
\* trace misses nothing (runner.rs:253-257, trace.rs:74-89).
AuditTrail ==
  /\ Tells(trace, IF pc \in {"observe", "allow"} THEN Len(world) - 1 ELSE Len(world))
  /\ \A tr \in stored : Tells(tr, Len(world))

\* The event after which an action may be skipped or executed.
Ready(a) == IF gate = NoGate THEN Proposed(a) ELSE Verdict(a, "Allow")

\* In the trace an executed action directly follows its own Allow verdict, or
\* its own proposal when there is no gate; a verdict and a skip directly
\* follow the proposal or the Allow they belong to, and there is no verdict
\* without a gate (runner.rs:184-257).
VerdictBeforeEffect ==
  \A i \in DOMAIN trace :
    LET e == trace[i]
    IN  /\ e.event \in {"action.executed", "action.skipped"}
             => i > 1 /\ trace[i - 1] = Ready(e.action)
        /\ e.event = "gate.verdict"
             => gate # NoGate /\ i > 1 /\ trace[i - 1] = Proposed(e.action)

\* Why VerdictBeforeEffect holds: what the step has just written about the
\* current action is the last event.
TraceInv ==
  /\ VerdictBeforeEffect
  /\ pc \in Deciding => trace # <<>>
  /\ pc = "gate" => trace[Len(trace)] = Proposed(Current)
  /\ pc \in {"allowlist", "observe", "allow"} =>
       trace[Len(trace)] = Ready(Current)

\* The message of the step, until its a2a.received event is written.
InHand == IF pc \in {"tick", "dispatch"} THEN <<msg>> ELSE <<>>

CountOf(seq, P(_)) == Cardinality({i \in DOMAIN seq : P(seq[i])})

\* An accepted message is received once, in the order of acceptance, and none
\* is lost before its turn, whatever handlers fail in between; the received
\* and tick counters count exactly these messages (mailbox.rs:42-50,
\* runner.rs:147-164).
MessagesConserved ==
  LET heard == Rank(trace, Len(trace), "a2a.received")
  IN  /\ accepted = SubSeq(accepted, 1, heard) \o InHand \o mailbox
      /\ \A i \in DOMAIN trace : trace[i].event = "a2a.received" =>
           trace[i].msg = accepted[Rank(trace, i, "a2a.received")]
      /\ \A t \in Topics :
           /\ metrics[<<"messages", t>>] + CountOf(mailbox, LAMBDA m : m.topic = t)
                = CountOf(accepted, LAMBDA m : m.topic = t)
           /\ metrics[<<"ticks", t>>] + CountOf(mailbox, LAMBDA m : m = TickOf(t))
                + (IF pc = "tick" /\ msg = TickOf(t) THEN 1 ELSE 0)
                = CountOf(accepted, LAMBDA m : m = TickOf(t))

\* The counters an operator watches and the trace an auditor reads agree on
\* every kind of action and every verdict, at every moment; a Deny or an
\* Inconclusive verdict becomes a denial (runner.rs:187-258).
CountersMatchTrace ==
  LET Kind(event, k) ==
        CountOf(trace, LAMBDA e : e.event = event /\ e.action.kind = k)
      Given(v) ==
        CountOf(trace, LAMBDA e : e.event = "gate.verdict" /\ e.verdict = v)
      Refused(k) ==
        CountOf(trace, LAMBDA e : /\ e.event = "gate.verdict"
                                  /\ e.verdict # "Allow"
                                  /\ e.action.kind = k)
  IN  /\ \A k \in Kinds :
           /\ Kind("action.proposed", k) = metrics[<<"proposed", k>>]
           /\ Kind("action.executed", k) = metrics[<<"allowed", k>>]
           /\ Kind("action.skipped", k) = metrics[<<"denied", k, "mcp_allowlist">>]
           /\ Refused(k) = metrics[<<"denied", k, "gate">>] + InFlight(k, {"deny"})
      /\ \A v \in Verdicts : Given(v) = metrics[<<"verdict", v>>]

\* A tick thread does not outlive the runner it feeds: once the runner is
\* consumed, every one of them leaves its loop (runner.rs:559-571).
TickThreadsEnd == \A t \in TickTopics : status = "finalized" ~> t \notin ticking

=============================================================================

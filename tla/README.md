# soft, in TLA+

soft runs *agents*: processes that take messages, let a handler propose
actions, pass every action through a specification gate and an allowlist, and
perform what is left, while they keep a trace for auditors and counters for
operators. Agents talk to each other (A2A) over HTTP. This directory holds the
TLA+ modules that model the system, the TLC configurations that check them and
the TLAPS proofs of what matters most. `PROJECT.json` lists, for every
definition that models code, the lines it stands for.

    tlc -workers 2 -config MCRunner.cfg MCRunner.tla      # check a model
    tlapm RunnerProofs.tla                                # check the proofs

## 1. The system

| Component | State it keeps | Operations | Talks to |
|---|---|---|---|
| Runner (`soft-agent/runner.rs`) | agent state (JSON), handlers, gate, trace, metrics handle | `build`, `step`, `drain`, `finalize` | takes from the mailbox, calls handler, gate, executor |
| Mailbox (`mailbox.rs`) | an unbounded mpsc queue | `send`, `try_recv`; closed when the runner is dropped | tick threads, HTTP server, router -> runner |
| Tick threads (`runner.rs:556`) | none; one detached thread per `--tick` | sleep, send a message from `self`; leave when the send fails | mailbox |
| Gate (`gate.rs`) | a list of compiled specs | `evaluate`: the first verdict that is not Allow | external spec-checker |
| MCP allowlist (`agent.rs:132`) | set of servers | `allows_mcp_server` | runner |
| Trace (`trace.rs`) | list of events, in memory until `finalize` | `record_effect`, `finalize` | external store |
| Metrics (`metrics.rs`) | nine families, a mutex each | `inc_*`, `observe_*`, `render_prometheus` | runner writes, server thread reads |
| soft-replay (`replay.rs`, `bin/soft_replay.rs`) | totals | scan traces, exit code | store |
| A2A client, routed executor (`soft-a2a/client.rs`, `executor.rs`) | peer -> URL | blocking POST per send | a peer's server |
| A2A server (`server.rs`) | sender of the mailbox, shutdown flag | one request after the other: message, shutdown, metrics, card, health | mailbox, main loop, metrics |
| soft-run (`soft-runner/main.rs`) | options, files read so far, shutdown flag | parse, read, build, bind; loop over `step` until the flag, finalize, exit; started again by its supervisor | all of the above |
| In-process router (`router.rs`) | peer -> sender, one mutex | the executor within one process | mailboxes |
| Lex host (`lex_host.rs`) | a compiled program, a factory of effect handlers | `from_source`, `with_policy`, `call` | external Lex VM |
| DSL and configuration (`lex_dsl.rs`, `agent.rs`) | none | config record -> agent and handlers, or an error | Lex host, runner |
| Bindings, actions, wire, anthropic | none between calls | convert, decode, ask | external crates |
| Trace viewer | none | lists, shows and searches stored traces | store |
| Demo fleet (`agents/`) | per agent | depot, vehicle, tms, pv, two gates | each other |
| In-process fleet (`examples/multi_depot.rs`) | per agent; totals of a round | three agents, drained in rounds until nothing moves; rollup of the traces | router, store |

What is hard about it:

* **Several threads on one mailbox and one set of counters.** The runner's
  thread, a thread per tick, and the server's thread run at the same time; the
  families of the metrics have a lock each, so nobody sees a consistent whole.
* **A step with many outcomes.** Each of several actions can be denied, skipped,
  fail or succeed, and four accounts of it are kept: counters, trace, report,
  and the world itself.
* **Failures that do not stop anything.** A failed handler, a failed execution
  and a lost connection are recorded and the loop goes on.
* **A blocking client in a serial loop.** A runner waits for the answer of its
  peer, whose runner may be waiting for the first one.
* **Shutdown races.** Flag, mailbox, trace and server end one after the other.
* **Agents that count.** The vehicle counts denials over several messages, in a
  state that all its dispatches share; its and the depot's specs judge every
  message they send, denials and requests for power included.
* **No persistence but the final trace.** A crash forgets everything.
* **A start of many steps.** Options, program, gate files and port are looked at
  one after the other, each may be wrong or change, tick threads run before
  there is a listener, and a supervisor repeats it all.
* **Quiescence by observation.** The driver of the in-process fleet, and readers
  of a store that agents still write to, conclude from what they saw in passing.

## 2. The modules

| Module | Models | Extends or instantiates |
|---|---|---|
| `Runner` | one agent: mailbox, ticks, `step`, gate, allowlist, trace, metrics, finalize, death | |
| `GatedAgent` | abstract: what a runner promises | |
| `ReplayScan` | `scan_trace`, `has_violation` | |
| `Audit` | refinement mapping Runner -> GatedAgent; the runner's trace as soft-replay sees it | `Runner`, `ReplayScan`, `GatedAgent` |
| `Scrape` | `GET /metrics`, concurrent with a runner | `Runner` |
| `Channel` | abstract: what a transport of messages promises | |
| `Delivery` | soft-run processes over HTTP: client, server, main loop, shutdown, crash, restart | `Channel` |
| `Router` | several runners in one process: router, mailboxes, `drain`, the driver's rounds | `ReplayScan`, `Channel` |
| `MultiDepot` | the three agents, gates and the rollup of `examples/multi_depot.rs` | `Router` |
| `TraceReaders` | the soft-replay command and the trace viewer | `ReplayScan` |
| `Fleet` | the demo agents: vehicle, depots, tms, pv, and their two specs | |
| `Launch` | a soft-run process from command line to exit code, and its supervisor | |
| `RunnerProofs` | theorems about `Runner` and `Scrape`, and about the runner's trace: soft-replay, the refinement, counters, effects, messages | `Scrape`, `Audit`, `Counting` |
| `DeliveryProofs`, `RouterProofs`, `ReadersProofs`, `FleetProofs`, `LaunchProofs` | theorems about `Delivery`, `Router`, `TraceReaders`, `Fleet`, `Launch` | the module each is about |
| `MultiDepotProofs` | theorems about `MultiDepot` | `MultiDepot`, `RouterProofs` |
| `Counting` | lemmas: how many elements of a sequence belong to a set, as the sequence grows and shrinks | |
| `MCRunner`, `MCScrape`, `MCDelivery`, `MCMultiDepot`, `MCFleet`, `MCLaunch` | instances for TLC (`TraceReaders` needs none) | |

Each of the modelling modules has a few *slips*: an action or an operator as it
would be with a plausible mistake in the code (a `break` for a `continue`, a
missing record, a retry). No specification uses them; each property is known to
notice one of them.

### Runner

`Runner::step` is one call in the code and fourteen actions here. The cut points
are the places another thread or the outside world can tell apart:

| Action | Code |
|---|---|
| `Idle`, `Receive`, `CountTick` | `try_recv`, `inc_message`, `inc_tick` |
| `Dispatch`, `DispatchError` | the `a2a.received` event and the handler, or its error |
| `Propose` | `inc_action_proposed`, `action.proposed` |
| `EvaluateGate`, `Deny` | `evaluate_traced`, `gate.verdict`, `inc_gate_verdict`; `inc_action_denied(.., "gate")` |
| `SkipMcp` | `action.skipped`, `inc_action_denied(.., "mcp_allowlist")` |
| `Execute`, `ObserveExecute`, `Allow` | the effect; its duration; `action.executed`, `inc_action_allowed` |
| `EndStep`, `ObserveStep` | `inc_step`, `observe_step_duration` |

Trace and agent state belong to the runner's thread alone, so a change of theirs
is joined to the neighbouring counter. A handler is any choice of a new state
and of one of the lists in `Proposals`; a spec is any function from state and
action to a verdict (what its body computes is the external spec-checker's
matter); an execution is an entry in `world` with its outcome. `world` and
`accepted` are history variables. Bounds: `MaxMessages` accepted messages,
`MaxIdle` counted polls of an empty mailbox.

### Scrape

`Scrape` adds the server's thread to a runner: it copies one family after the
other, so a page is not a picture of one moment: it can, for example, show more
allowed and denied actions than proposed ones. `PageBounds` says what it can
still be relied on for.

### Channel, Delivery, Router

`Channel` is the promise both transports make: a mailbox accepts a message at
most once, hands out what it accepted in that order, a sender is told Ok only
for what was accepted, and nothing is lost but with the mailbox.

`Delivery` leaves gate, trace and counters out (a step ends with a list of
sends that passed the gate) and has instead, for every process, a runner's
thread and a server's thread, requests in transit, callers waiting for an
answer, the shutdown flag and the order of finalization, plus broken
connections, crashes, signals (`MaxFaults` of them together) and restarts.
Requests reach a server in any order, since each uses a connection of its own.
A *garbled* request is one whose body is no message or does not end: the
server's thread is stalled until `EndBody`, which nobody owes. In the refinement
`Serve` is `Accept`, `Return` is `Confirm`, `Take` is `Receive` and `Restart` is
`Lose`; what a mailbox loses when a runner is dropped is lost for `Channel` when
the process is made anew.

`Router` has runners in one process, which one thread drains one after the other
in rounds (`drain_until_quiescent`). A name stands for the sender registered
last. A step is cut between its handler and the action that follows; a handler
proposes at most one action, as all of `examples/lex` do. A message without a
handler ends `drain` with an error, which the driver unwraps: phase
`"panicked"`. `FinalizeEarly` is a use of the library the example does not make:
a runner is gone while its sender is still registered. Handlers and gates are
operator constants, for which `MultiDepot` has those of the example.

### TraceReaders

Both readers run on a store in which agents save traces meanwhile: a trace is
`Absent`, `Partial` or any that a gate, working or bypassed, could have left:
which event may follow which (`MayFollow`) is read off the loop of `step`.
`Start`, `TakeArgs` or `ListTraces`, then one turn of the loop per trace (`Scan`
for soft-replay, `Search` and `Show` for the viewer), then the exit code or the
status. One job is done per behaviour; both programs keep nothing between two.

### Launch

Each stage of `main` is an action with the exit code it may end in (`TakeFlag`:
one turn of the loop over the flags; `ReadSpec`: one file). A word of a command
line is the sequence of its parts between `=`, since that is all `parse_args`
looks at. The program's file is what is left of it after parsing: a config with
its effects, servers, specs and handler entries, which are registered one by one
(`Configure`, `Register` per entry, `EndOfHandlers`). A spec's file holds one of
two versions that compile, or is broken or missing, so that a gate read half
before and half after a deployment differs from either. `Loopbacks` are the words
that are a loopback IP address (all of 127/8, which `is_loopback_bind` asks for),
`Addresses` those a listener can be bound to: `Bind` fails on any other, and when
the port is taken. `Deploy` and `Kill` may change files and port, or end the
process, between any two stages, `MaxChanges` times; `born`, a history variable,
is the count of these when the life began.

`--budget` is followed to the options and no further. What a Lex call may charge
is the external VM's matter: by `tests/budget_probe.rs` it is charged where the
VM runs a call, on a handler that `LexHost::call` makes anew for each call
(`lex_host.rs:118`); and the Anthropic handler implements `dispatch` alone
(`anthropic.rs:77-84`).

### Fleet

`Fleet` stands one level above the others: `Runner` and `Delivery` say how an
agent handles a message and how a message travels, `Fleet` what the agents of
`agents/` say to each other with it. Each handler is an operator with the name
of the Lex function (`OnDispatch` for `on_dispatch`), each agent has one action
that takes a message, runs the handler, lets the spec judge the one message it
may send, and puts it into the peer's mailbox or loses it. These belong to one
action because nothing but a mailbox is shared. A peer that has taken a message
and whose answer was lost is not told apart from one that answered: the runner
goes on in both cases. `depot2` is a process of its own when it is in `Depots`
and else, as in every deployment of the repository, another name of `depot`.
Bounds: `MaxPosts` messages from outside, `MaxTicks` ticks, `MaxFaults` lost
messages and restarts. Floats are integers here (kW and percent): the handlers
only add and compare them.

## 3. What is checked

| Run | Instance | Shows |
|---|---|---|
| `runner` | a Lex topic proposing nothing or one of two pairs of actions, a Rust tick topic, an unknown topic; peers `tms` and one that says `self`; no gate or two specs giving Deny and Inconclusive; 2 messages, 1 idle poll: 123 488 states | `Enforcement`, `Accounting`, `AuditTrail`, `VerdictBeforeEffect`, `MessagesConserved`, `CountersMatchTrace`, `NeverViolates`, refinement `ImplementsAgent`; under fairness `ImplementsLiveAgent`, `TickThreadsEnd` |
| `scrape` | one topic, two actions, two messages: 494 646 states | `PageBounds`: which number on a page can be trusted to be at most which other |
| `delivery` | two agents, one of which sends to the other twice in a step or to a peer without a URL, an operator with two requests (message, shutdown or garbled), one fault: 181 625 states, under fairness | refinement `ImplementsChannel`, `ConfirmedInOrder`, `StopsSoon`; `CallsReturn` (no deadlock of agents that send to each other), `MailboxDrains`, `ShutdownEnds` |
| `router` | five sets of runners (all three, depot or tms missing, depot or vehicle registered twice), twelve situations, two dispatches from tms or depot, one runner finalized early: 72 386 states, under fairness | refinement `ImplementsChannel`, `OneEnd`, `Answered`, `RollupClean`, `Settles` |
| `replay` | two runs, traces of up to two actions, up to two arguments, three queries: 2 935 352 states | `SuccessMeansClean`, `FailureHasCause`, `SearchFaithful` |
| `fleet` | vehicle charged or not, two depots in four situations each, no spec, the depots' or all; two posts, one tick, one fault: 105 106 states, under fairness | `OutcomeOnce`, `OutcomeEarned`, `CompletesOnPower`, `ChainsEnd`, `DenialsAnswered` |
| `launch` | ten command lines, two environments, six programs, two spec files in two versions, broken or missing, one change from outside: 165 856 states, under fairness | `ParsedAsGiven`, `RunnerAsConfigured`, `ExitTells`, `StopEnds`, `Recovers` |
| `fleet_falls_over` | one depot, all specs, no fault, under fairness | **violated:** `README.md` says the vehicle "falls over to a backup depot on first denial"; `depot.spec` cannot judge a denial, which carries no `power_kw`, so it is withheld and the vehicle is not told |
| `fleet_grid_budget` | one depot with power for one session, all specs, no fault | **violated:** `docs/proposal.md:170` names as a gate "Site grid budget never exceeded."; what a depot has granted is never added to `current_kw`, so two sessions that fit one by one exceed it together |
| `fleet_backup_asked` | a vehicle that must charge, two depots without power, no specs, no fault | **violated:** `vehicle.lex:7-8` has `tried` "so the vehicle can re-route to a backup depot on the first denial"; of two dispatches that share the count, one is given up on its first denial and the backup depot asked only once |
| `launch_compose` | the vehicle's command line of `docker-compose.yml`, everything else in order, under fairness | **violated:** "docker compose up --build", then "Vehicle: http://localhost:8001"; `--port=8001` is an unknown flag to soft-run, which exits with 2 and is restarted for ever |
| `replay_bypass` | one trace | **violated:** `has_violation` compares totals, so an unused Allow hides a bypassed Deny |

**Why the bounds are enough.** Two messages are the least with which one step can
disturb the next (order, conservation, counters that restart); two actions in a
step are the least with which a decision on one can be charged to the other, and
the proposals put an action that passes after one that the gate or the allowlist
refuses and after one that passes, in a state where the specs disagree and where
only the second one objects. Two processes
that send to each other, one of them twice in a step, are the least for deadlock,
for overtaking and for a message lost between two others. One fault breaks a
connection at any moment of a send, before, while and after the peer accepts, or
ends a process in any state; what several of them do together is left to the
theorems, which hold for any number. In the fleet two requests are the least
whose denials can be mixed up, and the four situations of a depot put a request
below, at and above its budget, and apart from what is granted. For soft-replay
two actions are the least for a
bypass and an unused Allow to cancel. In the in-process fleet two dispatches are
the least that can be mixed up; no more than four rounds are ever used
(`RoundsFewHolds`). For a start, one change from outside
between any two stages shows all that a stage assumes of the one before; with the
restarts it is also the least that breaks a start and lets a later one succeed.

**Fairness.** `Runner` assumes that the runner's thread runs (its code blocks
nowhere but in the executor) and that tick threads that only have to notice the
end of their runner wake up: they sleep for a fixed time. Nobody has to send.
`Delivery` assumes that the runner's and the server's thread of every process
run; each waits only for the other kind. Clients, signals, faults and restarts
owe nothing, not even the rest of a body: its liveness properties have as a
hypothesis that no server is stalled for ever (`BodiesEnd`). `Fleet` assumes that
every agent works off its mailbox, which `MailboxDrains` of `Delivery` shows of a
process that lives, and nothing of those who post, of ticks or of faults.
`Router` assumes that its one thread runs. `Launch` assumes that `main` runs and
that the supervisor restarts what ended (`restart: unless-stopped`): it speaks of
the time until an operator stops the container.

**Deadlock.** `launch` checks that the process and its supervisor always have a
step. Elsewhere `CHECK_DEADLOCK FALSE`: agents stop, and bounds end every
behaviour.

## 4. What is proved

TLAPS checks the theorems below for every value of the constants that satisfies
the assumptions of the module. Every safety property a run checks is among them.

| Theorem | Says |
|---|---|
| **`RunnerProofs`**: any topics, peers, states and actions, gates, handlers, number of messages (`RunnerAssumption`) | |
| `TypeCorrect` | `Spec => []TypeOK` |
| `EnforcementHolds` | nothing reaches the executor that gate and allowlist do not permit in the state of that moment |
| `AccountingHolds` | proposed = allowed + denied + the one being decided, per kind |
| `VerdictBeforeEffectHolds` | an execution directly follows its own Allow in the trace |
| `PageBoundsHold` | `ScrapeSpec => []PageBounds`: what a page of `GET /metrics` may be relied on for |
| `NeverViolatesHolds` | soft-replay finds nothing in a runner's trace, wherever it ends |
| `CountersMatchTraceHolds` | counters and trace agree on every kind of action and every verdict |
| `AuditTrailHolds` | the trace tells what the executor did, in order and with its outcome |
| `MessagesConservedHolds` | an accepted message is received once and in order, and counted |
| `RunnerImplementsAgent` | `Spec => ImplementsAgent`: the runner is a gated agent |
| `StepEndsHolds` | a step leaves a number of actions to do, and each of them leaves fewer |
| **`DeliveryProofs`**: any agents, clients, sends, URLs, posts and faults (`DeliveryAssumption`) | |
| `TypeCorrect` | `Spec => []TypeOK` |
| `DeliveryImplementsChannel` | HTTP with broken connections, crashes and restarts is a channel |
| `ConfirmedInOrderHolds` | what its sender saw accepted is not overtaken by a later message of that sender |
| `StopsSoonHolds` | at most one more message after the stop |
| `NobodyForgottenHolds` | who waits for an answer waits for a process that lives and has the request |
| `StopNearsHolds` | each turn of a runner told to stop brings its end nearer, and nothing else puts it off |
| **`RouterProofs`**: any runners under any names, any handlers and gates (`RouterAssumption`) | |
| `RouterImplementsChannel` | the in-process router is a channel, with names registered twice and runners gone early |
| `SettledMeansRead` | when the driver reports that the agents have settled, all mailboxes are empty (the first half of `OneEnd`) |
| **`MultiDepotProofs`**: any number of the three agents in any order, missing or under a name taken twice, any dispatches, amounts and limits (`RouterAssumption`, `DemoAssumption`) | |
| `OneEndHolds` | each dispatch comes to one end |
| `AnsweredHolds` | with all three there and within their limits, tms gets one outcome for each dispatch |
| `RollupCleanHolds` | the counts of all runs added up never look like a bypass |
| `RoundsFewHolds` | the driver needs four rounds at most, the silent one included, and never gives up |
| `ReadFewHolds` | a dispatch becomes four messages at most that are read, so no drain goes on for ever |
| **`ReadersProofs`**: any finite set of runs, traces and command lines of any length, any queries (`ReadersAssumption`) | |
| `SuccessMeansCleanHolds`, `FailureHasCauseHolds` | what the exit codes 0 and 1 of soft-replay mean |
| `SearchFaithfulHolds` | a search finds all it should, once and in order, and nothing else |
| **`FleetProofs`**: any starts and gatings, any posts, ticks and faults (`FleetAssumption`) | |
| `FleetTypes` | `FairSpec => []TypeOK` |
| `OutcomeOnceHolds` | a request has at most one outcome; without gates and faults, one outcome or a message on its way to it |
| `OutcomeEarnedHolds` | no outcome without a depot's word |
| `ChainsShrinkHolds` | every step of an agent leaves less work; a dispatch, a tick and a restart bring at most six, two and four steps |
| `AskedFewHolds` | the vehicle asks for power at most twice for each message from outside and each fault, and twice at the start |
| `CompletesOnPowerHolds` | with gated depots nothing is completed that no depot had the power for |
| **`LaunchProofs`**: any command lines, environments, programs and files, any changes of them (`LaunchAssumption`) | |
| `LaunchTypes` | `FairSpec => []TypeOK` |
| `ParsedAsGivenHolds` | the options are those of the command line, in whatever order and number |
| `RunnerAsConfiguredHolds` | who takes messages has its whole gate, that of the disk unless something was deployed since the start, and its last handlers |
| `ExitTellsHolds` | the exit code of every step that ends the process tells why |
| `MainNearsHolds` | every step of `main` ends a stage or leaves fewer flags, handlers, specs or messages in it |
| `StopNearsHolds` | once the process was told to stop, nothing from outside gives it a turn more |
| `OrderServesHolds` | a life that begins with all in order stays in order and reaches its loop |

**Assumptions.** They give the constants their sorts, and say beyond that: a
handler of `Router` sends on the topics there are (`RouterAssumption`); names,
gates, handlers and the topic of the dispatches are those of the example
(`DemoAssumption`); a store
has finitely many runs (`ReadersAssumption`), as every directory has; a
word of a command line has at least one part, a program that compiles has a list
of spec paths and a list of handler entries, and 127.0.0.1, where soft-run listens
by default, is a loopback address of the host (`LaunchAssumption`); at the start a vehicle has been denied
nothing and a depot has no sun (`FleetAssumption`), which the `--state-json` of
every deployment of the repository says.

**Runner.** `TypeOK` is inductive because it says at which places there is a
current action. `Enforcement` is not: it needs that from the gate on
(`pc = "allowlist"`) the current action is allowed in the state *the runner is
still in*, which is `EnforcementInv`; only `Dispatch` changes the state, and it
leaves no action past the gate. `VerdictBeforeEffect` needs that the last event
of the trace is the one the step has just written about its current action
(`TraceInv`). `Accounting` is inductive with `TypeOK`. For `NeverViolates` the
counts of executed and of allowing events are compared by an injection: an
execution is mapped to the event before it, which by `VerdictBeforeEffect` is an
Allow when there is a gate; without one no verdict is ever recorded and
`is_gated` is false. The refinement maps `Execute` to `Perform`, `Deny` and
`SkipMcp` to `Reject`, `Dispatch` and `DispatchError` to `Take`, and everything
that only counts or records to a stutter.

**A page of metrics.** `PageBounds` speaks of numbers copied at nine different
moments. Two invariants carry it. `CountersInv` relates the counters to each
other *now*, up to the action or the step in hand: denials by the gate and
verdicts that deny, allowed and skipped actions and Allows, messages, steps and
durations. `PageInv` relates the page to the counters it will still copy:
`Seen(n)` is the page where family `n` is already on it, and the live counter
where it is not. Each copied number is at most `Seen` of the family that
bounds it, since counters only grow while the page waits; when the last family
is on the page, `Seen` is the page.

**Trace, effects and messages.** `MatchInv` is `CountersMatchTrace` with each
count as the number of elements of a set (`Counting!Hits`): an event appended to
the trace adds one to the sets it belongs to. `AuditInv` says that the trace
tells all effects but one while `pc` is between the executor and the record, and
that the one still to be told is the current action; nothing is stored before the
end, and from then on nothing moves. For `MessagesConserved`, `OrderInv` puts the
messages in one row: as many as have an `a2a.received` event, the one in hand,
and those in the mailbox are the accepted ones; `TallyInv` adds the counters. A
message that says it comes from `self` is counted as a tick after it is
counted as a message, which is why the invariant knows the place `"tick"`.

**Delivery.** The invariant is `DeliveryInv`. That a message is accepted at most
once needs that requests carry their caller's numbers up to `sent`, that two
requests under way with one caller and number are one, and that a request under
way has not been accepted (`NumberedInv`, `NewInv`); a server that has dealt with
a message and is to say Ok has accepted it (`ServedInv`); the request a runner
waits for is the send it is at (`CallInv`). Then an answer Ok, and so a recorded
success, means acceptance: `ConfirmedInv` says every send recorded as delivered is
the agent's own message and was accepted. With it, `ConfirmedInOrder` is
preserved: what is accepted now was not accepted, so not confirmed, before, and a
send confirmed now carries its caller's latest number, above which nothing is
accepted. `QueueInv` says that what a mailbox holds, after what
was received and what earlier lives lost, is the end of what it accepted: `Take`
receives the next one. `StopsSoon` is inductive once it says where the one late
message can have been taken: after it, the loop is not in a step again.

**Router.** `QueueInv` is the same for mailboxes that are open, or not yet
there; a runner that is gone has an empty one. `NumberInv`: no mailbox has
accepted a message with a number its sender has not reached, so what `Perform`
delivers is new. The driver's conclusion is `QuietInv`: as long as no runner has
moved in a round, the mailboxes of those whose turn has passed are empty, and a
message to one of them can only come from a runner that has moved.

**Several depots.** Sums over the runners are counts of pairs of a runner and a
place in its mailbox, its trace or what it received (`OfAll`), so that a step that
adds one element to one of the sequences adds one pair (`TotalGrow`), and no sum
needs an induction. `DispatchInv` then is a balance: ends, denials, executions,
messages that wait and the action in hand are together as many as dispatches and
messages that runners delivered. Each step moves one unit: `Take` turns a message
into an end or an action (`Reaction`), `Perform` an action into a denial or an
execution, which is lost or becomes a message. That the delivered message is a new
one needs `ConfirmedInv` and the `NumberInv` of the router. For `Answered`,
`RouteInv` says that outcomes come to the registered tms alone, and `SmoothInv`
that nothing is denied or lost within the limits: `PendingInv` has carried the
handler's check to the gate, and `RegistryInv` says that every name leads to an
open mailbox. For `RollupClean`, an execution of any run is mapped to the event
before it, its Allow (`AllowedInv`).

**Readers.** In a trace that respects `MayFollow`, an execution in a gated run is
the event after its verdict, and an Allow that was used is the event before an
execution: the counts of `has_violation` are compared by the injections
`i |-> i - 1` and `i |-> i + 1` (`ViolationMeans`). The rest is a loop
invariant: what is loaded so far is the beginning of what was asked for, and a
trace that was whole is what the store still has, for nothing is
written twice (`LoopInv`, `ListingInv`); the violations and results so far are
those of what is loaded (`ReplayInv`, `SearchInv`), and an exit code ends the loop.

**Fleet.** All need `MailInv`, which messages can be in whose mailbox. With it, every
step that takes an open message puts one open message into a mailbox, or performs
one outcome, or loses it to a gate or a fault: `Outcomes + InFlight` never grows
but with a post. `EarnedInv` counts, beside the outcomes told, the words of
depots the vehicle has yet to read: the count `tried = 2` owes its second half to
a denial that was read and not answered with `Failed`, which is what another
dispatch that resets `tried` could have broken and does not. `CompletesOnPower`
relates a delivery's end to a depot's state long before it: by `OutcomeEarned` a
completion has a grant, `PowerInv` keeps for each depot that granted that it could
give 50 kW with all the sun there can have been, and that is bounded by `SunInv`:
the sun a depot has counted, and the updates and ticks still on their way to it,
are no more than there were ticks, whatever is lost or restarted.

**Launch.** `ParseInv` says of the words read so far (`Place`) what
`ParsedAsGiven` says of all; a flag is appended at the greatest place, so the
last value of a flag is the one just read, or the one before.
`HandlerInv` is the same for the handler entries looked at so far. `GateInv`
follows the list of texts, `AgentInv` says the config is that of a program that
compiled, whatever the file has become since. `DiskInv` says that in a life
without a change what was read so far is what the disk has, which a deployment
breaks only together with its hypothesis: it raises `changes` above `born`. `ExitTells` then holds of
each step that ends the process: `FormedTo(Place)` makes an exit with 1 imply
a well-formed command line, and an exit with 2 in the loop of flags its opposite.

**What liveness rests on.** TLAPS cannot prove that something must happen, but it
can prove what, beside fairness, the liveness properties need: that whatever is
under way has a measure which the steps of the one who is to act lower, and which
nobody else raises without bound.

* *A step of the runner* (`StepEnds`): `Left` counts at most five actions of
  `Step` for each proposed action, and two counters. It is what makes every
  message of `ImplementsLiveAgent` be dealt with, however long the handler's list.
* *A call* (`NobodyForgotten`): a caller that waits has its request in the hands,
  or before the hands, of a server that lives and deals with one request at a
  time. Each way a request can disappear, by a reply, a refusal, a broken
  connection or the end of the process, tells its caller: with servers that run,
  this is `CallsReturn`.
* *A stop of an agent* (`StopNears` of `DeliveryProofs`): `Course` is where a
  runner that was told to stop is, `SendsLeft` the calls left in the step. Steps of
  everyone else leave both as they are, so that `ShutdownEnds` needs `CallsReturn`
  and the runner's thread alone. `MailboxDrains` does not follow from a measure:
  peers may go on sending.
* *A fleet* (`ChainsShrink`): `Work` gives each message in a mailbox a weight by
  where it is and what it says, and adds two for each depot the vehicle has yet to
  try. It is not enough to weigh the messages: a denial becomes a request again,
  and only `tried` says that it cannot for ever. A dispatch resets `tried` and so
  has to pay for it, which makes six: one for being read, and five either for a
  request and one depot more to try or for an outcome and two. `AskedInv` is the same account
  for requests alone. From `ChainsShrink` the fleet comes to rest when
  those outside do, which is `ChainsEnd`.
* *The driver of the example* (`RoundInv`): `Level` is the round in which a message
  will be read: this one, or the next if its runner had its turn. Chains have four
  messages (dispatch, request, answer, outcome), but three rounds read
  them: a depot that is asked one round late stands before the vehicle that asked,
  the last registered of its name (`LastInv`), and the answer is read in
  that same round. The bound is tight: four rounds happen when the depot
  is built before the vehicle and tms first of all. That each round ends is
  `ReadFew`: a message has a generation, its place in such a chain, and a handler
  answers one of a generation by at most one of the next. So what was accepted of a
  generation, with the action under way, is never more than what was read of the one
  before (`ChainInv`), and what was read never more than what was accepted
  (`PrefixInv`): four messages for each dispatch. With rounds and reads both bounded,
  `Settles` needs the driver's one thread alone.
* *A start and a stop of soft-run* (`MainNears`, `StopNears`, `OrderServes` of
  `LaunchProofs`): `Stage` and `Turns` are the place of `main` and the turns left
  in its loop. `Recovers` adds that in a life begun in order everything read is in
  order (`Orderly`), so that no stage finds a reason to exit; `StopEnds` that the
  stop flag is never taken back (`StopKept`).

**Only model-checked.** All liveness, since it depends on fairness and `ENABLED`,
which are out of the prover's reach: `ImplementsLiveAgent`, `TickThreadsEnd`,
`CallsReturn`, `MailboxDrains`, `ShutdownEnds`, `ChainsEnd`, `DenialsAnswered`,
`StopEnds`, `Recovers`, `Settles`. For most of them the theorems above prove the
measure; TLC shows that it is enough, for the bounds of the runs. The operators of
`ReplayScan`, `Gate::evaluate` and the like are not recursive here, so the
theorems cover them.

## 5. What is not modelled

* The body of a spec, the Lex VM, the LLM and MCP back ends and the store are
  external; their outcomes are choices in the models.
* The Anthropic handler: one request within a Lex call, with a timeout of its
  own; every failure is an ordinary Lex value for the handler.
* `llm_driver.lex`, which asks an external model and forwards the answer.
* Decoding of actions and the wire format are conversions; their
  failures are `DispatchError` and the verdict Inconclusive.
* Of the viewer: its command line, the constant page, query decoding and the
  snippet shown with a hit. Of soft-replay: the table it prints.
* The mocks, and the examples with one runner and a mock executor.

* The budget of a Lex call (section 2). The comment at `lex_host.rs:97-100` speaks
  of calls that "deduct from the shared pool"; the handler that holds the pool is
  made anew for each `LexHost::call`, so the pool is shared within one call at
  most. Whether and when it is charged is decided in code that is not here.

One more disagreement was met and has no run: `deploy/README.md:196` says of
`soft_actions_allowed_total` "passed gate + executor accepted", and
`runner.rs:253-258` counts the actions the executor failed as well. `Accounting`
and `CountersMatchTrace` have the counter as the code has it.

## 6. Plan

1. *(done)* `Runner` with gate, trace and metrics; `GatedAgent` and the
   refinement; `Scrape`; `ReplayScan`; `Delivery`; `Fleet`; first theorems.
2. *(done)* `Launch`; `Channel` with `Delivery` and `Router` as implementations;
   `Router` and `MultiDepot`; `TraceReaders`; server bodies that do not end; the
   theorems on `Delivery` and the first on `Fleet`.
3. *(done)* Theorems for every safety property of `Runner`, `Scrape`, `Delivery`,
   `TraceReaders`, `Fleet`, `Launch` and `MultiDepot`; `Router` implements `Channel`,
   and the driver's conclusion that all is read.
4. *(done)* The safety that liveness rests on, as theorems of its own: measures for
   a step of the runner, a stop, a start, the fleet's chains of messages and the
   rounds of the in-process driver, and that no waiting caller is forgotten.
5. *(done)* For `Settles`, the number of messages one dispatch becomes, beside the
   rounds they take. Nothing of what section 5 leaves out keeps state of its own.

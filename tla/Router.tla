------------------------------- MODULE Router -------------------------------
(***************************************************************************)
(* Several runners in one process, over the in-process router              *)
(* (crates/soft-agent/src/router.rs), and the driver that builds them,      *)
(* drains one after the other in rounds until nothing moves, and finalizes  *)
(* them (examples/multi_depot.rs).  A runner is known by its place in the   *)
(* order of building, a message is sent to a name.  A step of a runner is   *)
(* cut between its handler and the action that follows, so that a mailbox   *)
(* gives or takes one message at a time.                                   *)
(***************************************************************************)
EXTENDS Naturals, Sequences, FiniteSets, SequencesExt, ReplayScan

CONSTANTS
  Setups,              \* names of the runners, in the order of building
  Starts,              \* initial states of the agents; no handler changes them
  Gated,               \* names with a gate
  Senders,             \* names messages from outside give
  Topics,
  Seed,                \* name and topic of what is sent from outside
  Handles(_, _),       \* a runner of that name has a handler for the topic
  React(_, _, _, _),   \* its action in a state, for sender and topic, or NoAction
  Passes(_, _, _),     \* its gate, for a state and an action
  MaxSeeds,            \* bound: messages from outside
  MaxEarly,            \* bound: runners finalized before the end
  MaxRounds            \* rounds before the driver gives up; 20 in the code

NoAction == [to |-> "nobody", topic |-> "nothing"]

Runners == UNION {DOMAIN s : s \in Setups}
Names == (UNION {ToSet(s) : s \in Setups}) \cup Senders

\* Topics has every topic that is sent, from outside or by a handler.
ASSUME RouterAssumption ==
  /\ \A s \in Setups : s \in Seq(ToSet(s)) /\ Len(s) > 0
  /\ {MaxSeeds, MaxEarly, MaxRounds} \subseteq Nat
  /\ Seed.topic \in Topics
  /\ \A name \in Names, s \in Starts, from \in Names, topic \in Topics :
       LET action == React(name, s, from, topic)
       IN  Handles(name, topic) => action = NoAction \/ action.topic \in Topics


VARIABLES
  setup, start,
  built,      \* how many runners there are
  registry,   \* name -> the runner whose sender was registered last
  mailbox, open,
  pending,    \* the action of the step under way
  turn,       \* the runner that is drained
  moved,      \* messages of this round
  rounds, phase,
  seeds, early,
  trace,      \* per runner, as soft-replay reads it
  accepted, received, confirmed   \* histories of the mailboxes

world == <<setup, start, built, registry>>
histories == <<accepted, received, confirmed>>
progress == <<turn, moved, rounds, phase>>
vars == <<world, mailbox, open, pending, progress, seeds, early, trace, histories>>

Node(target, verdict) ==
  [target |-> target, shape |-> IF verdict = "none" THEN "none" ELSE "object",
   verdict |-> verdict]

-----------------------------------------------------------------------------
Init ==
  /\ setup \in Setups /\ start \in Starts
  /\ built = 0 /\ registry = <<>> /\ open = {}
  /\ mailbox = [i \in Runners |-> <<>>]
  /\ pending = NoAction
  /\ turn = 1 /\ moved = 0 /\ rounds = 0 /\ phase = "building"
  /\ seeds = 0 /\ early = 0
  /\ trace = [i \in Runners |-> <<>>]
  /\ accepted = [i \in Runners |-> <<>>]
  /\ received = [i \in Runners |-> <<>>]
  /\ confirmed = {}

\* Mailbox::new, register (the last write wins) and build.
Build ==
  /\ phase = "building" /\ built < Len(setup)
  /\ built' = built + 1
  /\ registry' = [name \in DOMAIN registry \cup {setup[built']} |->
                    IF name = setup[built'] THEN built' ELSE registry[name]]
  /\ open' = open \cup {built'}
  /\ UNCHANGED <<setup, start, mailbox, pending, progress, seeds, early, trace, histories>>

Put(i, letter) ==
  /\ mailbox' = [mailbox EXCEPT ![i] = Append(@, letter)]
  /\ accepted' = [accepted EXCEPT ![i] = Append(@, letter)]
  /\ confirmed' = confirmed \cup {<<i, letter>>}
  /\ UNCHANGED received

\* A message from outside, through the sender of the runner itself.
SendSeed(i) ==
  /\ phase = "building"
  /\ i \in open /\ setup[i] = Seed.name
  /\ seeds < MaxSeeds
  /\ seeds' = seeds + 1
  /\ \E from \in Senders :
       Put(i, [by |-> 0, n |-> seeds', from |-> from, topic |-> Seed.topic])
  /\ UNCHANGED <<world, open, pending, progress, early, trace>>

StartDraining ==
  /\ phase = "building" /\ built = Len(setup)
  /\ phase' = "draining"
  /\ UNCHANGED <<world, mailbox, open, pending, turn, moved, rounds, seeds, early, trace,
                 histories>>

-----------------------------------------------------------------------------
(* A runner's step.                                                        *)

At(i) == phase = "draining" /\ turn = i

\* A message without a handler is an error of step, which ends drain and, as
\* it is unwrapped, the driver.
Handled(i, m) ==
  LET known == Handles(setup[i], m.topic)
  IN  /\ phase' = IF known THEN phase ELSE "panicked"
      /\ pending' = IF known THEN React(setup[i], start, m.from, m.topic) ELSE NoAction
      /\ received' = [received EXCEPT ![i] = Append(@, m)]
      /\ moved' = moved + 1
      /\ UNCHANGED <<world, open, turn, rounds, seeds, early, trace, accepted, confirmed>>

Take(i) ==
  /\ At(i) /\ pending = NoAction /\ mailbox[i] # <<>>
  /\ Handled(i, Head(mailbox[i]))
  /\ mailbox' = [mailbox EXCEPT ![i] = Tail(@)]

Letter(i) ==
  [by |-> i, n |-> Cardinality(TargetAt(trace[i], "action.executed")) + 1,
   from |-> setup[i], topic |-> pending.topic]

Record(i, nodes) ==
  /\ trace' = [trace EXCEPT ![i] = @ \o <<Node("action.proposed", "none")>> \o nodes]
  /\ pending' = NoAction
  /\ UNCHANGED <<world, open, progress, seeds, early>>

Verdict(i) ==
  IF setup[i] \notin Gated THEN <<>>
  ELSE <<Node("gate.verdict", IF Passes(setup[i], start, pending) THEN "allow" ELSE "deny")>>

\* A slip: a closed mailbox counts for a delivery.
ExecuteUnchecked(i) ==
  IF pending.to \in DOMAIN registry
    THEN IF registry[pending.to] \in open
           THEN Put(registry[pending.to], Letter(i))
           ELSE /\ confirmed' = confirmed \cup {<<registry[pending.to], Letter(i)>>}
                /\ UNCHANGED <<mailbox, accepted, received>>
    ELSE UNCHANGED <<mailbox, histories>>

\* InProcessExecutor::execute, whose lock is held to the end of the send: no
\* name is NotPermitted, a dropped mailbox Failed; either is recorded as the
\* outcome of the execution and the step goes on.
Execute(i) ==
  IF pending.to \in DOMAIN registry /\ registry[pending.to] \in open
    THEN Put(registry[pending.to], Letter(i))
    ELSE UNCHANGED <<mailbox, histories>>

\* A slip: a denied action is executed.
PerformDenied(i) ==
  /\ At(i) /\ pending # NoAction
  /\ Record(i, Verdict(i) \o <<Node("action.executed", "none")>>)
  /\ Execute(i)

\* The action goes past the gate and to the executor, or it is denied.
Perform(i) ==
  /\ At(i) /\ pending # NoAction
  /\ \/ /\ setup[i] \in Gated => Passes(setup[i], start, pending)
        /\ Record(i, Verdict(i) \o <<Node("action.executed", "none")>>)
        /\ Execute(i)
     \/ /\ setup[i] \in Gated /\ ~Passes(setup[i], start, pending)
        /\ Record(i, Verdict(i))
        /\ UNCHANGED <<mailbox, histories>>

-----------------------------------------------------------------------------
(* The driver.                                                             *)

\* A slip: the driver looks at what the last runner processed.
DrainedLastAlone(i) ==
  /\ At(i) /\ pending = NoAction /\ mailbox[i] = <<>>
  /\ turn' = IF i < Len(setup) THEN turn + 1 ELSE 1
  /\ moved' = 0
  /\ rounds' = IF i < Len(setup) THEN rounds ELSE rounds + 1
  /\ phase' = CASE i < Len(setup) -> phase
                [] i = Len(setup) /\ moved = 0 -> "settled"
                [] OTHER -> IF rounds' = MaxRounds THEN "gave up" ELSE phase
  /\ UNCHANGED <<world, mailbox, open, pending, seeds, early, trace, histories>>

\* A slip: drain waits for a message when its mailbox is empty.
DrainedBlocks(i) ==
  /\ At(i) /\ pending = NoAction /\ mailbox[i] = <<>>
  /\ UNCHANGED vars

\* drain returns when its mailbox is empty.  After the last runner the driver
\* stops if no message was processed in the whole round.
Drained(i) ==
  /\ At(i) /\ pending = NoAction /\ mailbox[i] = <<>>
  /\ turn' = IF i < Len(setup) THEN turn + 1 ELSE 1
  /\ moved' = IF i < Len(setup) THEN moved ELSE 0
  /\ rounds' = IF i < Len(setup) THEN rounds ELSE rounds + 1
  /\ phase' = CASE i < Len(setup) -> phase
                [] i = Len(setup) /\ moved = 0 -> "settled"
                [] OTHER -> IF rounds' = MaxRounds THEN "gave up" ELSE phase
  /\ UNCHANGED <<world, mailbox, open, pending, seeds, early, trace, histories>>

\* Runner::finalize drops the mailbox; the registered sender stays.
Close(i) ==
  /\ i \in open
  /\ open' = open \ {i}
  /\ mailbox' = [mailbox EXCEPT ![i] = <<>>]
  /\ UNCHANGED <<world, pending, progress, seeds, trace, histories>>

\* A user of the router may finalize a runner while others still send.
FinalizeEarly(i) ==
  /\ phase = "draining" /\ pending = NoAction
  /\ early < MaxEarly
  /\ early' = early + 1
  /\ Close(i)

Finalize(i) ==
  /\ phase \in {"settled", "gave up"}
  /\ Close(i)
  /\ UNCHANGED early

RunnerStep(i) == Take(i) \/ Perform(i) \/ Drained(i) \/ Finalize(i)

Driver == Build \/ StartDraining \/ \E i \in 1..Len(setup) : RunnerStep(i)

Next == Driver \/ \E i \in 1..Len(setup) : SendSeed(i) \/ FinalizeEarly(i)

\* One thread does it all, and is scheduled.
FairSpec == Init /\ [][Next]_vars /\ WF_vars(Driver)

-----------------------------------------------------------------------------
(* Properties.                                                             *)

Letters == [by : {0} \cup Runners, n : Nat, from : Names, topic : Topics]

\* Agents settle, unless one gets what it cannot handle, before the driver
\* gives up (multi_depot.rs:137-156).
Settles == phase = "draining" ~> phase \in {"settled", "panicked"}

\* When the driver reports that the agents have settled, no message waits in
\* any mailbox: one silent round is proof enough (multi_depot.rs:137-156).
AllRead == phase = "settled" => \A i \in Runners : mailbox[i] = <<>>

\* The router keeps the promise of Channel, with registrations that replace
\* each other, names nobody registered and mailboxes that are gone
\* (router.rs:48-84, mailbox.rs:42-50).
Transport == INSTANCE Channel WITH Mailboxes <- Runners, lost <- [i \in Runners |-> 0]
ImplementsChannel == Transport!Spec
=============================================================================

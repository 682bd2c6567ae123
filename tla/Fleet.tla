-------------------------------- MODULE Fleet --------------------------------
(***************************************************************************)
(* The demo fleet (agents/): a vehicle that takes dispatches and asks       *)
(* depots for charging sessions, the transport management system tms, and   *)
(* a solar plant pv that tells the depot when there is more power.  How an  *)
(* agent takes a message and gates an action is the matter of Runner, how a *)
(* message travels that of Delivery: here a message is handled in one       *)
(* action, and what it sends arrives or is lost.                           *)
(*                                                                         *)
(* Power is in kW and charge in percent, as integers.                      *)
(***************************************************************************)
EXTENDS Integers, Sequences, FiniteSets

CONSTANTS
  Depots,        \* the depots that run; docker-compose.yml runs one
  VehicleStarts, \* --state-json of the vehicle
  DepotStarts,   \* --state-json of a depot
  Gatings,       \* the sets of agents that may run with their spec
  MaxPosts,      \* bound: messages from outside of the fleet
  MaxTicks,      \* bound: ticks of pv
  MaxFaults      \* bound: lost messages and restarts together

ASSUME FleetAssumption ==
  /\ "depot" \in Depots /\ Depots \subseteq {"depot", "depot2"}
  /\ VehicleStarts \subseteq [soc : Int, reserve : Int, energy : Int, tried : {0}]
  /\ DepotStarts \subseteq [current : Nat, budget : Nat, pv : {0}, requested : Nat]
  /\ Gatings \subseteq SUBSET (Depots \cup {"vehicle"})
  /\ {MaxPosts, MaxTicks, MaxFaults} \subseteq Nat

Agents == Depots \cup {"vehicle", "tms", "pv"}

\* Who sends what to which peer, by the names the handlers use.
Talk ==
  {<<d, "vehicle", t>> : d \in Depots, t \in {"GrantSession", "DenySession"}}
    \cup {<<"vehicle", d, "RequestSession">> : d \in {"depot", "depot2"}}
    \cup {<<"vehicle", "tms", t>> : t \in {"Acknowledge", "Complete", "Failed"}}
    \cup {<<"vehicle", "tester", "Acknowledge">>, <<"pv", "depot", "PvUpdate">>}

VARIABLES
  gated,      \* the agents that run with their spec
  vehicle,    \* state of the vehicle
  depots,     \* state of each depot
  mailbox,    \* messages accepted and not yet taken
  proposed,   \* how often each action was proposed
  performed,  \* how often it passed the gate
  posts, ticks, faults

counts == <<proposed, performed>>
vars == <<gated, vehicle, depots, mailbox, proposed, performed, posts, ticks, faults>>

-----------------------------------------------------------------------------
(* Actions and specs.                                                      *)

\* An action send_a2a; a payload is reduced to the number a spec may read.
Say(peer, topic) == [peer |-> peer, topic |-> topic, payload |-> <<>>]
Offer(peer, topic) == [peer |-> peer, topic |-> topic, payload |-> [power_kw |-> 50]]

\* Slips, see Runner: the spec reads the request and not the commitment; two
\* ways to lose count of the denials; a denial taken for a grant.
DepotSpecOfRequest(s, action) ==
  /\ "power_kw" \in DOMAIN action.payload
  /\ s.current + s.requested <= s.budget + s.pv

OnDenyCountsOn(s) ==
  [state |-> [s EXCEPT !.tried = @ + 1],
   action |-> IF s.tried >= 2 THEN Say("tms", "Failed") ELSE Offer("depot2", "RequestSession")]

OnDenyGivesUp(s) ==
  [state |-> [s EXCEPT !.tried = IF @ >= 1 THEN @ ELSE @ + 1],
   action |-> IF s.tried >= 1 THEN Say("tms", "Failed") ELSE Offer("depot2", "RequestSession")]

OnDenyCompletes(s) == [state |-> s, action |-> Say("tms", "Complete")]

\* depot.spec.  Without power_kw in the payload a.power_kw is undefined and
\* the verdict Inconclusive, which the runner takes for a Deny.
DepotSpec(s, action) ==
  /\ "power_kw" \in DOMAIN action.payload
  /\ s.current + action.payload.power_kw <= s.budget + s.pv

\* vehicle.spec, which looks at the state alone.
VehicleSpec(s) == s.soc - s.energy >= s.reserve

-----------------------------------------------------------------------------
(* Handlers: from the state and a message to the new state and an action.  *)

OnDispatch(s, msg) ==
  IF s.soc - s.energy >= s.reserve
    THEN [state |-> [s EXCEPT !.tried = 0], action |-> Say(msg.from, "Acknowledge")]
    ELSE [state |-> [s EXCEPT !.tried = 1], action |-> Offer("depot", "RequestSession")]

OnGrant(s) == [state |-> s, action |-> Say("tms", "Complete")]

OnDeny(s) ==
  IF s.tried >= 2
    THEN [state |-> s, action |-> Say("tms", "Failed")]
    ELSE [state |-> [s EXCEPT !.tried = @ + 1], action |-> Offer("depot2", "RequestSession")]

OnRequestSession(s, msg) ==
  IF s.current + s.requested <= s.budget + s.pv
    THEN Offer(msg.from, "GrantSession")
    ELSE Say(msg.from, "DenySession")

-----------------------------------------------------------------------------
(* The steps of the runners.                                               *)

\* A slip: a send is repeated once, though the first was accepted.
PutTwice(boxes, from, action) ==
  LET letter == [topic |-> action.topic, from |-> from]
  IN  IF action.peer \in DOMAIN boxes
        THEN [boxes EXCEPT ![action.peer] = @ \o <<letter, letter>>]
        ELSE boxes

\* The URL a peer's name stands for (--peer): with one depot depot2 is the
\* same process, and nobody has a URL for the tester.
Url(peer) == IF peer = "depot2" /\ "depot2" \notin Depots THEN "depot" ELSE peer

\* An accepted message is appended to the mailbox of its addressee; without
\* a URL the execution fails and the runner goes on.
Put(boxes, from, action) ==
  LET to == Url(action.peer)
  IN  IF to \in DOMAIN boxes
        THEN [boxes EXCEPT ![to] = Append(@, [topic |-> action.topic, from |-> from])]
        ELSE boxes

Take(a) == [mailbox EXCEPT ![a] = Tail(@)]
Count(f, a, action) == [f EXCEPT ![<<a, action.peer, action.topic>>] = @ + 1]

\* Agent a, which has taken its message, proposes an action, the gate judges
\* it in the state the handler left, and it arrives, or not, or is lost.
Act(a, action, passes) ==
  /\ proposed' = Count(proposed, a, action)
  /\ \/ /\ passes
        /\ performed' = Count(performed, a, action)
        /\ \/ mailbox' = Put(Take(a), a, action) /\ UNCHANGED faults
           \/ mailbox' = Take(a) /\ faults < MaxFaults /\ faults' = faults + 1
     \/ ~passes /\ mailbox' = Take(a) /\ UNCHANGED <<performed, faults>>

Reaction(msg) ==
  CASE msg.topic = "Dispatch"     -> OnDispatch(vehicle, msg)
    [] msg.topic = "GrantSession" -> OnGrant(vehicle)
    [] msg.topic = "DenySession"  -> OnDeny(vehicle)

VehicleStep ==
  /\ mailbox["vehicle"] # <<>>
  /\ LET r == Reaction(Head(mailbox["vehicle"]))
     IN  /\ vehicle' = r.state
         /\ Act("vehicle", r.action, "vehicle" \in gated => VehicleSpec(r.state))
  /\ UNCHANGED <<gated, depots, posts, ticks>>

\* A slip: a depot keeps a request until it has the power for it.
RequestWaits(d) ==
  /\ mailbox[d] # <<>>
  /\ Head(mailbox[d]).topic = "RequestSession"
  /\ LET action == OnRequestSession(depots[d], Head(mailbox[d]))
     IN  /\ action.topic = "GrantSession"
         /\ Act(d, action, d \in gated => DepotSpec(depots[d], action))
  /\ UNCHANGED <<gated, vehicle, depots, posts, ticks>>

Request(d) ==
  /\ mailbox[d] # <<>>
  /\ Head(mailbox[d]).topic = "RequestSession"
  /\ LET action == OnRequestSession(depots[d], Head(mailbox[d]))
     IN  Act(d, action, d \in gated => DepotSpec(depots[d], action))
  /\ UNCHANGED <<gated, vehicle, depots, posts, ticks>>

\* on_pv_update adds 5 kW, whatever the message says, and proposes nothing.
PvUpdate(d) ==
  /\ mailbox[d] # <<>>
  /\ Head(mailbox[d]).topic = "PvUpdate"
  /\ depots' = [depots EXCEPT ![d].pv = @ + 5]
  /\ mailbox' = Take(d)
  /\ UNCHANGED <<gated, vehicle, proposed, performed, posts, ticks, faults>>

PvStep ==
  /\ mailbox["pv"] # <<>>
  /\ Act("pv", Say("depot", "PvUpdate"), TRUE)
  /\ UNCHANGED <<gated, vehicle, depots, posts, ticks>>

\* terminate: tms takes what it is told.
TmsStep ==
  /\ mailbox["tms"] # <<>>
  /\ mailbox' = Take("tms")
  /\ UNCHANGED <<gated, vehicle, depots, proposed, performed, posts, ticks, faults>>

-----------------------------------------------------------------------------
(* What happens to the fleet.                                              *)

Init ==
  /\ gated \in Gatings
  /\ vehicle \in VehicleStarts
  /\ depots \in [Depots -> DepotStarts]
  /\ mailbox = [a \in Agents |-> <<>>]
  /\ proposed = [t \in Talk |-> 0]
  /\ performed = [t \in Talk |-> 0]
  /\ posts = 0 /\ ticks = 0 /\ faults = 0

Arrive(a, topic, from) ==
  mailbox' = [mailbox EXCEPT ![a] = Append(@, [topic |-> topic, from |-> from])]

\* Somebody posts a dispatch, or a request in the vehicle's name, as
\* deploy/run-local.sh does.
Post ==
  /\ posts < MaxPosts
  /\ posts' = posts + 1
  /\ \/ \E from \in {"tms", "tester"} : Arrive("vehicle", "Dispatch", from)
     \/ Arrive("depot", "RequestSession", "vehicle")
  /\ UNCHANGED <<gated, vehicle, depots, counts, ticks, faults>>

Tick ==
  /\ ticks < MaxTicks
  /\ ticks' = ticks + 1
  /\ Arrive("pv", "Tick", "self")
  /\ UNCHANGED <<gated, vehicle, depots, counts, posts, faults>>

\* A process dies and is started again from its --state-json.
Restart(a) ==
  /\ faults < MaxFaults
  /\ faults' = faults + 1
  /\ mailbox' = [mailbox EXCEPT ![a] = <<>>]
  /\ vehicle' = IF a = "vehicle" THEN [vehicle EXCEPT !.tried = 0] ELSE vehicle
  /\ depots' = [d \in Depots |-> IF a = d THEN [depots[d] EXCEPT !.pv = 0] ELSE depots[d]]
  /\ UNCHANGED <<gated, counts, posts, ticks>>

DepotStep(d) == Request(d) \/ PvUpdate(d)

Next ==
  \/ VehicleStep \/ PvStep \/ TmsStep
  \/ \E d \in Depots : DepotStep(d)
  \/ Post \/ Tick
  \/ \E a \in Agents : Restart(a)

\* Every runner works off its mailbox; nobody has to post, tick or fail.
Fairness ==
  /\ WF_vars(VehicleStep) /\ WF_vars(PvStep) /\ WF_vars(TmsStep)
  /\ \A d \in Depots : WF_vars(DepotStep(d))

FairSpec == Init /\ [][Next]_vars /\ Fairness

-----------------------------------------------------------------------------
(* Properties.                                                             *)

Letters == [topic : {"Dispatch", "GrantSession", "DenySession", "RequestSession",
                     "PvUpdate", "Tick", "Acknowledge", "Complete", "Failed"},
            from : Agents \cup {"tester", "self"}]

\* The types; the vehicle asks at most two depots in a row, and no action is
\* performed that was not proposed (vehicle.lex:61-83).
TypeOK ==
  /\ gated \in Gatings
  /\ vehicle \in [soc : Int, reserve : Int, energy : Int, tried : 0..2]
  /\ depots \in [Depots -> [current : Nat, budget : Nat, pv : Nat, requested : Nat]]
  /\ mailbox \in [Agents -> Seq(Letters)]
  /\ proposed \in [Talk -> Nat] /\ performed \in [Talk -> Nat]
  /\ \A t \in Talk : performed[t] <= proposed[t]
  /\ posts \in 0..MaxPosts /\ ticks \in 0..MaxTicks /\ faults \in 0..MaxFaults

\* How often the actions on a topic were performed, by whomever it is that
\* tells an outcome or decides on a session.
Times(from, peer, topic) ==
  IF <<from, peer, topic>> \in Talk THEN performed[<<from, peer, topic>>] ELSE 0
Performed(topic) ==
  Times("vehicle", "tms", topic) + Times("vehicle", "tester", topic)
    + Times("depot", "vehicle", topic) + Times("depot2", "vehicle", topic)

Outcomes == Performed("Acknowledge") + Performed("Complete") + Performed("Failed")

\* Messages that still ask for an outcome.
Open == {msg \in Letters : msg.topic # "PvUpdate"}
Waiting(a) ==
  IF a \in Agents THEN Cardinality({i \in DOMAIN mailbox[a] : mailbox[a][i] \in Open}) ELSE 0
InFlight == Waiting("vehicle") + Waiting("depot") + Waiting("depot2")

\* A dispatch or a request has at most one outcome, however its messages and
\* those of another interleave, and whatever is lost or restarted; without
\* gates and faults it has exactly one, or is still under way
\* (vehicle.lex:26-83, depot.lex:23-40).
OutcomeOnce ==
  /\ Outcomes + InFlight <= posts
  /\ gated = {} /\ faults = 0 => Outcomes + InFlight = posts

\* No outcome without a depot's word, though the count of denials is shared by
\* all dispatches and reset by each: "all_depots_denied" is said only after the
\* denial it answers and at least one before it, never more often than that; a
\* delivery that had to charge is completed only after a grant, and every
\* grant is used once (vehicle.lex:50-83, docs/proposal.md:177).
OutcomeEarned ==
  /\ Performed("Failed") > 0 => Performed("Failed") < Performed("DenySession")
  /\ Performed("Complete") <= Performed("GrantSession")

\* With all depots gated, a delivery that had to charge is completed only if
\* some depot was able to give the power, of its own budget or with as much
\* sun as there were ticks: a payload that says more than was asked for, sun
\* counted twice and requests that wait do not get around that (depot.spec,
\* depot.lex:27-31, 46-54, pv.lex:20-29, vehicle.lex:50-59).
CompletesOnPower ==
  Depots \subseteq gated /\ Performed("Complete") > 0 =>
    \E d \in Depots :
      /\ performed[<<d, "vehicle", "GrantSession">>] > 0
      /\ depots[d].current + 50 <= depots[d].budget + 5 * ticks

\* The fleet does not pass a request to and fro for ever: all that was asked
\* comes to an outcome, or is refused by a gate, or lost.
ChainsEnd == InFlight > 0 ~> InFlight = 0

\* Without gates and faults each denial is answered, with a request to the
\* backup depot or with the end of the delivery, also when the denials of
\* two dispatches arrive in a row and share one count (vehicle.lex:61-83).
DenialsAnswered ==
  \A n \in 1..(2 * MaxPosts) :
    gated = {} /\ Performed("DenySession") >= n
      ~> \/ performed[<<"vehicle", "depot2", "RequestSession">>] + Performed("Failed") >= n
         \/ faults > 0

\* README.md:103: the vehicle "falls over to a backup depot on first denial".
FallsOver ==
  proposed[<<"depot", "vehicle", "DenySession">>] > 0
    ~> performed[<<"vehicle", "depot2", "RequestSession">>] > 0 \/ faults > 0

\* vehicle.lex:7-8: tried is there "so the vehicle can re-route to a backup
\* depot on the first denial": no more deliveries are given up than went to
\* the backup depot first.
BackupAsked ==
  Performed("Failed") <= performed[<<"vehicle", "depot2", "RequestSession">>]

\* docs/proposal.md:170: "Site grid budget never exceeded."
GridBudget ==
  \A d \in Depots \cap gated :
    depots[d].current + 50 * performed[<<d, "vehicle", "GrantSession">>]
      <= depots[d].budget + depots[d].pv
=============================================================================

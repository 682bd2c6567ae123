----------------------------- MODULE MultiDepot -----------------------------
(***************************************************************************)
(* The three agents of examples/multi_depot.rs over the in-process router:  *)
(* their Lex handlers (examples/lex/multi_depot_*.lex), the two specs with  *)
(* what their bindings functions project, and the rollup of their traces.   *)
(* Power is in kW and charge in percent, as integers.                      *)
(***************************************************************************)
EXTENDS Router, Integers

To(name, topic) == [to |-> name, topic |-> topic]
Outcomes == {"Acknowledge", "Complete", "Failed"}

DemoHandles(name, topic) ==
  CASE name = "vehicle" -> topic \in {"Dispatch", "GrantSession", "DenySession"}
    [] name = "depot" -> topic = "RequestSession"
    [] name = "tms" -> topic \in Outcomes

\* A slip, see Runner: the energy is forgotten.
OnDispatchForgets(v, from) ==
  IF v.soc >= v.reserve THEN To(from, "Acknowledge") ELSE To("depot", "RequestSession")

OnDispatch(v, from) ==
  IF v.soc - v.energy_needed >= v.reserve
    THEN To(from, "Acknowledge") ELSE To("depot", "RequestSession")
OnGrant == To("tms", "Complete")
OnDeny(v) == To("tms", "Failed")

OnRequestSession(d, from) ==
  To(from, IF d.current + d.requested <= d.budget + d.pv THEN "GrantSession" ELSE "DenySession")

Terminate == NoAction

\* Which handler of which agent answers a topic.
DemoReact(name, s, from, topic) ==
  CASE topic = "Dispatch" -> OnDispatch(s.vehicle, from)
    [] topic = "GrantSession" -> OnGrant
    [] topic = "DenySession" -> OnDeny(s.vehicle)
    [] topic = "RequestSession" -> OnRequestSession(s.depot, from)
    [] OTHER -> Terminate

\* soc_reserve and grid_budget, whose bindings count an action's energy and
\* power only if it commits them; every other action commits nothing.
DemoPasses(name, s, action) ==
  IF name = "vehicle"
    THEN LET used == IF action.topic = "Acknowledge" THEN s.vehicle.energy_needed ELSE 0
         IN  s.vehicle.soc - used >= s.vehicle.reserve
    ELSE LET delta == IF action.topic = "GrantSession" THEN s.depot.requested ELSE 0
         IN  s.depot.current + delta <= s.depot.budget + s.depot.pv

\* The constants of Router are those of the example: three agents, of which
\* vehicle and depot have a gate and vehicle is sent the dispatches, with the
\* handlers and gates above.
Members == {"vehicle", "depot", "tms"}

ASSUME DemoAssumption ==
  /\ Senders \subseteq Members /\ \A s \in Setups : ToSet(s) \subseteq Members
  /\ Gated = {"vehicle", "depot"}
  /\ Seed = [name |-> "vehicle", topic |-> "Dispatch"]
  /\ Starts \subseteq [vehicle : [soc : Int, reserve : Int, energy_needed : Int],
                      depot : [current : Int, requested : Int, budget : Int, pv : Int]]
  /\ \A name \in Members, topic \in Topics : Handles(name, topic) = DemoHandles(name, topic)
  /\ \A name \in Members, s \in Starts, from \in Members, topic \in Topics :
       React(name, s, from, topic) = DemoReact(name, s, from, topic)
  /\ \A name \in Gated, s \in Starts, action \in [to : Members, topic : Topics] :
       Passes(name, s, action) = DemoPasses(name, s, action)

-----------------------------------------------------------------------------
(* Properties.                                                             *)

\* Places in the sequences of all runners; to add up counts of the runners is
\* to count these.
OfAll(places) == UNION {{i} \X places[i] : i \in DOMAIN setup}
Total(places) == Cardinality(OfAll(places))

Targets(target) == [i \in DOMAIN setup |-> TargetAt(trace[i], target)]
Verdicts(kind) == [i \in DOMAIN setup |-> VerdictAt(trace[i], kind)]
Ended(i) == {k \in DOMAIN received[i] : received[i][k].topic \in Outcomes}
Ends == [i \in DOMAIN setup |-> Ended(i)]
Deliveries == {c \in confirmed : c[2].by # 0}
Undelivered == Total(Targets("action.executed")) - Cardinality(Deliveries)

\* When the driver reports that the agents have settled, all is read, and every
\* dispatch has come to one end: an outcome somebody received, a denial by a
\* gate, or a send that failed; none is forgotten or answered twice, also if
\* agents share a name or are missing (multi_depot.rs:135-157,
\* multi_depot_*.lex, runner.rs:229).
OneEnd ==
  /\ AllRead
  /\ phase = "settled" /\ early = 0 =>
       Total(Ends) + Total(Verdicts("deny")) + Undelivered = seeds

\* With all three agents there, and both within their limits to begin with,
\* tms gets one outcome for every dispatch: no gate objects to what a handler
\* has checked, nor to a message that commits nothing
\* (multi_depot_vehicle.lex:13-55, multi_depot_depot.lex:11-31,
\* multi_depot.rs:42-90).
Answered ==
  /\ phase = "settled" /\ early = 0
  /\ {"vehicle", "depot", "tms"} \subseteq DOMAIN registry
  /\ start.vehicle.soc >= start.vehicle.reserve
  /\ start.depot.current <= start.depot.budget + start.depot.pv
  => Cardinality(Ended(registry["tms"])) = seeds

\* "no spec was bypassed" (multi_depot.rs:217-237): the counts of all runs are
\* added up and judged as one, in which an agent without a gate must not look
\* like a bypass, nor one that bypasses hide behind another's allowances.
Rollup ==
  [proposed     |-> Total(Targets("action.proposed")),
   allowed      |-> Total(Verdicts("allow")),
   denied       |-> Total(Verdicts("deny")),
   inconclusive |-> Total(Verdicts("inconclusive")),
   executed     |-> Total(Targets("action.executed")),
   skipped      |-> Total(Targets("action.skipped"))]

RollupClean == phase = "settled" => ~HasViolation(Rollup)
=============================================================================

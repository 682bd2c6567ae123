---------------------------- MODULE RunnerProofs ----------------------------
(***************************************************************************)
(* Theorems about Runner, for every value of its constants: its types, the *)
(* enforcement of gate and allowlist, the conservation of its counters, and *)
(* what a reader may conclude from a page of GET /metrics, whatever the     *)
(* runner does while the page is rendered; then the runner seen from        *)
(* outside: soft-replay never flags its trace, it is a gated agent, and its *)
(* trace tells of the counters, of the effects on the world and of the      *)
(* messages the mailbox accepted.                                          *)
(***************************************************************************)
EXTENDS Scrape, Audit, Counting, SequenceTheorems, WellFoundedInduction, TLAPS

-----------------------------------------------------------------------------
(* Lemmas about the operators of the model.                                *)

LEMMA LeastNatural ==
  ASSUME NEW T, T \subseteq Nat, T # {}
  PROVE  \E i \in T : \A j \in T : i <= j
<1>1. PICK i \in T : \A j \in T : ~(<<j, i>> \in OpToRel(<, Nat))
  BY WFMin, NatLessThanWellFounded
<1>2. \A j \in T : ~(j < i)
  BY <1>1 DEF OpToRel
<1> QED BY <1>2

\* A list of specs that does not allow an action has a first spec that says
\* so, which is the verdict evaluate_gate_compiled returns (gate.rs:49-53).
LEMMA FirstRefusal ==
  ASSUME NEW specs \in Seq(Specs), NEW s \in States, NEW a \in Actions,
         \E i \in DOMAIN specs : specs[i][s][a] # "Allow"
  PROVE  \E i \in DOMAIN specs : /\ specs[i][s][a] # "Allow"
                                 /\ \A j \in 1..(i - 1) : specs[j][s][a] = "Allow"
<1> DEFINE Refuses(i) == specs[i][s][a] # "Allow"
           T == {i \in DOMAIN specs : Refuses(i)}
<1>1. DOMAIN specs = 1..Len(specs) /\ Len(specs) \in Nat
  BY LenProperties
<1> HIDE DEF Refuses
<1>2. T \subseteq Nat
  BY <1>1
<1>3. T # {}
  BY DEF Refuses
<1>4. PICK i \in T : \A j \in T : i <= j
  BY <1>2, <1>3, LeastNatural
<1>5. ASSUME NEW j \in 1..(i - 1)
      PROVE  ~Refuses(j)
  <2>1. j \in DOMAIN specs /\ ~(i <= j)
    BY <1>1
  <2> QED BY <2>1, <1>4
<1>6. i \in DOMAIN specs /\ Refuses(i)
  OBVIOUS
<1> QED BY <1>5, <1>6 DEF Refuses

LEMMA EvaluateType ==
  ASSUME NEW specs \in Seq(Specs), NEW s \in States, NEW a \in Actions
  PROVE  Evaluate(specs, s, a) \in Verdicts
<1>1. /\ DOMAIN specs = 1..Len(specs)
      /\ \A i \in DOMAIN specs : specs[i] \in Specs
  BY LenProperties, ElementOfSeq
<1>2. \A i \in DOMAIN specs : specs[i][s][a] \in Verdicts
  BY <1>1 DEF Specs
<1>3. CASE \A i \in DOMAIN specs : specs[i][s][a] = "Allow"
  BY <1>3 DEF Evaluate, Verdicts
<1>4. CASE \E i \in DOMAIN specs : specs[i][s][a] # "Allow"
  <2> DEFINE First(i) == /\ specs[i][s][a] # "Allow"
                         /\ \A j \in 1..(i - 1) : specs[j][s][a] = "Allow"
  <2>1. \E i \in DOMAIN specs : First(i)
    BY <1>4, FirstRefusal
  <2>2. (CHOOSE i \in DOMAIN specs : First(i)) \in DOMAIN specs
    BY <2>1
  <2>3. Evaluate(specs, s, a) = specs[CHOOSE i \in DOMAIN specs : First(i)][s][a]
    BY <1>4 DEF Evaluate
  <2> QED BY <1>2, <2>2, <2>3
<1> QED BY <1>3, <1>4

\* One increment keeps the counters counters.
LEMMA IncType ==
  ASSUME metrics \in [Counters -> Nat], NEW c \in Counters, Inc(c)
  PROVE  metrics' \in [Counters -> Nat]
BY DEF Inc

\* The series that Runner::step increments exist.
LEMMA CounterNames ==
  /\ \A t \in Topics : /\ <<"messages", t>> \in Counters
                      /\ <<"ticks", t>> \in Counters
  /\ \A k \in Kinds : /\ <<"proposed", k>> \in Counters
                     /\ <<"allowed", k>> \in Counters
                     /\ <<"executeDuration", k>> \in Counters
                     /\ <<"denied", k, "gate">> \in Counters
                     /\ <<"denied", k, "mcp_allowlist">> \in Counters
  /\ \A v \in Verdicts : <<"verdict", v>> \in Counters
  /\ \A o \in Outcomes : /\ <<"steps", o>> \in Counters
                        /\ <<"stepDuration", o>> \in Counters
<1>1. \A t \in Topics : /\ <<"messages", t>> \in Counters
                       /\ <<"ticks", t>> \in Counters
  BY DEF Counters
<1>2. \A k \in Kinds : /\ <<"proposed", k>> \in Counters
                      /\ <<"allowed", k>> \in Counters
                      /\ <<"executeDuration", k>> \in Counters
  BY DEF Counters
<1>3. \A k \in Kinds : /\ <<"denied", k, "gate">> \in Counters
                      /\ <<"denied", k, "mcp_allowlist">> \in Counters
  BY DEF Counters, Reasons
<1>4. \A v \in Verdicts : <<"verdict", v>> \in Counters
  BY DEF Counters
<1>5. \A o \in Outcomes : /\ <<"steps", o>> \in Counters
                         /\ <<"stepDuration", o>> \in Counters
  BY DEF Counters
<1> QED BY <1>1, <1>2, <1>3, <1>4, <1>5

\* The events a runner records are events.
LEMMA EventsType ==
  /\ \A m \in Messages : Received(m) \in Events
  /\ \A a \in Actions : Proposed(a) \in Events /\ Skipped(a) \in Events
  /\ \A a \in Actions, v \in Verdicts : Verdict(a, v) \in Events
  /\ \A a \in Actions, ok \in BOOLEAN : Executed(a, ok) \in Events
BY DEF Events

\* Going on with the next action, from any place inside the loop.
LEMMA NextActionType ==
  ASSUME pending \in Seq(Actions), pending # <<>>, NextAction
  PROVE  /\ pending' \in Seq(Actions)
         /\ pc' \in {"end", "propose"}
         /\ pending' # <<>> <=> pc' = "propose"
BY HeadTailProperties DEF NextAction

LEMMA AppendNonEmpty ==
  ASSUME NEW S, NEW seq \in Seq(S), NEW e \in S
  PROVE  /\ Append(seq, e) \in Seq(S)
         /\ Append(seq, e) # <<>>
         /\ Len(Append(seq, e)) = Len(seq) + 1
<1>1. Append(seq, e) \in Seq(S) /\ Len(Append(seq, e)) = Len(seq) + 1
  OBVIOUS
<1>2. Len(seq) \in Nat /\ Len(<<>>) = 0
  BY LenProperties, EmptySeq
<1> QED BY <1>1, <1>2

LEMMA LastType ==
  ASSUME NEW S, NEW seq \in Seq(S), seq # <<>>
  PROVE  Len(seq) \in DOMAIN seq /\ seq[Len(seq)] \in S
BY EmptySeq, LenProperties, ElementOfSeq

LEMMA ReportType ==
  ASSUME report \in Reports
  PROVE  /\ [report EXCEPT !.allowed = @ + 1] \in Reports
         /\ [report EXCEPT !.denied = @ + 1] \in Reports
BY DEF Reports

\* Inside the loop there is a current action, of a known kind.
LEMMA CurrentType ==
  ASSUME pending \in Seq(Actions), pending # <<>>
  PROVE  Current \in Actions /\ Current.kind \in Kinds
BY HeadTailProperties, RunnerAssumption DEF Current

-----------------------------------------------------------------------------
(* Types.                                                                  *)

LEMMA TypeInit == Init => TypeOK
<1> SUFFICES ASSUME Init PROVE TypeOK
  OBVIOUS
<1>1. metrics \in [Counters -> Nat]
  BY DEF Init
<1>2. state \in States
  BY RunnerAssumption DEF Init
<1> QED
  BY <1>1, <1>2, EmptySeq
  DEF Init, TypeOK, Labels, Deciding, Outcomes, Reports

LEMMA TypeStep == TypeOK /\ [Next]_vars => TypeOK'
<1> SUFFICES ASSUME TypeOK, [Next]_vars PROVE TypeOK'
  OBVIOUS
<1> USE DEF TypeOK, Labels, Deciding
<1>1. ASSUME NEW p \in Peers, NEW t \in Topics, Send(p, t) PROVE TypeOK'
  BY SMTT(40), <1>1 DEF Send, Accept, Messages
<1>2. ASSUME NEW t \in TickTopics, Tick(t) PROVE TypeOK'
  <2>1. TickOf(t) \in Messages
    BY RunnerAssumption DEF TickOf, Messages
  <2> QED BY SMTT(40), <1>2, <2>1 DEF Tick, Accept
<1>3. ASSUME NEW t \in TickTopics, TickExit(t) PROVE TypeOK'
  BY <1>3 DEF TickExit
<1>4. CASE Idle
  <2>1. metrics' \in [Counters -> Nat]
    BY <1>4, IncType, CounterNames DEF Idle, Outcomes
  <2> QED BY <1>4, <2>1 DEF Idle, At, Outcomes
<1>5. CASE Receive
  <2>1. msg' \in Messages /\ mailbox' \in Seq(Messages)
    BY <1>5, HeadTailProperties DEF Receive
  <2>2. metrics' \in [Counters -> Nat]
    BY <1>5, <2>1, IncType, CounterNames DEF Receive, Messages
  <2>3. report' \in Reports
    BY <1>5 DEF Receive, Reports
  <2> QED BY <1>5, <2>1, <2>2, <2>3 DEF Receive, At
<1>6. CASE CountTick
  <2>1. metrics' \in [Counters -> Nat]
    BY <1>6, IncType, CounterNames DEF CountTick, At, Messages
  <2> QED BY <1>6, <2>1 DEF CountTick, At
<1>7. CASE Dispatch
  <2>1. msg \in Messages /\ msg.topic \in Topics
    BY <1>7 DEF Dispatch, At, Messages
  <2>2. pending' \in Seq(Actions)
    BY <1>7, <2>1, RunnerAssumption DEF Dispatch
  <2>3. trace' \in Seq(Events)
    BY <1>7, <2>1, EventsType DEF Dispatch
  <2> QED BY <1>7, <2>1, <2>2, <2>3 DEF Dispatch, At, Outcomes
<1>8. CASE DispatchError
  <2>1. trace' \in Seq(Events)
    BY <1>8, EventsType DEF DispatchError, At
  <2> QED BY <1>8, <2>1 DEF DispatchError, At, Outcomes
<1>9. CASE Propose
  <2>1. Current \in Actions /\ Current.kind \in Kinds
    BY <1>9, CurrentType DEF Propose, At
  <2>2. metrics' \in [Counters -> Nat]
    BY <1>9, <2>1, IncType, CounterNames DEF Propose
  <2>3. trace' \in Seq(Events)
    BY <1>9, <2>1, EventsType DEF Propose
  <2> QED BY <1>9, <2>2, <2>3 DEF Propose, At
<1>10. CASE EvaluateGate
  <2> DEFINE v == Evaluate(gate, state, Current)
  <2>1. Current \in Actions
    BY <1>10, CurrentType DEF EvaluateGate, At
  <2>2. gate \in Seq(Specs)
    BY <1>10, RunnerAssumption DEF EvaluateGate, At
  <2>3. v \in Verdicts
    BY <2>1, <2>2, EvaluateType
  <2>4. /\ trace' = Append(trace, Verdict(Current, v))
        /\ Inc(<<"verdict", v>>)
        /\ pc' \in {"allowlist", "deny"}
    BY <1>10 DEF EvaluateGate
  <2> HIDE DEF v
  <2>5. metrics' \in [Counters -> Nat]
    BY <2>3, <2>4, IncType, CounterNames
  <2>6. trace' \in Seq(Events)
    BY <2>1, <2>3, <2>4, EventsType
  <2> QED BY <1>10, <2>4, <2>5, <2>6 DEF EvaluateGate, At
<1>11. CASE Deny
  <2>1. Current.kind \in Kinds
    BY <1>11, CurrentType DEF Deny, At
  <2>2. metrics' \in [Counters -> Nat]
    BY <1>11, <2>1, IncType, CounterNames DEF Deny
  <2>3. /\ pending' \in Seq(Actions)
        /\ pc' \in {"end", "propose"}
        /\ pending' # <<>> <=> pc' = "propose"
    BY <1>11, NextActionType DEF Deny, At
  <2>4. report' \in Reports
    BY ReportType, <1>11 DEF Deny
  <2> QED BY <1>11, <2>2, <2>3, <2>4 DEF Deny, At
<1>12. CASE SkipMcp
  <2>1. Current \in Actions /\ Current.kind \in Kinds
    BY <1>12, CurrentType DEF SkipMcp, At
  <2>2. metrics' \in [Counters -> Nat]
    BY <1>12, <2>1, IncType, CounterNames DEF SkipMcp
  <2>3. /\ pending' \in Seq(Actions)
        /\ pc' \in {"end", "propose"}
        /\ pending' # <<>> <=> pc' = "propose"
    BY <1>12, NextActionType DEF SkipMcp, At
  <2>4. trace' \in Seq(Events)
    BY <1>12, <2>1, EventsType DEF SkipMcp
  <2>5. report' \in Reports
    BY ReportType, <1>12 DEF SkipMcp
  <2> QED BY <1>12, <2>2, <2>3, <2>4, <2>5 DEF SkipMcp, At
<1>13. CASE Execute
  <2>1. Current \in Actions
    BY <1>13, CurrentType DEF Execute, At
  <2>2. PICK ok \in BOOLEAN :
          world' = Append(world, [action |-> Current, state |-> state, ok |-> ok])
    BY <1>13 DEF Execute
  <2>3. [action |-> Current, state |-> state, ok |-> ok] \in Performed
    BY <2>1 DEF Performed
  <2>4. world' \in Seq(Performed) /\ world' # <<>>
    BY <2>2, <2>3, AppendNonEmpty
  <2> QED BY <1>13, <2>4 DEF Execute, At
<1>14. CASE ObserveExecute
  <2>1. metrics' \in [Counters -> Nat]
    BY <1>14, CurrentType, IncType, CounterNames DEF ObserveExecute, At
  <2> QED BY <1>14, <2>1 DEF ObserveExecute, At
<1>15. CASE Allow
  <2>1. Current \in Actions /\ Current.kind \in Kinds
    BY <1>15, CurrentType DEF Allow, At
  <2>2. metrics' \in [Counters -> Nat]
    BY <1>15, <2>1, IncType, CounterNames DEF Allow
  <2>3. /\ pending' \in Seq(Actions)
        /\ pc' \in {"end", "propose"}
        /\ pending' # <<>> <=> pc' = "propose"
    BY <1>15, NextActionType DEF Allow, At
  <2>4. world[Len(world)].ok \in BOOLEAN
    <3>1. world[Len(world)] \in Performed
      BY <1>15, LastType DEF Allow, At
    <3> QED BY <3>1 DEF Performed
  <2>6. report' \in Reports
    BY ReportType, <1>15 DEF Allow
  <2>5. trace' \in Seq(Events)
    BY <1>15, <2>1, <2>4, EventsType DEF Allow
  <2> QED BY <1>15, <2>2, <2>3, <2>5, <2>6 DEF Allow, At
<1>16. CASE EndStep
  <2>1. metrics' \in [Counters -> Nat]
    BY <1>16, IncType, CounterNames DEF EndStep
  <2> QED BY <1>16, <2>1 DEF EndStep, At
<1>17. CASE ObserveStep
  <2>1. metrics' \in [Counters -> Nat]
    BY <1>17, IncType, CounterNames DEF ObserveStep
  <2> QED BY <1>17, <2>1 DEF ObserveStep, At
<1>18. CASE Finalize
  BY <1>18 DEF Finalize
<1>19. CASE Crash
  BY <1>19 DEF Crash
<1>20. CASE UNCHANGED vars
  BY <1>20 DEF vars
<1> QED
  BY <1>1, <1>2, <1>3, <1>4, <1>5, <1>6, <1>7, <1>8, <1>9, <1>10, <1>11,
     <1>12, <1>13, <1>14, <1>15, <1>16, <1>17, <1>18, <1>19, <1>20
  DEF Next, Step

\* The variables of a runner keep their types, and the places of
\* Runner::step keep what they imply about them.
THEOREM TypeCorrect == Spec => []TypeOK
BY TypeInit, TypeStep, PTL DEF Spec

-----------------------------------------------------------------------------
(* Enforcement.                                                            *)

LEMMA EnforcementInit == Init => EnforcementInv
BY DEF Init, EnforcementInv, Enforcement

LEMMA EnforcementStep ==
  TypeOK /\ EnforcementInv /\ [Next]_vars => EnforcementInv'
<1> SUFFICES ASSUME TypeOK, EnforcementInv, [Next]_vars PROVE EnforcementInv'
  OBVIOUS
<1> USE DEF EnforcementInv
<1>1. ASSUME UNCHANGED <<gate, world>>, pc' \notin {"allowlist", "deny"}
      PROVE  EnforcementInv'
  BY <1>1 DEF Enforcement
<1>2. ASSUME UNCHANGED <<gate, world, state, pending, pc>> PROVE EnforcementInv'
  BY <1>2 DEF Enforcement, Current
<1>3. CASE Propose
  <2>1. pc' = "allowlist" => GateAllows(gate, state, Current)'
    BY <1>3 DEF Propose, GateAllows, Current
  <2> QED BY <1>3, <2>1 DEF Propose, Enforcement
<1>4. CASE EvaluateGate
  <2>1. /\ pc' = "allowlist" => GateAllows(gate, state, Current)'
        /\ pc' = "deny" => ~GateAllows(gate, state, Current)'
    BY <1>4 DEF EvaluateGate, GateAllows, Current, At, TypeOK
  <2> QED BY <1>4, <2>1 DEF EvaluateGate, Enforcement
<1>5. CASE Execute
  <2>1. Permitted(gate, state, Current)
    BY <1>5 DEF Execute, At, Permitted
  <2>2. PICK ok \in BOOLEAN :
          world' = Append(world, [action |-> Current, state |-> state, ok |-> ok])
    BY <1>5 DEF Execute
  <2>3. gate' = gate /\ pc' = "observe"
    BY <1>5 DEF Execute
  <2>4. ASSUME NEW i \in DOMAIN world'
        PROVE  Permitted(gate, world'[i].state, world'[i].action)
    <3>1. CASE i = Len(world) + 1
      BY <2>1, <2>2, <3>1 DEF TypeOK
    <3>2. CASE i # Len(world) + 1
      <4>1. i \in DOMAIN world /\ world'[i] = world[i]
        BY <2>2, <3>2 DEF TypeOK
      <4> QED BY <4>1 DEF Enforcement
    <3> QED BY <3>1, <3>2
  <2> QED BY <2>3, <2>4 DEF Enforcement
<1>6. CASE Idle \/ Receive \/ CountTick \/ Dispatch \/ DispatchError
  BY <1>6, <1>1 DEF Idle, Receive, CountTick, Dispatch, DispatchError
<1>7. CASE Deny \/ SkipMcp \/ Allow
  BY <1>7, <1>1 DEF Deny, SkipMcp, Allow, NextAction
<1>8. CASE ObserveExecute \/ EndStep \/ ObserveStep
  BY <1>8, <1>1 DEF ObserveExecute, EndStep, ObserveStep
<1>9. ASSUME \/ \E p \in Peers, t \in Topics : Send(p, t)
             \/ \E t \in TickTopics : Tick(t) \/ TickExit(t)
             \/ Finalize \/ Crash \/ UNCHANGED vars
      PROVE  EnforcementInv'
  BY <1>9, <1>2 DEF Send, Tick, TickExit, Finalize, Crash, vars
<1> QED
  BY <1>3, <1>4, <1>5, <1>6, <1>7, <1>8, <1>9 DEF Next, Step

\* Nothing is executed that gate and allowlist do not permit in the state
\* the agent is in.
THEOREM EnforcementHolds == Spec => []Enforcement
<1>1. EnforcementInv => Enforcement
  BY DEF EnforcementInv
<1> QED
  BY <1>1, TypeCorrect, EnforcementInit, EnforcementStep, PTL DEF Spec

-----------------------------------------------------------------------------
(* Conservation of the counters.                                           *)

\* The counters Accounting relates, for kind k.
LEMMA IncOne ==
  ASSUME metrics \in [Counters -> Nat], NEW c \in Counters, Inc(c)
  PROVE  \A d \in Counters :
           metrics'[d] = IF d = c THEN metrics[d] + 1 ELSE metrics[d]
BY DEF Inc

\* What Accounting says of one kind.
KindAccounted(k) ==
  /\ metrics[<<"proposed", k>>] =
       metrics[<<"allowed", k>>] + metrics[<<"denied", k, "gate">>]
         + metrics[<<"denied", k, "mcp_allowlist">>] + InFlight(k, Deciding)
  /\ metrics[<<"executeDuration", k>>] =
       metrics[<<"allowed", k>>] + InFlight(k, {"allow"})

\* A step that touches none of the counters of k, and leaves the current
\* action where it was in the loop or out of it, keeps the account.
LEMMA AccountKept ==
  ASSUME NEW k \in Kinds, KindAccounted(k),
         metrics'[<<"proposed", k>>] = metrics[<<"proposed", k>>],
         metrics'[<<"allowed", k>>] = metrics[<<"allowed", k>>],
         metrics'[<<"denied", k, "gate">>] = metrics[<<"denied", k, "gate">>],
         metrics'[<<"denied", k, "mcp_allowlist">>] =
           metrics[<<"denied", k, "mcp_allowlist">>],
         metrics'[<<"executeDuration", k>>] = metrics[<<"executeDuration", k>>],
         InFlight(k, Deciding)' = InFlight(k, Deciding),
         InFlight(k, {"allow"})' = InFlight(k, {"allow"})
  PROVE  KindAccounted(k)'
BY DEF KindAccounted

LEMMA AccountingStep ==
  TypeOK /\ Accounting /\ [Next]_vars => Accounting'
<1> SUFFICES ASSUME TypeOK, Accounting, [Next]_vars,
                    NEW k \in Kinds
             PROVE  KindAccounted(k)'
  BY DEF Accounting, KindAccounted
<1> DEFINE ok == <<"allowed", k>>
           pr == <<"proposed", k>>
           dg == <<"denied", k, "gate">>
           dm == <<"denied", k, "mcp_allowlist">>
           ex == <<"executeDuration", k>>
<1>1. KindAccounted(k)
  BY DEF Accounting, KindAccounted
<1>2. {ok, pr, dg, dm, ex} \subseteq Counters
  BY CounterNames
<1>3. metrics \in [Counters -> Nat]
  BY DEF TypeOK
<1>4. ASSUME NEW c \in Counters, Inc(c), c \notin {ok, pr, dg, dm, ex},
             InFlight(k, Deciding)' = InFlight(k, Deciding),
             InFlight(k, {"allow"})' = InFlight(k, {"allow"})
      PROVE  KindAccounted(k)'
  BY <1>1, <1>2, <1>3, <1>4, IncOne, AccountKept
<1>5. ASSUME UNCHANGED <<metrics, pc, pending>> PROVE KindAccounted(k)'
  BY <1>1, <1>5 DEF KindAccounted, InFlight, Current
<1>6. CASE Idle
  <2>1. <<"steps", "Idle">> \in Counters
    BY CounterNames DEF Outcomes
  <2>2. InFlight(k, Deciding)' = 0 /\ InFlight(k, {"allow"})' = 0
        /\ InFlight(k, Deciding) = 0 /\ InFlight(k, {"allow"}) = 0
    BY <1>6 DEF Idle, At, InFlight, Deciding
  <2> QED BY <1>4, <1>6, <2>1, <2>2 DEF Idle
<1>7. CASE Receive
  <2>1. <<"messages", msg'.topic>> \in Counters
    <3>1. msg' \in Messages
      BY <1>7, HeadTailProperties DEF Receive, TypeOK
    <3> QED BY <3>1, CounterNames DEF Messages
  <2>2. InFlight(k, Deciding)' = 0 /\ InFlight(k, {"allow"})' = 0
        /\ InFlight(k, Deciding) = 0 /\ InFlight(k, {"allow"}) = 0
    BY <1>7 DEF Receive, At, InFlight, Deciding
  <2> QED BY <1>4, <1>7, <2>1, <2>2 DEF Receive
<1>8. CASE CountTick
  <2>1. <<"ticks", msg.topic>> \in Counters
    BY <1>8, CounterNames DEF CountTick, At, TypeOK, Messages
  <2>2. InFlight(k, Deciding)' = 0 /\ InFlight(k, {"allow"})' = 0
        /\ InFlight(k, Deciding) = 0 /\ InFlight(k, {"allow"}) = 0
    BY <1>8 DEF CountTick, At, InFlight, Deciding
  <2> QED BY <1>4, <1>8, <2>1, <2>2 DEF CountTick
<1>9. CASE Dispatch \/ DispatchError
  <2>1. /\ metrics' = metrics
        /\ pc = "dispatch"
        /\ pc' \in {"end", "propose"}
    BY <1>9 DEF Dispatch, DispatchError, At
  <2> QED BY <1>1, <2>1 DEF KindAccounted, InFlight, Deciding
<1>10. CASE Propose
  <2>1. /\ pc = "propose" /\ pc' \in {"allowlist", "gate"}
        /\ Current' = Current
        /\ Current.kind \in Kinds
        /\ Inc(<<"proposed", Current.kind>>)
    BY <1>10, CurrentType DEF Propose, At, Current, TypeOK, Deciding
  <2>2. <<"proposed", Current.kind>> \in Counters
    BY <2>1, CounterNames
  <2>3. CASE Current.kind = k
    <3>1. /\ metrics'[pr] = metrics[pr] + 1
          /\ \A d \in {ok, dg, dm, ex} : metrics'[d] = metrics[d]
      BY <1>2, <1>3, <2>1, <2>2, <2>3, IncOne
    <3>2. /\ InFlight(k, Deciding) = 0 /\ InFlight(k, Deciding)' = 1
          /\ InFlight(k, {"allow"}) = 0 /\ InFlight(k, {"allow"})' = 0
      BY <2>1, <2>3 DEF InFlight, Deciding
    <3> QED BY <1>1, <1>2, <1>3, <3>1, <3>2 DEF KindAccounted
  <2>4. CASE Current.kind # k
    BY <1>4, <2>1, <2>2, <2>4 DEF InFlight
  <2> QED BY <2>3, <2>4
<1>11. CASE EvaluateGate
  <2> DEFINE v == Evaluate(gate, state, Current)
  <2>1. v \in Verdicts
    BY <1>11, CurrentType, EvaluateType, RunnerAssumption
    DEF EvaluateGate, At, TypeOK, Deciding
  <2>2. <<"verdict", v>> \in Counters
    BY <2>1, CounterNames
  <2>3. /\ Inc(<<"verdict", v>>)
        /\ pc = "gate" /\ pc' \in {"allowlist", "deny"}
        /\ Current' = Current
    BY <1>11 DEF EvaluateGate, At, Current
  <2> HIDE DEF v
  <2> QED BY <1>4, <2>2, <2>3 DEF InFlight, Deciding
<1>12. CASE Deny
  <2>1. /\ pc = "deny" /\ pc' \in {"end", "propose"}
        /\ Current.kind \in Kinds
        /\ Inc(<<"denied", Current.kind, "gate">>)
    BY <1>12, CurrentType DEF Deny, At, TypeOK, Deciding, NextAction
  <2>2. <<"denied", Current.kind, "gate">> \in Counters
    BY <2>1, CounterNames
  <2>3. CASE Current.kind = k
    <3>1. /\ metrics'[dg] = metrics[dg] + 1
          /\ \A d \in {ok, pr, dm, ex} : metrics'[d] = metrics[d]
      BY <1>2, <1>3, <2>1, <2>2, <2>3, IncOne
    <3>2. /\ InFlight(k, Deciding) = 1 /\ InFlight(k, Deciding)' = 0
          /\ InFlight(k, {"allow"}) = 0 /\ InFlight(k, {"allow"})' = 0
      BY <2>1, <2>3 DEF InFlight, Deciding
    <3> QED BY <1>1, <1>2, <1>3, <3>1, <3>2 DEF KindAccounted
  <2>4. CASE Current.kind # k
    BY <1>4, <2>1, <2>2, <2>4 DEF InFlight, Deciding
  <2> QED BY <2>3, <2>4
<1>13. CASE SkipMcp
  <2>1. /\ pc = "allowlist" /\ pc' \in {"end", "propose"}
        /\ Current.kind \in Kinds
        /\ Inc(<<"denied", Current.kind, "mcp_allowlist">>)
    BY <1>13, CurrentType DEF SkipMcp, At, TypeOK, Deciding, NextAction
  <2>2. <<"denied", Current.kind, "mcp_allowlist">> \in Counters
    BY <2>1, CounterNames
  <2>3. CASE Current.kind = k
    <3>1. /\ metrics'[dm] = metrics[dm] + 1
          /\ \A d \in {ok, pr, dg, ex} : metrics'[d] = metrics[d]
      BY <1>2, <1>3, <2>1, <2>2, <2>3, IncOne
    <3>2. /\ InFlight(k, Deciding) = 1 /\ InFlight(k, Deciding)' = 0
          /\ InFlight(k, {"allow"}) = 0 /\ InFlight(k, {"allow"})' = 0
      BY <2>1, <2>3 DEF InFlight, Deciding
    <3> QED BY <1>1, <1>2, <1>3, <3>1, <3>2 DEF KindAccounted
  <2>4. CASE Current.kind # k
    BY <1>4, <2>1, <2>2, <2>4 DEF InFlight, Deciding
  <2> QED BY <2>3, <2>4
<1>14. CASE Execute
  <2>1. /\ pc = "allowlist" /\ pc' = "observe"
        /\ metrics' = metrics /\ Current' = Current
    BY <1>14 DEF Execute, At, Current
  <2> QED BY <1>1, <2>1 DEF KindAccounted, InFlight, Deciding
<1>15. CASE ObserveExecute
  <2>1. /\ pc = "observe" /\ pc' = "allow"
        /\ Current' = Current
        /\ Current.kind \in Kinds
        /\ Inc(<<"executeDuration", Current.kind>>)
    BY <1>15, CurrentType DEF ObserveExecute, At, Current, TypeOK, Deciding
  <2>2. <<"executeDuration", Current.kind>> \in Counters
    BY <2>1, CounterNames
  <2>3. CASE Current.kind = k
    <3>1. /\ metrics'[ex] = metrics[ex] + 1
          /\ \A d \in {ok, pr, dg, dm} : metrics'[d] = metrics[d]
      BY <1>2, <1>3, <2>1, <2>2, <2>3, IncOne
    <3>2. /\ InFlight(k, Deciding) = 1 /\ InFlight(k, Deciding)' = 1
          /\ InFlight(k, {"allow"}) = 0 /\ InFlight(k, {"allow"})' = 1
      BY <2>1, <2>3 DEF InFlight, Deciding
    <3> QED BY <1>1, <1>2, <1>3, <3>1, <3>2 DEF KindAccounted
  <2>4. CASE Current.kind # k
    BY <1>4, <2>1, <2>2, <2>4 DEF InFlight, Deciding
  <2> QED BY <2>3, <2>4
<1>16. CASE Allow
  <2>1. /\ pc = "allow" /\ pc' \in {"end", "propose"}
        /\ Current.kind \in Kinds
        /\ Inc(<<"allowed", Current.kind>>)
    BY <1>16, CurrentType DEF Allow, At, TypeOK, Deciding, NextAction
  <2>2. <<"allowed", Current.kind>> \in Counters
    BY <2>1, CounterNames
  <2>3. CASE Current.kind = k
    <3>1. /\ metrics'[ok] = metrics[ok] + 1
          /\ \A d \in {pr, dg, dm, ex} : metrics'[d] = metrics[d]
      BY <1>2, <1>3, <2>1, <2>2, <2>3, IncOne
    <3>2. /\ InFlight(k, Deciding) = 1 /\ InFlight(k, Deciding)' = 0
          /\ InFlight(k, {"allow"}) = 1 /\ InFlight(k, {"allow"})' = 0
      BY <2>1, <2>3 DEF InFlight, Deciding
    <3> QED BY <1>1, <1>2, <1>3, <3>1, <3>2 DEF KindAccounted
  <2>4. CASE Current.kind # k
    BY <1>4, <2>1, <2>2, <2>4 DEF InFlight, Deciding
  <2> QED BY <2>3, <2>4
<1>17. CASE EndStep \/ ObserveStep
  <2>1. /\ pc \in {"end", "ended"} /\ pc' \in {"ended", "loop"}
        /\ Inc(<<"steps", result>>) \/ Inc(<<"stepDuration", result>>)
    BY <1>17 DEF EndStep, ObserveStep, At
  <2>2. <<"steps", result>> \in Counters /\ <<"stepDuration", result>> \in Counters
    BY CounterNames DEF TypeOK
  <2>3. InFlight(k, Deciding)' = 0 /\ InFlight(k, {"allow"})' = 0
        /\ InFlight(k, Deciding) = 0 /\ InFlight(k, {"allow"}) = 0
    BY <2>1 DEF InFlight, Deciding
  <2> QED BY <1>4, <2>1, <2>2, <2>3
<1>18. ASSUME \/ \E p \in Peers, t \in Topics : Send(p, t)
              \/ \E t \in TickTopics : Tick(t) \/ TickExit(t)
              \/ Finalize \/ Crash \/ UNCHANGED vars
       PROVE  KindAccounted(k)'
  BY <1>5, <1>18 DEF Send, Tick, TickExit, Finalize, Crash, vars
<1> QED
  BY <1>6, <1>7, <1>8, <1>9, <1>10, <1>11, <1>12, <1>13, <1>14, <1>15,
     <1>16, <1>17, <1>18
  DEF Next, Step

LEMMA AccountingInit == Init => Accounting
<1> SUFFICES ASSUME Init, NEW k \in Kinds PROVE KindAccounted(k)
  BY DEF Accounting, KindAccounted
<1>1. \A c \in Counters : metrics[c] = 0
  BY DEF Init
<1>2. InFlight(k, Deciding) = 0 /\ InFlight(k, {"allow"}) = 0
  BY DEF Init, InFlight, Deciding
<1> QED BY <1>1, <1>2, CounterNames DEF KindAccounted

\* Every proposed action is counted once more, as allowed or as denied, and
\* every execution is both timed and counted.
THEOREM AccountingHolds == Spec => []Accounting
BY AccountingInit, TypeCorrect, AccountingStep, PTL DEF Spec

-----------------------------------------------------------------------------
(* The grammar of the trace.                                               *)

\* What VerdictBeforeEffect says of the event at place i.
FollowsItsCause(tr, i) ==
  /\ tr[i].event \in {"action.executed", "action.skipped"}
       => i > 1 /\ tr[i - 1] = Ready(tr[i].action)
  /\ tr[i].event = "gate.verdict"
       => gate # NoGate /\ i > 1 /\ tr[i - 1] = Proposed(tr[i].action)

\* An event written after its cause keeps the grammar, whatever was written
\* before.
LEMMA GrammarStep ==
  ASSUME TypeOK, VerdictBeforeEffect, gate' = gate,
         NEW e \in Events, trace' = Append(trace, e),
         \/ e.event \in {"a2a.received", "action.proposed"}
         \/ /\ e.event \in {"action.executed", "action.skipped"}
            /\ trace # <<>> /\ trace[Len(trace)] = Ready(e.action)
         \/ /\ e.event = "gate.verdict"
            /\ gate # NoGate
            /\ trace # <<>> /\ trace[Len(trace)] = Proposed(e.action)
  PROVE  VerdictBeforeEffect'
<1>1. /\ Len(trace) \in Nat
      /\ DOMAIN trace = 1..Len(trace)
      /\ DOMAIN trace' = 1..(Len(trace) + 1)
      /\ \A i \in DOMAIN trace : trace'[i] = trace[i]
      /\ trace'[Len(trace) + 1] = e
  BY SMTT(40) DEF TypeOK
<1>2. trace # <<>> => Len(trace) >= 1
  BY <1>1, EmptySeq DEF TypeOK
<1>3. \A a : Ready(a)' = Ready(a)
  BY DEF Ready
<1>4. ASSUME NEW i \in DOMAIN trace PROVE FollowsItsCause(trace', i)
  <2>1. FollowsItsCause(trace, i)
    BY DEF VerdictBeforeEffect, FollowsItsCause
  <2>2. i > 1 => trace'[i - 1] = trace[i - 1]
    BY <1>1
  <2> QED BY <1>1, <2>1, <2>2 DEF FollowsItsCause
<1>5. FollowsItsCause(trace', Len(trace) + 1)
  <2>1. (Len(trace) + 1) - 1 = Len(trace)
    BY <1>1
  <2>2. trace # <<>> => /\ Len(trace) + 1 > 1
                        /\ trace'[Len(trace)] = trace[Len(trace)]
    BY <1>1, <1>2
  <2> QED BY Zenon, <1>1, <2>1, <2>2 DEF FollowsItsCause
<1>6. \A i \in DOMAIN trace' : FollowsItsCause(trace', i)
  BY <1>1, <1>4, <1>5
<1> QED BY <1>3, <1>6 DEF VerdictBeforeEffect, FollowsItsCause

LEMMA TraceStep == TypeOK /\ TraceInv /\ [Next]_vars => TraceInv'
<1> SUFFICES ASSUME TypeOK, TraceInv, [Next]_vars PROVE TraceInv'
  OBVIOUS
<1> USE DEF TraceInv
<1>1. ASSUME UNCHANGED <<gate, trace>>, pc' \notin Deciding PROVE TraceInv'
  BY <1>1 DEF Deciding, VerdictBeforeEffect, Ready
<1>2. ASSUME UNCHANGED <<gate, trace, pending>>,
             pc' = pc \/ (pc \in {"allowlist", "observe", "allow"}
                          /\ pc' \in {"observe", "allow"})
      PROVE  TraceInv'
  BY <1>2 DEF Deciding, VerdictBeforeEffect, Ready, Current
<1>3. ASSUME NEW e \in Events, trace' = Append(trace, e)
      PROVE  trace' # <<>> /\ trace'[Len(trace')] = e
  BY SMTT(40), <1>3, AppendNonEmpty DEF TypeOK
<1>4. CASE Dispatch \/ DispatchError
  <2>1. /\ Received(msg) \in Events
        /\ trace' = Append(trace, Received(msg))
        /\ gate' = gate
        /\ pc' \in {"end", "propose"}
    BY <1>4, EventsType DEF Dispatch, DispatchError, At, TypeOK
  <2>2. VerdictBeforeEffect'
    BY <2>1, GrammarStep DEF Received
  <2> QED BY <2>1, <2>2 DEF Deciding
<1>5. CASE Propose
  <2>1. /\ Current \in Actions
        /\ Current' = Current
        /\ Proposed(Current) \in Events
        /\ trace' = Append(trace, Proposed(Current))
        /\ gate' = gate
        /\ pc' = IF gate = NoGate THEN "allowlist" ELSE "gate"
    BY <1>5, CurrentType, EventsType DEF Propose, At, TypeOK, Current
  <2>2. VerdictBeforeEffect'
    BY <2>1, GrammarStep DEF Proposed
  <2>3. trace' # <<>> /\ trace'[Len(trace')] = Proposed(Current)
    BY <1>3, <2>1
  <2> QED BY <2>1, <2>2, <2>3 DEF Ready, Proposed
<1>6. CASE EvaluateGate
  <2> DEFINE v == Evaluate(gate, state, Current)
  <2>1. /\ Current \in Actions
        /\ gate \in Seq(Specs)
        /\ gate # NoGate
    BY <1>6, CurrentType, RunnerAssumption DEF EvaluateGate, At, TypeOK, Deciding
  <2>2. v \in Verdicts
    BY <2>1, EvaluateType DEF TypeOK
  <2>3. /\ trace' = Append(trace, Verdict(Current, v))
        /\ Current' = Current
        /\ gate' = gate
        /\ pc' = IF v = "Allow" THEN "allowlist" ELSE "deny"
        /\ trace # <<>> /\ trace[Len(trace)] = Proposed(Current)
    BY <1>6 DEF EvaluateGate, At, Current, Deciding
  <2> HIDE DEF v
  <2>4. Verdict(Current, v) \in Events
    BY <2>1, <2>2, EventsType
  <2>5. VerdictBeforeEffect'
    BY <2>1, <2>3, <2>4, GrammarStep DEF Verdict
  <2>6. trace' # <<>> /\ trace'[Len(trace')] = Verdict(Current, v)
    BY <1>3, <2>3, <2>4
  <2>7. pc' = "allowlist" => trace'[Len(trace')] = Ready(Current)'
    BY <2>1, <2>3, <2>6 DEF Ready, Verdict
  <2> QED BY <2>3, <2>5, <2>6, <2>7
<1>7. CASE SkipMcp
  <2>1. /\ Skipped(Current) \in Events
        /\ trace' = Append(trace, Skipped(Current))
        /\ gate' = gate
        /\ pc' \in {"end", "propose"}
        /\ trace # <<>> /\ trace[Len(trace)] = Ready(Current)
    BY <1>7, CurrentType, EventsType
    DEF SkipMcp, At, TypeOK, Deciding, NextAction
  <2>2. VerdictBeforeEffect'
    BY <2>1, GrammarStep DEF Skipped
  <2> QED BY <2>1, <2>2 DEF Deciding
<1>8. CASE Allow
  <2> DEFINE ok == world[Len(world)].ok
  <2>1. ok \in BOOLEAN
    <3>1. world[Len(world)] \in Performed
      BY <1>8, LastType DEF Allow, At, TypeOK
    <3> QED BY <3>1 DEF Performed
  <2>2. /\ Executed(Current, ok) \in Events
        /\ trace' = Append(trace, Executed(Current, ok))
        /\ gate' = gate
        /\ pc' \in {"end", "propose"}
        /\ trace # <<>> /\ trace[Len(trace)] = Ready(Current)
    BY <1>8, <2>1, CurrentType, EventsType
    DEF Allow, At, TypeOK, Deciding, NextAction
  <2> HIDE DEF ok
  <2>3. VerdictBeforeEffect'
    BY <2>2, GrammarStep DEF Executed
  <2> QED BY <2>2, <2>3 DEF Deciding
<1>9. CASE Deny
  BY <1>1, <1>9 DEF Deny, NextAction, Deciding
<1>10. CASE Execute
  BY <1>2, <1>10 DEF Execute, At
<1>11. CASE ObserveExecute
  BY <1>2, <1>11 DEF ObserveExecute, At
<1>12. CASE Idle \/ Receive \/ CountTick \/ EndStep \/ ObserveStep
  BY <1>1, <1>12
  DEF Idle, Receive, CountTick, EndStep, ObserveStep, Deciding
<1>13. ASSUME \/ \E p \in Peers, t \in Topics : Send(p, t)
              \/ \E t \in TickTopics : Tick(t) \/ TickExit(t)
              \/ Finalize \/ Crash \/ UNCHANGED vars
       PROVE  TraceInv'
  BY <1>2, <1>13 DEF Send, Tick, TickExit, Finalize, Crash, vars
<1> QED
  BY <1>4, <1>5, <1>6, <1>7, <1>8, <1>9, <1>10, <1>11, <1>12, <1>13
  DEF Next, Step

LEMMA TraceInvHolds == Spec => []TraceInv
<1>1. Init => TraceInv
  BY DEF Init, TraceInv, VerdictBeforeEffect, Deciding
<1> QED BY <1>1, TypeCorrect, TraceStep, PTL DEF Spec

\* The trace of a runner never shows an effect without its own verdict.
THEOREM VerdictBeforeEffectHolds == Spec => []VerdictBeforeEffect
<1>1. TraceInv => VerdictBeforeEffect
  BY DEF TraceInv
<1> QED BY <1>1, TraceInvHolds, PTL

-----------------------------------------------------------------------------
(* What a step does to the counters.                                       *)

Moves(from, to, c) == pc = from /\ pc' \in to /\ Inc(c) /\ UNCHANGED result

Quiet == UNCHANGED <<metrics, pc, result>>
IdleMove == pc = "loop" /\ pc' = "ended" /\ result' = "Idle" /\ Inc(<<"steps", "Idle">>)
ReceiveMove == \E t \in Topics : Moves("loop", {"tick", "dispatch"}, <<"messages", t>>)
TickMove == \E t \in Topics : Moves("tick", {"dispatch"}, <<"ticks", t>>)
DispatchMove ==
  /\ pc = "dispatch" /\ pc' \in {"end", "propose"}
  /\ result' \in {"Processed", "Error"} /\ UNCHANGED metrics
ProposeMove ==
  \E k \in Kinds : Moves("propose", {IF gate = NoGate THEN "allowlist" ELSE "gate"},
                         <<"proposed", k>>)
GateMove ==
  \E v \in Verdicts :
    /\ gate # NoGate
    /\ Moves("gate", {IF v = "Allow" THEN "allowlist" ELSE "deny"}, <<"verdict", v>>)
DenyMove ==
  \E k \in Kinds : Moves("deny", {"end", "propose"}, <<"denied", k, "gate">>)
SkipMove ==
  \E k \in Kinds : Moves("allowlist", {"end", "propose"}, <<"denied", k, "mcp_allowlist">>)
ExecuteMove == pc = "allowlist" /\ pc' = "observe" /\ UNCHANGED <<metrics, result>>
ObserveMove ==
  \E k \in Kinds : Moves("observe", {"allow"}, <<"executeDuration", k>>)
AllowMove ==
  \E k \in Kinds : Moves("allow", {"end", "propose"}, <<"allowed", k>>)
EndMove == Moves("end", {"ended"}, <<"steps", result>>)
EndedMove == Moves("ended", {"loop"}, <<"stepDuration", result>>)

\* Every step increments at most one counter, the one of its place in
\* Runner::step.
LEMMA StepMoves ==
  ASSUME TypeOK, [Next]_vars
  PROVE  /\ UNCHANGED gate
         /\ \/ Quiet \/ IdleMove \/ ReceiveMove \/ TickMove \/ DispatchMove
            \/ ProposeMove \/ GateMove \/ DenyMove \/ SkipMove \/ ExecuteMove
            \/ ObserveMove \/ AllowMove \/ EndMove \/ EndedMove
<1> DEFINE Goal ==
      /\ UNCHANGED gate
      /\ \/ Quiet \/ IdleMove \/ ReceiveMove \/ TickMove \/ DispatchMove
         \/ ProposeMove \/ GateMove \/ DenyMove \/ SkipMove \/ ExecuteMove
         \/ ObserveMove \/ AllowMove \/ EndMove \/ EndedMove
<1>a. pc \in Deciding \cup {"propose"} => Current.kind \in Kinds
  BY CurrentType DEF TypeOK
<1>1. CASE Idle
  BY <1>1 DEF Idle, At, IdleMove
<1>2. CASE Receive
  <2>1. msg' \in Messages
    BY <1>2, HeadTailProperties DEF Receive, TypeOK
  <2>2. msg'.topic \in Topics
    BY <2>1 DEF Messages
  <2>3. Moves("loop", {"tick", "dispatch"}, <<"messages", msg'.topic>>) /\ UNCHANGED gate
    BY <1>2 DEF Receive, At, Moves
  <2> QED BY <2>2, <2>3 DEF ReceiveMove
<1>3. CASE CountTick
  <2>1. msg.topic \in Topics
    BY <1>3 DEF CountTick, At, TypeOK, Messages
  <2>2. Moves("tick", {"dispatch"}, <<"ticks", msg.topic>>) /\ UNCHANGED gate
    BY <1>3 DEF CountTick, At, Moves
  <2> QED BY <2>1, <2>2 DEF TickMove
<1>4. CASE Dispatch \/ DispatchError
  BY <1>4 DEF Dispatch, DispatchError, At, DispatchMove
<1>5. CASE Propose
  <2>1. Moves("propose", {IF gate = NoGate THEN "allowlist" ELSE "gate"},
              <<"proposed", Current.kind>>) /\ UNCHANGED gate
    BY <1>5 DEF Propose, At, Moves
  <2>2. Current.kind \in Kinds
    BY <1>a, <1>5 DEF Propose, At
  <2> QED BY <2>1, <2>2 DEF ProposeMove
<1>6. CASE EvaluateGate
  <2> DEFINE v == Evaluate(gate, state, Current)
  <2>1. v \in Verdicts /\ gate # NoGate
    BY <1>6, CurrentType, EvaluateType, RunnerAssumption
    DEF EvaluateGate, At, TypeOK, Deciding
  <2>2. Moves("gate", {IF v = "Allow" THEN "allowlist" ELSE "deny"}, <<"verdict", v>>)
          /\ UNCHANGED gate
    BY <1>6 DEF EvaluateGate, At, Moves
  <2> HIDE DEF v
  <2> QED BY <2>1, <2>2 DEF GateMove
<1>7. CASE Deny
  <2>1. Moves("deny", {"end", "propose"}, <<"denied", Current.kind, "gate">>)
          /\ UNCHANGED gate
    BY <1>7 DEF Deny, At, Moves, NextAction
  <2>2. Current.kind \in Kinds
    BY <1>a, <1>7 DEF Deny, At, Deciding
  <2> QED BY <2>1, <2>2 DEF DenyMove
<1>8. CASE SkipMcp
  <2>1. Moves("allowlist", {"end", "propose"}, <<"denied", Current.kind, "mcp_allowlist">>)
          /\ UNCHANGED gate
    BY <1>8 DEF SkipMcp, At, Moves, NextAction
  <2>2. Current.kind \in Kinds
    BY <1>a, <1>8 DEF SkipMcp, At, Deciding
  <2> QED BY <2>1, <2>2 DEF SkipMove
<1>9. CASE Execute
  BY <1>9 DEF Execute, At, ExecuteMove
<1>10. CASE ObserveExecute
  <2>1. Moves("observe", {"allow"}, <<"executeDuration", Current.kind>>) /\ UNCHANGED gate
    BY <1>10 DEF ObserveExecute, At, Moves
  <2>2. Current.kind \in Kinds
    BY <1>a, <1>10 DEF ObserveExecute, At, Deciding
  <2> QED BY <2>1, <2>2 DEF ObserveMove
<1>11. CASE Allow
  <2>1. Moves("allow", {"end", "propose"}, <<"allowed", Current.kind>>) /\ UNCHANGED gate
    BY <1>11 DEF Allow, At, Moves, NextAction
  <2>2. Current.kind \in Kinds
    BY <1>a, <1>11 DEF Allow, At, Deciding
  <2> QED BY <2>1, <2>2 DEF AllowMove
<1>12. CASE EndStep
  BY <1>12 DEF EndStep, At, EndMove, Moves
<1>13. CASE ObserveStep
  BY <1>13 DEF ObserveStep, At, EndedMove, Moves
<1>14. ASSUME \/ \E p \in Peers, t \in Topics : Send(p, t)
              \/ \E t \in TickTopics : Tick(t) \/ TickExit(t)
              \/ Finalize \/ Crash \/ UNCHANGED vars
       PROVE  Goal
  BY <1>14 DEF Send, Tick, TickExit, Finalize, Crash, vars, Quiet
<1> QED
  BY <1>1, <1>2, <1>3, <1>4, <1>5, <1>6, <1>7, <1>8, <1>9, <1>10, <1>11,
     <1>12, <1>13, <1>14
  DEF Next, Step

-----------------------------------------------------------------------------
(* What the counters say of each other at every moment.                     *)

AtPlace(labels) == IF pc \in labels THEN 1 ELSE 0

\* At most one of the two terms a verdict leads to is still to come, and a
\* received message has its step when the step ends.
CountersInv ==
  /\ pc \in Deciding \cup {"propose", "end"} => result \in {"Processed", "Error"}
  /\ DeniedFor(metrics, "gate") + AtPlace({"deny"}) =
       metrics[<<"verdict", "Deny">>] + metrics[<<"verdict", "Inconclusive">>]
  /\ gate # NoGate =>
       OverKinds(metrics, "allowed") + DeniedFor(metrics, "mcp_allowlist")
         + AtPlace({"allowlist", "observe", "allow"})
         = metrics[<<"verdict", "Allow">>]
  /\ \A t \in Topics :
       metrics[<<"messages", t>>] + AtPlace({"loop", "ended"})
         <= EndedSteps(metrics, "steps") + 1
  /\ EndedSteps(metrics, "steps") =
       EndedSteps(metrics, "stepDuration")
         + (IF pc = "ended" /\ result # "Idle" THEN 1 ELSE 0)

\* One increment moves exactly the sum the counter belongs to.
LEMMA IncSums ==
  ASSUME metrics \in [Counters -> Nat], NEW c \in Counters, Inc(c)
  PROVE  /\ OverKinds(metrics', "allowed") = OverKinds(metrics, "allowed")
              + (IF \E k \in Kinds : c = <<"allowed", k>> THEN 1 ELSE 0)
         /\ DeniedFor(metrics', "gate") = DeniedFor(metrics, "gate")
              + (IF \E k \in Kinds : c = <<"denied", k, "gate">> THEN 1 ELSE 0)
         /\ DeniedFor(metrics', "mcp_allowlist") = DeniedFor(metrics, "mcp_allowlist")
              + (IF \E k \in Kinds : c = <<"denied", k, "mcp_allowlist">> THEN 1 ELSE 0)
         /\ EndedSteps(metrics', "steps") = EndedSteps(metrics, "steps")
              + (IF c \in {<<"steps", "Processed">>, <<"steps", "Error">>} THEN 1 ELSE 0)
         /\ EndedSteps(metrics', "stepDuration") = EndedSteps(metrics, "stepDuration")
              + (IF c \in {<<"stepDuration", "Processed">>, <<"stepDuration", "Error">>}
                 THEN 1 ELSE 0)
<1>1. \A d \in Counters : /\ metrics[d] \in Nat
                          /\ metrics'[d] = IF d = c THEN metrics[d] + 1 ELSE metrics[d]
  BY IncOne
<1>2. Kinds = {"call_mcp", "send_a2a", "local_llm", "cloud_llm"}
  BY DEF Kinds
<1>3. \A k \in Kinds : /\ <<"allowed", k>> \in Counters
                       /\ <<"denied", k, "gate">> \in Counters
                       /\ <<"denied", k, "mcp_allowlist">> \in Counters
  BY CounterNames
<1>4. /\ \A f \in {"steps", "stepDuration"}, o \in {"Processed", "Error"} :
            <<f, o>> \in Counters
  BY CounterNames DEF Outcomes
<1>5. OverKinds(metrics', "allowed") = OverKinds(metrics, "allowed")
        + (IF \E k \in Kinds : c = <<"allowed", k>> THEN 1 ELSE 0)
  BY <1>1, <1>2, <1>3, SMTT(40) DEF OverKinds
<1>6. ASSUME NEW r \in Reasons
      PROVE  DeniedFor(metrics', r) = DeniedFor(metrics, r)
               + (IF \E k \in Kinds : c = <<"denied", k, r>> THEN 1 ELSE 0)
  BY <1>1, <1>2, <1>3, SMTT(40) DEF DeniedFor, Reasons
<1>7. ASSUME NEW f \in {"steps", "stepDuration"}
      PROVE  EndedSteps(metrics', f) = EndedSteps(metrics, f)
               + (IF c \in {<<f, "Processed">>, <<f, "Error">>} THEN 1 ELSE 0)
  BY <1>1, <1>4, SMTT(40) DEF EndedSteps
<1> QED BY <1>5, <1>6, <1>7 DEF Reasons

\* The sums are numbers.
LEMMA SumTypes ==
  ASSUME NEW m \in [Counters -> Nat]
  PROVE  /\ OverKinds(m, "allowed") \in Nat
         /\ DeniedFor(m, "gate") \in Nat /\ DeniedFor(m, "mcp_allowlist") \in Nat
         /\ EndedSteps(m, "steps") \in Nat /\ EndedSteps(m, "stepDuration") \in Nat
         /\ \A v \in Verdicts : m[<<"verdict", v>>] \in Nat
         /\ \A t \in Topics : m[<<"messages", t>>] \in Nat
<1>1. \A c \in Counters : m[c] \in Nat
  OBVIOUS
<1>2. \A k \in Kinds : /\ m[<<"allowed", k>>] \in Nat
                       /\ m[<<"denied", k, "gate">>] \in Nat
                       /\ m[<<"denied", k, "mcp_allowlist">>] \in Nat
  BY <1>1, CounterNames
<1>3. \A o \in Outcomes : m[<<"steps", o>>] \in Nat /\ m[<<"stepDuration", o>>] \in Nat
  BY <1>1, CounterNames
<1>4. \A v \in Verdicts : m[<<"verdict", v>>] \in Nat
  BY <1>1, CounterNames
<1>5. \A t \in Topics : m[<<"messages", t>>] \in Nat
  BY <1>1, CounterNames
<1>6. OverKinds(m, "allowed") \in Nat
  BY <1>2 DEF OverKinds, Kinds
<1>7. DeniedFor(m, "gate") \in Nat /\ DeniedFor(m, "mcp_allowlist") \in Nat
  BY <1>2 DEF DeniedFor, Kinds
<1>8. EndedSteps(m, "steps") \in Nat /\ EndedSteps(m, "stepDuration") \in Nat
  BY <1>3 DEF EndedSteps, Outcomes
<1> QED BY <1>4, <1>5, <1>6, <1>7, <1>8

LEMMA CountersStep ==
  ASSUME TypeOK, CountersInv, [Next]_vars
  PROVE  CountersInv'
<1> DEFINE A == OverKinds(metrics, "allowed")
           G == DeniedFor(metrics, "gate")
           M == DeniedFor(metrics, "mcp_allowlist")
           S == EndedSteps(metrics, "steps")
           D == EndedSteps(metrics, "stepDuration")
           V(v) == metrics[<<"verdict", v>>]
           R(t) == metrics[<<"messages", t>>]
           Kept(da, dg, dm, ds, dd) ==
             /\ A' = A + da /\ G' = G + dg /\ M' = M + dm /\ S' = S + ds /\ D' = D + dd
           SameV == \A v \in Verdicts : V(v)' = V(v)
           SameR == \A t \in Topics : R(t)' = R(t)
<1>1. metrics \in [Counters -> Nat] /\ UNCHANGED gate
  BY StepMoves DEF TypeOK
<1>2. /\ A \in Nat /\ G \in Nat /\ M \in Nat /\ S \in Nat /\ D \in Nat
      /\ \A v \in Verdicts : V(v) \in Nat
      /\ \A t \in Topics : R(t) \in Nat
  BY <1>1, SumTypes
<1>3. {"Allow", "Deny", "Inconclusive"} = Verdicts
  BY DEF Verdicts
<1>4. ASSUME UNCHANGED metrics PROVE Kept(0, 0, 0, 0, 0) /\ SameV /\ SameR
  BY <1>2, <1>4
<1>5. ASSUME NEW c \in Counters, Inc(c)
      PROVE  /\ SameV \/ c[1] = "verdict"
             /\ SameR \/ c[1] = "messages"
             /\ c[1] \notin {"allowed", "denied", "steps", "stepDuration"}
                  => Kept(0, 0, 0, 0, 0)
             /\ \A k \in Kinds : c = <<"allowed", k>> => Kept(1, 0, 0, 0, 0)
             /\ \A k \in Kinds : c = <<"denied", k, "gate">> => Kept(0, 1, 0, 0, 0)
             /\ \A k \in Kinds : c = <<"denied", k, "mcp_allowlist">> => Kept(0, 0, 1, 0, 0)
             /\ c = <<"steps", "Idle">> => Kept(0, 0, 0, 0, 0)
             /\ \A o \in {"Processed", "Error"} : c = <<"steps", o>> => Kept(0, 0, 0, 1, 0)
             /\ c = <<"stepDuration", "Idle">> => Kept(0, 0, 0, 0, 0)
             /\ \A o \in {"Processed", "Error"} :
                  c = <<"stepDuration", o>> => Kept(0, 0, 0, 0, 1)
  <2>1. \A d \in Counters : metrics'[d] = IF d = c THEN metrics[d] + 1 ELSE metrics[d]
    BY <1>1, <1>5, IncOne
  <2>2. SameV \/ c[1] = "verdict"
    BY <2>1, CounterNames
  <2>3. SameR \/ c[1] = "messages"
    <3>1. ASSUME c[1] # "messages", NEW t \in Topics PROVE R(t)' = R(t)
      <4>1. <<"messages", t>> # c
        <5>1. CASE <<"messages", t>> = c
          <6>1. c[1] = "messages"
            BY <5>1
          <6> QED BY <3>1, <6>1
        <5> QED BY <5>1
      <4>2. <<"messages", t>> \in Counters
        BY CounterNames
      <4> QED BY <2>1, <4>1, <4>2
    <3> QED BY <3>1
  <2>4. /\ A' = A + (IF \E k \in Kinds : c = <<"allowed", k>> THEN 1 ELSE 0)
        /\ G' = G + (IF \E k \in Kinds : c = <<"denied", k, "gate">> THEN 1 ELSE 0)
        /\ M' = M + (IF \E k \in Kinds : c = <<"denied", k, "mcp_allowlist">> THEN 1 ELSE 0)
        /\ S' = S + (IF c \in {<<"steps", "Processed">>, <<"steps", "Error">>}
                     THEN 1 ELSE 0)
        /\ D' = D + (IF c \in {<<"stepDuration", "Processed">>, <<"stepDuration", "Error">>}
                     THEN 1 ELSE 0)
    BY <1>1, <1>5, IncSums
  <2> HIDE DEF A, G, M, S, D, SameV, SameR
  <2>5. c[1] \notin {"allowed", "denied", "steps", "stepDuration"} => Kept(0, 0, 0, 0, 0)
    BY <1>2, <2>4
  <2>6. ASSUME NEW k \in Kinds
        PROVE  /\ c = <<"allowed", k>> => Kept(1, 0, 0, 0, 0)
               /\ c = <<"denied", k, "gate">> => Kept(0, 1, 0, 0, 0)
               /\ c = <<"denied", k, "mcp_allowlist">> => Kept(0, 0, 1, 0, 0)
    BY <1>2, <2>4
  <2>7. c \in {<<"steps", "Idle">>, <<"stepDuration", "Idle">>} => Kept(0, 0, 0, 0, 0)
    BY <1>2, <2>4
  <2>8. ASSUME NEW o \in {"Processed", "Error"}
        PROVE  /\ c = <<"steps", o>> => Kept(0, 0, 0, 1, 0)
               /\ c = <<"stepDuration", o>> => Kept(0, 0, 0, 0, 1)
    BY <1>2, <2>4
  <2> QED BY <2>2, <2>3, <2>5, <2>6, <2>7, <2>8
<1>6. /\ pc \in Deciding \cup {"propose", "end"} => result \in {"Processed", "Error"}
      /\ G + AtPlace({"deny"}) = V("Deny") + V("Inconclusive")
      /\ gate # NoGate =>
           A + M + AtPlace({"allowlist", "observe", "allow"}) = V("Allow")
      /\ \A t \in Topics : R(t) + AtPlace({"loop", "ended"}) <= S + 1
      /\ S = D + (IF pc = "ended" /\ result # "Idle" THEN 1 ELSE 0)
  BY DEF CountersInv
<1>7. (/\ pc' \in Deciding \cup {"propose", "end"} => result' \in {"Processed", "Error"}
       /\ G' + AtPlace({"deny"})' = V("Deny")' + V("Inconclusive")'
       /\ gate # NoGate =>
            A' + M' + AtPlace({"allowlist", "observe", "allow"})' = V("Allow")'
       /\ \A t \in Topics : R(t)' + AtPlace({"loop", "ended"})' <= S' + 1
       /\ S' = D' + (IF pc' = "ended" /\ result' # "Idle" THEN 1 ELSE 0))
      => CountersInv'
  BY <1>1 DEF CountersInv
<1>8. /\ "Allow" \in Verdicts /\ "Deny" \in Verdicts /\ "Inconclusive" \in Verdicts
      /\ result \in Outcomes
  BY DEF Verdicts, TypeOK
<1> HIDE DEF A, G, M, S, D, V, R
<1>9. CASE Quiet
  BY <1>2, <1>4, <1>6, <1>7, <1>8, <1>9, SMTT(40) DEF Quiet, AtPlace
<1>10. CASE IdleMove
  <2>1. <<"steps", "Idle">> \in Counters
    BY CounterNames DEF Outcomes
  <2>2. Kept(0, 0, 0, 0, 0) /\ SameV /\ SameR
    BY <1>5, <1>10, <2>1 DEF IdleMove
  <2> QED BY <1>2, <1>6, <1>7, <1>8, <1>10, <2>2, SMTT(40) DEF IdleMove, AtPlace, Deciding
<1>11. CASE ReceiveMove
  <2>1. PICK t \in Topics : Moves("loop", {"tick", "dispatch"}, <<"messages", t>>)
    BY <1>11 DEF ReceiveMove
  <2>2. <<"messages", t>> \in Counters
    BY CounterNames
  <2>3. Kept(0, 0, 0, 0, 0) /\ SameV
    BY <1>5, <2>1, <2>2 DEF Moves
  <2>4. ASSUME NEW u \in Topics PROVE R(u)' <= R(u) + 1
    <3>1. \A d \in Counters :
            metrics'[d] = IF d = <<"messages", t>> THEN metrics[d] + 1 ELSE metrics[d]
      BY <1>1, <2>1, <2>2, IncOne DEF Moves
    <3>2. <<"messages", u>> \in Counters /\ metrics[<<"messages", u>>] \in Nat
      BY <1>1, CounterNames
    <3>3. metrics'[<<"messages", u>>] <= metrics[<<"messages", u>>] + 1
      BY <3>1, <3>2
    <3> QED BY <3>3 DEF R
  <2>5. \A u \in Topics : R(u)' \in Nat
    <3>1. metrics' \in [Counters -> Nat]
      BY <1>1, <2>1, <2>2, IncType DEF Moves
    <3> QED BY <3>1, CounterNames DEF R
  <2> QED BY <1>2, <1>6, <1>7, <1>8, <2>1, <2>3, <2>4, <2>5, SMTT(40)
      DEF Moves, AtPlace, Deciding
<1>12. CASE TickMove
  <2>1. PICK t \in Topics : Moves("tick", {"dispatch"}, <<"ticks", t>>)
    BY <1>12 DEF TickMove
  <2>2. Kept(0, 0, 0, 0, 0) /\ SameV /\ SameR
    BY <1>5, <2>1, CounterNames DEF Moves
  <2> QED BY <1>2, <1>6, <1>7, <1>8, <2>1, <2>2, SMTT(40) DEF Moves, AtPlace, Deciding
<1>13. CASE DispatchMove
  BY <1>2, <1>4, <1>6, <1>7, <1>8, <1>13, SMTT(40) DEF DispatchMove, AtPlace, Deciding
<1>14. CASE ProposeMove
  <2>1. PICK k \in Kinds :
          Moves("propose", {IF gate = NoGate THEN "allowlist" ELSE "gate"}, <<"proposed", k>>)
    BY <1>14 DEF ProposeMove
  <2>2. Kept(0, 0, 0, 0, 0) /\ SameV /\ SameR
    BY <1>5, <2>1, CounterNames DEF Moves
  <2> QED BY <1>2, <1>6, <1>7, <1>8, <2>1, <2>2, SMTT(40) DEF Moves, AtPlace, Deciding
<1>15. CASE GateMove
  <2>1. PICK v \in Verdicts :
          /\ gate # NoGate
          /\ Moves("gate", {IF v = "Allow" THEN "allowlist" ELSE "deny"}, <<"verdict", v>>)
    BY <1>15 DEF GateMove
  <2>2. Kept(0, 0, 0, 0, 0) /\ SameR
    BY <1>5, <2>1, CounterNames DEF Moves
  <2>3. \A w \in Verdicts : V(w)' = IF w = v THEN V(w) + 1 ELSE V(w)
    <3>1. \A d \in Counters :
            metrics'[d] = IF d = <<"verdict", v>> THEN metrics[d] + 1 ELSE metrics[d]
      BY <1>1, <2>1, CounterNames, IncOne DEF Moves
    <3> QED BY <3>1, CounterNames DEF V
  <2> QED BY <1>2, <1>3, <1>6, <1>7, <1>8, <2>1, <2>2, <2>3, SMTT(40)
      DEF Moves, AtPlace, Deciding
<1>16. CASE DenyMove
  <2>1. PICK k \in Kinds : Moves("deny", {"end", "propose"}, <<"denied", k, "gate">>)
    BY <1>16 DEF DenyMove
  <2>2. Kept(0, 1, 0, 0, 0) /\ SameV /\ SameR
    BY <1>5, <2>1, CounterNames DEF Moves
  <2> QED BY <1>2, <1>6, <1>7, <1>8, <2>1, <2>2, SMTT(40) DEF Moves, AtPlace, Deciding
<1>17. CASE SkipMove
  <2>1. PICK k \in Kinds :
          Moves("allowlist", {"end", "propose"}, <<"denied", k, "mcp_allowlist">>)
    BY <1>17 DEF SkipMove
  <2>2. Kept(0, 0, 1, 0, 0) /\ SameV /\ SameR
    BY <1>5, <2>1, CounterNames DEF Moves
  <2> QED BY <1>2, <1>6, <1>7, <1>8, <2>1, <2>2, SMTT(40) DEF Moves, AtPlace, Deciding
<1>18. CASE ExecuteMove
  BY <1>2, <1>4, <1>6, <1>7, <1>8, <1>18, SMTT(40) DEF ExecuteMove, AtPlace, Deciding
<1>19. CASE ObserveMove
  <2>1. PICK k \in Kinds : Moves("observe", {"allow"}, <<"executeDuration", k>>)
    BY <1>19 DEF ObserveMove
  <2>2. Kept(0, 0, 0, 0, 0) /\ SameV /\ SameR
    BY <1>5, <2>1, CounterNames DEF Moves
  <2> QED BY <1>2, <1>6, <1>7, <1>8, <2>1, <2>2, SMTT(40) DEF Moves, AtPlace, Deciding
<1>20. CASE AllowMove
  <2>1. PICK k \in Kinds : Moves("allow", {"end", "propose"}, <<"allowed", k>>)
    BY <1>20 DEF AllowMove
  <2>2. Kept(1, 0, 0, 0, 0) /\ SameV /\ SameR
    BY <1>5, <2>1, CounterNames DEF Moves
  <2> QED BY <1>2, <1>6, <1>7, <1>8, <2>1, <2>2, SMTT(40) DEF Moves, AtPlace, Deciding
<1>21. CASE EndMove
  <2>1. result \in {"Processed", "Error"}
    BY <1>6, <1>21 DEF EndMove, Moves
  <2>2. Kept(0, 0, 0, 1, 0) /\ SameV /\ SameR
    BY <1>5, <1>21, <2>1, CounterNames DEF EndMove, Moves, Outcomes
  <2> QED BY <1>2, <1>6, <1>7, <1>8, <1>21, <2>1, <2>2, SMTT(40)
      DEF EndMove, Moves, AtPlace, Deciding
<1>22. CASE EndedMove
  <2>1. Kept(0, 0, 0, 0, IF result = "Idle" THEN 0 ELSE 1) /\ SameV /\ SameR
    BY <1>5, <1>8, <1>22, CounterNames DEF EndedMove, Moves, Outcomes
  <2> QED BY <1>2, <1>6, <1>7, <1>8, <1>22, <2>1, SMTT(40)
      DEF EndedMove, Moves, AtPlace, Deciding
<1> QED
  BY StepMoves, <1>9, <1>10, <1>11, <1>12, <1>13, <1>14, <1>15, <1>16, <1>17,
     <1>18, <1>19, <1>20, <1>21, <1>22

LEMMA CountersInit == Init => CountersInv
<1> SUFFICES ASSUME Init PROVE CountersInv
  OBVIOUS
<1>1. /\ \A k \in Kinds : /\ metrics[<<"allowed", k>>] = 0
                          /\ metrics[<<"denied", k, "gate">>] = 0
                          /\ metrics[<<"denied", k, "mcp_allowlist">>] = 0
      /\ \A o \in Outcomes : metrics[<<"steps", o>>] = 0 /\ metrics[<<"stepDuration", o>>] = 0
      /\ \A v \in Verdicts : metrics[<<"verdict", v>>] = 0
      /\ \A t \in Topics : metrics[<<"messages", t>>] = 0
  BY CounterNames DEF Init
<1>2. OverKinds(metrics, "allowed") = 0
  BY <1>1 DEF OverKinds, Kinds
<1>3. DeniedFor(metrics, "gate") = 0 /\ DeniedFor(metrics, "mcp_allowlist") = 0
  BY <1>1 DEF DeniedFor, Kinds
<1>4. EndedSteps(metrics, "steps") = 0 /\ EndedSteps(metrics, "stepDuration") = 0
  BY <1>1 DEF EndedSteps, Outcomes
<1>5. pc = "loop"
  BY DEF Init
<1> QED BY <1>1, <1>2, <1>3, <1>4, <1>5 DEF CountersInv, AtPlace, Verdicts, Deciding

\* No counter ever goes back.
LEMMA StepMonotone ==
  ASSUME TypeOK, [Next]_vars
  PROVE  \A c \in Counters : metrics[c] <= metrics'[c]
<1>1. ASSUME UNCHANGED metrics PROVE \A c \in Counters : metrics[c] <= metrics'[c]
  BY <1>1 DEF TypeOK
<1>2. ASSUME NEW d \in Counters, Inc(d), NEW c \in Counters PROVE metrics[c] <= metrics'[c]
  <2>1. metrics \in [Counters -> Nat] /\ metrics[c] \in Nat
    BY DEF TypeOK
  <2>2. metrics'[c] = IF c = d THEN metrics[c] + 1 ELSE metrics[c]
    BY <1>2, <2>1, IncOne
  <2> QED BY <2>1, <2>2
<1>3. CASE Quiet \/ DispatchMove \/ ExecuteMove
  BY <1>1, <1>3 DEF Quiet, DispatchMove, ExecuteMove
<1>4. CASE \/ IdleMove \/ ReceiveMove \/ TickMove \/ ProposeMove \/ GateMove
           \/ DenyMove \/ SkipMove \/ ObserveMove \/ AllowMove \/ EndMove \/ EndedMove
  <2>1. \E d \in Counters : Inc(d)
    BY <1>4, CounterNames
    DEF IdleMove, ReceiveMove, TickMove, ProposeMove, GateMove, DenyMove, SkipMove,
        ObserveMove, AllowMove, EndMove, EndedMove, Moves, Outcomes, TypeOK
  <2> QED BY <1>2, <2>1
<1> QED BY <1>3, <1>4, StepMoves

-----------------------------------------------------------------------------
(* A page.                                                                 *)

Below(m, n) == \A c \in Counters : m[c] <= n[c]

LEMMA SumsMonotone ==
  ASSUME NEW m \in [Counters -> Nat], NEW n \in [Counters -> Nat], Below(m, n)
  PROVE  /\ OverKinds(m, "allowed") <= OverKinds(n, "allowed")
         /\ \A r \in Reasons : DeniedFor(m, r) <= DeniedFor(n, r)
         /\ \A f \in {"steps", "stepDuration"} : EndedSteps(m, f) <= EndedSteps(n, f)
<1>1. \A c \in Counters : m[c] \in Nat /\ n[c] \in Nat /\ m[c] <= n[c]
  BY DEF Below
<1>2. OverKinds(m, "allowed") <= OverKinds(n, "allowed")
  <2>1. \A k \in Kinds : <<"allowed", k>> \in Counters
    BY CounterNames
  <2> QED BY <1>1, <2>1, SMTT(40) DEF OverKinds, Kinds
<1>3. ASSUME NEW r \in Reasons PROVE DeniedFor(m, r) <= DeniedFor(n, r)
  <2>1. \A k \in Kinds : <<"denied", k, r>> \in Counters
    BY CounterNames DEF Reasons
  <2> QED BY <1>1, <2>1, SMTT(40) DEF DeniedFor, Kinds
<1>4. ASSUME NEW f \in {"steps", "stepDuration"} PROVE EndedSteps(m, f) <= EndedSteps(n, f)
  <2>1. \A o \in Outcomes : <<f, o>> \in Counters
    BY CounterNames
  <2> QED BY <1>1, <2>1, SMTT(40) DEF EndedSteps, Outcomes
<1> QED BY <1>2, <1>3, <1>4

\* What the page shows, or will show at least, of the i-th family.
Seen(i) == IF next = 0 \/ i < next THEN page ELSE metrics

\* The bounds of PageBounds on the families rendered so far.
PageInv ==
  /\ next \in 0..9
  /\ page \in [Counters -> Nat]
  /\ Below(page, metrics)
  /\ \A k \in Kinds : page[<<"allowed", k>>] <= Seen(9)[<<"executeDuration", k>>]
  /\ DeniedFor(page, "gate") <=
       Seen(5)[<<"verdict", "Deny">>] + Seen(5)[<<"verdict", "Inconclusive">>]
  /\ gate # NoGate =>
       OverKinds(page, "allowed") + DeniedFor(page, "mcp_allowlist")
         <= Seen(5)[<<"verdict", "Allow">>]
  /\ \A t \in Topics : page[<<"messages", t>>] <= EndedSteps(Seen(7), "steps") + 1
  /\ EndedSteps(page, "steps") <= EndedSteps(Seen(8), "stepDuration") + 1

\* The same of the counters themselves.
LEMMA CountersBound ==
  ASSUME TypeOK, Accounting, CountersInv
  PROVE  /\ \A k \in Kinds : metrics[<<"allowed", k>>] <= metrics[<<"executeDuration", k>>]
         /\ DeniedFor(metrics, "gate") <=
              metrics[<<"verdict", "Deny">>] + metrics[<<"verdict", "Inconclusive">>]
         /\ gate # NoGate =>
              OverKinds(metrics, "allowed") + DeniedFor(metrics, "mcp_allowlist")
                <= metrics[<<"verdict", "Allow">>]
         /\ \A t \in Topics :
              metrics[<<"messages", t>>] <= EndedSteps(metrics, "steps") + 1
         /\ EndedSteps(metrics, "steps") <= EndedSteps(metrics, "stepDuration") + 1
<1>1. metrics \in [Counters -> Nat]
  BY DEF TypeOK
<1>2. ASSUME NEW k \in Kinds
      PROVE  metrics[<<"allowed", k>>] <= metrics[<<"executeDuration", k>>]
  <2>1. /\ <<"allowed", k>> \in Counters
        /\ metrics[<<"executeDuration", k>>] =
             metrics[<<"allowed", k>>] + InFlight(k, {"allow"})
    BY CounterNames DEF Accounting
  <2>2. InFlight(k, {"allow"}) \in {0, 1}
    BY DEF InFlight
  <2> QED BY <1>1, <2>1, <2>2
<1>3. /\ OverKinds(metrics, "allowed") \in Nat
      /\ DeniedFor(metrics, "gate") \in Nat /\ DeniedFor(metrics, "mcp_allowlist") \in Nat
      /\ EndedSteps(metrics, "steps") \in Nat /\ EndedSteps(metrics, "stepDuration") \in Nat
      /\ \A v \in Verdicts : metrics[<<"verdict", v>>] \in Nat
      /\ \A t \in Topics : metrics[<<"messages", t>>] \in Nat
  BY <1>1, SumTypes
<1>4. \A labels : AtPlace(labels) \in {0, 1}
  BY DEF AtPlace
<1>5. DeniedFor(metrics, "gate") + AtPlace({"deny"}) =
        metrics[<<"verdict", "Deny">>] + metrics[<<"verdict", "Inconclusive">>]
  BY DEF CountersInv
<1>6. gate # NoGate =>
        OverKinds(metrics, "allowed") + DeniedFor(metrics, "mcp_allowlist")
          + AtPlace({"allowlist", "observe", "allow"})
          = metrics[<<"verdict", "Allow">>]
  BY DEF CountersInv
<1>7. \A t \in Topics :
        metrics[<<"messages", t>>] + AtPlace({"loop", "ended"})
          <= EndedSteps(metrics, "steps") + 1
  BY DEF CountersInv
<1>8. \/ EndedSteps(metrics, "steps") = EndedSteps(metrics, "stepDuration") + 1
      \/ EndedSteps(metrics, "steps") = EndedSteps(metrics, "stepDuration") + 0
  BY DEF CountersInv
<1>9. DeniedFor(metrics, "gate") <=
        metrics[<<"verdict", "Deny">>] + metrics[<<"verdict", "Inconclusive">>]
  BY <1>3, <1>4, <1>5
<1>10. gate # NoGate =>
         OverKinds(metrics, "allowed") + DeniedFor(metrics, "mcp_allowlist")
           <= metrics[<<"verdict", "Allow">>]
  BY <1>3, <1>4, <1>6
<1>11. ASSUME NEW t \in Topics
       PROVE  metrics[<<"messages", t>>] <= EndedSteps(metrics, "steps") + 1
  <2>1. /\ metrics[<<"messages", t>>] \in Nat
        /\ metrics[<<"messages", t>>] + AtPlace({"loop", "ended"})
             <= EndedSteps(metrics, "steps") + 1
    BY <1>3, <1>7
  <2> QED BY <1>3, <1>4, <2>1
<1>12. EndedSteps(metrics, "steps") <= EndedSteps(metrics, "stepDuration") + 1
  BY <1>3, <1>8
<1> QED BY <1>2, <1>9, <1>10, <1>11, <1>12

\* While a page is rendered the runner goes on: what the page will show of the
\* families to come only grows.
LEMMA RunnerKeepsPage ==
  ASSUME PageInv, metrics \in [Counters -> Nat], metrics' \in [Counters -> Nat],
         Below(metrics, metrics'), UNCHANGED <<next, page, gate>>
  PROVE  PageInv'
<1>1. \A i : Seen(i) \in [Counters -> Nat] /\ Seen(i)' \in [Counters -> Nat]
  BY DEF PageInv, Seen
<1>2. \A i : Below(Seen(i), Seen(i)')
  BY DEF PageInv, Seen, Below
<1>3. Below(page, metrics')
  BY DEF PageInv, Below
<1>4. ASSUME NEW k \in Kinds
      PROVE  page[<<"allowed", k>>] <= Seen(9)'[<<"executeDuration", k>>]
  <2>1. <<"allowed", k>> \in Counters /\ <<"executeDuration", k>> \in Counters
    BY CounterNames
  <2>2. /\ page[<<"allowed", k>>] <= Seen(9)[<<"executeDuration", k>>]
        /\ Seen(9)[<<"executeDuration", k>>] <= Seen(9)'[<<"executeDuration", k>>]
        /\ page[<<"allowed", k>>] \in Nat
    BY <1>2, <2>1 DEF PageInv, Below
  <2>3. /\ Seen(9)[<<"executeDuration", k>>] \in Nat
        /\ Seen(9)'[<<"executeDuration", k>>] \in Nat
    BY <1>1, <2>1
  <2> HIDE DEF Seen
  <2> QED BY <2>2, <2>3
<1>5. \A v \in Verdicts : /\ Seen(5)[<<"verdict", v>>] \in Nat
                         /\ Seen(5)'[<<"verdict", v>>] \in Nat
                         /\ Seen(5)[<<"verdict", v>>] <= Seen(5)'[<<"verdict", v>>]
  BY <1>1, <1>2, CounterNames DEF Below
<1>6. /\ OverKinds(page, "allowed") \in Nat
      /\ DeniedFor(page, "gate") \in Nat /\ DeniedFor(page, "mcp_allowlist") \in Nat
      /\ EndedSteps(page, "steps") \in Nat
      /\ \A t \in Topics : page[<<"messages", t>>] \in Nat
  BY SumTypes DEF PageInv
<1>7. DeniedFor(page, "gate") <=
        Seen(5)'[<<"verdict", "Deny">>] + Seen(5)'[<<"verdict", "Inconclusive">>]
  <2>1. DeniedFor(page, "gate") <=
          Seen(5)[<<"verdict", "Deny">>] + Seen(5)[<<"verdict", "Inconclusive">>]
    BY DEF PageInv
  <2> QED BY <1>5, <1>6, <2>1, SMTT(40) DEF Verdicts
<1>8. gate # NoGate =>
        OverKinds(page, "allowed") + DeniedFor(page, "mcp_allowlist")
          <= Seen(5)'[<<"verdict", "Allow">>]
  <2>1. gate # NoGate =>
          OverKinds(page, "allowed") + DeniedFor(page, "mcp_allowlist")
            <= Seen(5)[<<"verdict", "Allow">>]
    BY DEF PageInv
  <2> QED BY <1>5, <1>6, <2>1, SMTT(40) DEF Verdicts
<1>9. /\ \A i : EndedSteps(Seen(i), "steps") \in Nat
      /\ \A i : EndedSteps(Seen(i)', "steps") \in Nat
      /\ \A i : EndedSteps(Seen(i), "stepDuration") \in Nat
      /\ \A i : EndedSteps(Seen(i)', "stepDuration") \in Nat
  BY <1>1, SumTypes
<1>10. \A i : /\ EndedSteps(Seen(i), "steps") <= EndedSteps(Seen(i)', "steps")
              /\ EndedSteps(Seen(i), "stepDuration") <= EndedSteps(Seen(i)', "stepDuration")
  BY <1>1, <1>2, SumsMonotone
<1>11. ASSUME NEW t \in Topics
       PROVE  page[<<"messages", t>>] <= EndedSteps(Seen(7)', "steps") + 1
  <2>1. page[<<"messages", t>>] <= EndedSteps(Seen(7), "steps") + 1
    BY DEF PageInv
  <2> QED BY <1>6, <1>9, <1>10, <2>1
<1>12. EndedSteps(page, "steps") <= EndedSteps(Seen(8)', "stepDuration") + 1
  <2>1. EndedSteps(page, "steps") <= EndedSteps(Seen(8), "stepDuration") + 1
    BY DEF PageInv
  <2> QED BY <1>6, <1>9, <1>10, <2>1
<1>13. next' \in 0..9 /\ page' \in [Counters -> Nat] /\ page' = page /\ gate' = gate
  BY DEF PageInv
<1> QED BY <1>3, <1>4, <1>7, <1>8, <1>11, <1>12, <1>13 DEF PageInv

\* A page begins blank.
LEMMA BeginKeepsPage ==
  ASSUME TypeOK, Accounting, CountersInv, BeginScrape
  PROVE  PageInv'
<1>1. /\ UNCHANGED <<metrics, gate>> /\ next' = 1 /\ page' = Blank
      /\ metrics \in [Counters -> Nat]
  BY DEF BeginScrape, vars, TypeOK
<1>2. \A i \in 2..9 : Seen(i)' = metrics
  BY <1>1 DEF Seen
<1>3. page' \in [Counters -> Nat] /\ \A c \in Counters : page'[c] = 0
  BY <1>1 DEF Blank
<1>4. Below(page', metrics')
  BY <1>1, <1>3 DEF Below
<1>5. /\ \A t \in Topics : page'[<<"messages", t>>] = 0
      /\ \A k \in Kinds : page'[<<"allowed", k>>] <= metrics[<<"executeDuration", k>>]
  <2>1. ASSUME NEW k \in Kinds
        PROVE  page'[<<"allowed", k>>] = 0 /\ metrics[<<"executeDuration", k>>] \in Nat
    BY <1>1, <1>3, CounterNames
  <2>2. \A t \in Topics : page'[<<"messages", t>>] = 0
    BY <1>3, CounterNames
  <2> QED BY <2>1, <2>2
<1>6. /\ OverKinds(page', "allowed") = 0
      /\ DeniedFor(page', "gate") = 0 /\ DeniedFor(page', "mcp_allowlist") = 0
      /\ EndedSteps(page', "steps") = 0
  <2>1. /\ \A k \in Kinds : /\ page'[<<"allowed", k>>] = 0
                            /\ page'[<<"denied", k, "gate">>] = 0
                            /\ page'[<<"denied", k, "mcp_allowlist">>] = 0
        /\ \A o \in Outcomes : page'[<<"steps", o>>] = 0
    BY <1>3, CounterNames
  <2> QED BY <2>1 DEF OverKinds, DeniedFor, EndedSteps, Kinds, Outcomes
<1>7. /\ \A v \in Verdicts : metrics[<<"verdict", v>>] \in Nat
      /\ EndedSteps(metrics, "steps") \in Nat /\ EndedSteps(metrics, "stepDuration") \in Nat
  BY <1>1, SumTypes
<1>8. /\ Seen(9)' = metrics /\ Seen(8)' = metrics /\ Seen(7)' = metrics /\ Seen(5)' = metrics
  BY <1>2
<1> QED BY <1>1, <1>3, <1>4, <1>5, <1>6, <1>7, <1>8, SMTT(40) DEF PageInv, Verdicts

LEMMA FamilyNames ==
  /\ Len(Families) = 9
  /\ Families[1] = "messages" /\ Families[2] = "proposed" /\ Families[3] = "allowed"
  /\ Families[4] = "denied" /\ Families[5] = "verdict" /\ Families[6] = "ticks"
  /\ Families[7] = "steps" /\ Families[8] = "stepDuration"
  /\ Families[9] = "executeDuration"
BY DEF Families

\* Rendering a family changes what the page shows of that family, and nothing
\* of what is to be seen of any.
LEMMA RenderShows ==
  ASSUME PageInv, metrics \in [Counters -> Nat], Render
  PROVE  /\ next \in 1..9 /\ next' \in 0..9 /\ UNCHANGED <<metrics, gate>>
         /\ page' \in [Counters -> Nat]
         /\ \A c \in Counters :
              page'[c] = IF c[1] = Families[next] THEN metrics[c] ELSE page[c]
         /\ \A i \in {5, 7, 8, 9}, c \in Counters :
              c[1] = Families[i] => Seen(i)'[c] = Seen(i)[c]
<1>1. /\ next \in 1..9 /\ UNCHANGED <<metrics, gate>>
      /\ next' = IF next = 9 THEN 0 ELSE next + 1
      /\ page' = [c \in Counters |-> IF c[1] = Families[next] THEN metrics[c] ELSE page[c]]
  BY FamilyNames DEF PageInv, Render, vars
<1>2. \A c \in Counters : page'[c] = IF c[1] = Families[next] THEN metrics[c] ELSE page[c]
  BY <1>1
<1>3. page' \in [Counters -> Nat]
  BY <1>1 DEF PageInv
<1>4. ASSUME NEW i \in {5, 7, 8, 9}, NEW c \in Counters, c[1] = Families[i]
      PROVE  Seen(i)'[c] = Seen(i)[c]
  <2>1. CASE next < i
    BY <1>1, <2>1 DEF Seen
  <2>2. CASE next = i
    BY <1>1, <1>2, <1>4, <2>2 DEF Seen
  <2>3. CASE next > i
    <3>1. Families[next] # Families[i]
      BY <1>1, <2>3, FamilyNames
    <3> QED BY <1>1, <1>2, <1>4, <2>3, <3>1 DEF Seen
  <2> QED BY <1>1, <2>1, <2>2, <2>3
<1>5. next' \in 0..9
  BY <1>1
<1> QED BY <1>1, <1>2, <1>3, <1>4, <1>5

LEMMA RenderKeepsPage ==
  ASSUME TypeOK, Accounting, CountersInv, PageInv, Render
  PROVE  PageInv'
<1>1. /\ metrics \in [Counters -> Nat] /\ page \in [Counters -> Nat]
      /\ \A c \in Counters : page[c] \in Nat /\ metrics[c] \in Nat /\ page[c] <= metrics[c]
  BY DEF TypeOK, PageInv, Below
<1>2. /\ next \in 1..9 /\ next' \in 0..9 /\ UNCHANGED <<metrics, gate>>
      /\ page' \in [Counters -> Nat]
      /\ \A c \in Counters :
           page'[c] = IF c[1] = Families[next] THEN metrics[c] ELSE page[c]
      /\ \A i \in {5, 7, 8, 9}, c \in Counters :
           c[1] = Families[i] => Seen(i)'[c] = Seen(i)[c]
  BY <1>1, RenderShows
<1>3. Below(page', metrics')
  BY <1>1, <1>2 DEF Below
\* Of a family that is not the one rendered the page shows what it did.
<1>4. /\ next # 1 => \A t \in Topics : page'[<<"messages", t>>] = page[<<"messages", t>>]
      /\ next # 3 => \A k \in Kinds : page'[<<"allowed", k>>] = page[<<"allowed", k>>]
      /\ next # 4 => \A k \in Kinds, r \in Reasons :
                       page'[<<"denied", k, r>>] = page[<<"denied", k, r>>]
      /\ next # 7 => \A o \in Outcomes : page'[<<"steps", o>>] = page[<<"steps", o>>]
  <2>1. ASSUME next # 1, NEW t \in Topics
        PROVE  page'[<<"messages", t>>] = page[<<"messages", t>>]
    <3>1. <<"messages", t>> \in Counters /\ <<"messages", t>>[1] = "messages"
      BY CounterNames DEF Reasons
    <3>2. Families[next] # "messages"
      BY <1>2, <2>1, FamilyNames
    <3> QED BY <1>2, <3>1, <3>2
  <2>2. ASSUME next # 3, NEW k \in Kinds
        PROVE  page'[<<"allowed", k>>] = page[<<"allowed", k>>]
    <3>1. <<"allowed", k>> \in Counters /\ <<"allowed", k>>[1] = "allowed"
      BY CounterNames DEF Reasons
    <3>2. Families[next] # "allowed"
      BY <1>2, <2>2, FamilyNames
    <3> QED BY <1>2, <3>1, <3>2
  <2>3. ASSUME next # 4, NEW k \in Kinds, NEW r \in Reasons
        PROVE  page'[<<"denied", k, r>>] = page[<<"denied", k, r>>]
    <3>1. <<"denied", k, r>> \in Counters /\ <<"denied", k, r>>[1] = "denied"
      BY CounterNames DEF Reasons
    <3>2. Families[next] # "denied"
      BY <1>2, <2>3, FamilyNames
    <3> QED BY <1>2, <3>1, <3>2
  <2>4. ASSUME next # 7, NEW o \in Outcomes
        PROVE  page'[<<"steps", o>>] = page[<<"steps", o>>]
    <3>1. <<"steps", o>> \in Counters /\ <<"steps", o>>[1] = "steps"
      BY CounterNames DEF Reasons
    <3>2. Families[next] # "steps"
      BY <1>2, <2>4, FamilyNames
    <3> QED BY <1>2, <3>1, <3>2
  <2> QED BY <2>1, <2>2, <2>3, <2>4
<1>5. /\ next = 1 => \A t \in Topics : page'[<<"messages", t>>] = metrics[<<"messages", t>>]
      /\ next = 3 => \A k \in Kinds : page'[<<"allowed", k>>] = metrics[<<"allowed", k>>]
      /\ next = 4 => \A k \in Kinds, r \in Reasons :
                       page'[<<"denied", k, r>>] = metrics[<<"denied", k, r>>]
      /\ next = 7 => \A o \in Outcomes : page'[<<"steps", o>>] = metrics[<<"steps", o>>]
  <2>1. ASSUME next = 1, NEW t \in Topics
        PROVE  page'[<<"messages", t>>] = metrics[<<"messages", t>>]
    <3>1. <<"messages", t>> \in Counters /\ <<"messages", t>>[1] = "messages"
      BY CounterNames DEF Reasons
    <3>2. Families[next] = "messages"
      BY <1>2, <2>1, FamilyNames
    <3> QED BY <1>2, <3>1, <3>2
  <2>2. ASSUME next = 3, NEW k \in Kinds
        PROVE  page'[<<"allowed", k>>] = metrics[<<"allowed", k>>]
    <3>1. <<"allowed", k>> \in Counters /\ <<"allowed", k>>[1] = "allowed"
      BY CounterNames DEF Reasons
    <3>2. Families[next] = "allowed"
      BY <1>2, <2>2, FamilyNames
    <3> QED BY <1>2, <3>1, <3>2
  <2>3. ASSUME next = 4, NEW k \in Kinds, NEW r \in Reasons
        PROVE  page'[<<"denied", k, r>>] = metrics[<<"denied", k, r>>]
    <3>1. <<"denied", k, r>> \in Counters /\ <<"denied", k, r>>[1] = "denied"
      BY CounterNames DEF Reasons
    <3>2. Families[next] = "denied"
      BY <1>2, <2>3, FamilyNames
    <3> QED BY <1>2, <3>1, <3>2
  <2>4. ASSUME next = 7, NEW o \in Outcomes
        PROVE  page'[<<"steps", o>>] = metrics[<<"steps", o>>]
    <3>1. <<"steps", o>> \in Counters /\ <<"steps", o>>[1] = "steps"
      BY CounterNames DEF Reasons
    <3>2. Families[next] = "steps"
      BY <1>2, <2>4, FamilyNames
    <3> QED BY <1>2, <3>1, <3>2
  <2> QED BY <2>1, <2>2, <2>3, <2>4
<1>6. /\ next # 3 => OverKinds(page', "allowed") = OverKinds(page, "allowed")
      /\ next = 3 => OverKinds(page', "allowed") = OverKinds(metrics, "allowed")
  BY <1>4, <1>5 DEF OverKinds, Kinds
<1>7. ASSUME NEW r \in Reasons
      PROVE  /\ next # 4 => DeniedFor(page', r) = DeniedFor(page, r)
             /\ next = 4 => DeniedFor(page', r) = DeniedFor(metrics, r)
  BY <1>4, <1>5 DEF DeniedFor, Kinds
<1>8. /\ next # 7 => EndedSteps(page', "steps") = EndedSteps(page, "steps")
      /\ next = 7 => EndedSteps(page', "steps") = EndedSteps(metrics, "steps")
  BY <1>4, <1>5 DEF EndedSteps, Outcomes
\* What is to be seen of a family stays, and is the counters before its turn.
<1>9. /\ \A k \in Kinds : Seen(9)'[<<"executeDuration", k>>] = Seen(9)[<<"executeDuration", k>>]
      /\ \A v \in Verdicts : Seen(5)'[<<"verdict", v>>] = Seen(5)[<<"verdict", v>>]
  BY <1>2, FamilyNames, CounterNames
<1>10. /\ EndedSteps(Seen(7)', "steps") = EndedSteps(Seen(7), "steps")
       /\ EndedSteps(Seen(8)', "stepDuration") = EndedSteps(Seen(8), "stepDuration")
  <2>1. \A o \in Outcomes : /\ Seen(7)'[<<"steps", o>>] = Seen(7)[<<"steps", o>>]
                            /\ Seen(8)'[<<"stepDuration", o>>] = Seen(8)[<<"stepDuration", o>>]
    BY <1>2, FamilyNames, CounterNames
  <2> QED BY <2>1 DEF EndedSteps, Outcomes
<1>11. /\ next < 9 => Seen(9) = metrics
       /\ next < 5 => Seen(5) = metrics
       /\ next < 7 => Seen(7) = metrics
       /\ next < 8 => Seen(8) = metrics
  BY <1>2 DEF Seen
<1>12. /\ OverKinds(page, "allowed") <= OverKinds(metrics, "allowed")
       /\ \A r \in Reasons : DeniedFor(page, r) <= DeniedFor(metrics, r)
  BY <1>1, SumsMonotone DEF Below
<1>13. /\ \A m \in {page, metrics} :
            /\ OverKinds(m, "allowed") \in Nat
            /\ DeniedFor(m, "gate") \in Nat /\ DeniedFor(m, "mcp_allowlist") \in Nat
       /\ \A v \in Verdicts : metrics[<<"verdict", v>>] \in Nat
  BY <1>1, SumTypes
<1>14. /\ \A k \in Kinds : metrics[<<"allowed", k>>] <= metrics[<<"executeDuration", k>>]
       /\ DeniedFor(metrics, "gate") <=
            metrics[<<"verdict", "Deny">>] + metrics[<<"verdict", "Inconclusive">>]
       /\ gate # NoGate =>
            OverKinds(metrics, "allowed") + DeniedFor(metrics, "mcp_allowlist")
              <= metrics[<<"verdict", "Allow">>]
       /\ \A t \in Topics : metrics[<<"messages", t>>] <= EndedSteps(metrics, "steps") + 1
       /\ EndedSteps(metrics, "steps") <= EndedSteps(metrics, "stepDuration") + 1
  BY CountersBound
<1>15. \A k \in Kinds : page'[<<"allowed", k>>] <= Seen(9)'[<<"executeDuration", k>>]
  <2>1. CASE next = 3
    <3> SUFFICES ASSUME NEW k \in Kinds
                 PROVE  page'[<<"allowed", k>>] <= Seen(9)'[<<"executeDuration", k>>]
      OBVIOUS
    <3>1. page'[<<"allowed", k>>] = metrics[<<"allowed", k>>]
      BY <1>5, <2>1
    <3>2. Seen(9)'[<<"executeDuration", k>>] = metrics[<<"executeDuration", k>>]
      BY <1>9, <1>11, <2>1
    <3> QED BY <1>14, <3>1, <3>2
  <2>2. CASE next # 3
    BY <1>4, <1>9, <2>2 DEF PageInv
  <2> QED BY <2>1, <2>2
<1>16. DeniedFor(page', "gate") <=
         Seen(5)'[<<"verdict", "Deny">>] + Seen(5)'[<<"verdict", "Inconclusive">>]
  <2>1. CASE next = 4
    BY <1>7, <1>9, <1>11, <1>14, <2>1 DEF Reasons, Verdicts
  <2>2. CASE next # 4
    BY <1>7, <1>9, <2>2 DEF PageInv, Reasons, Verdicts
  <2> QED BY <2>1, <2>2
<1>17. ASSUME gate # NoGate
       PROVE  OverKinds(page', "allowed") + DeniedFor(page', "mcp_allowlist")
                <= Seen(5)'[<<"verdict", "Allow">>]
  <2>1. CASE next \in {3, 4}
    <3>1. /\ OverKinds(page', "allowed") <= OverKinds(metrics, "allowed")
          /\ DeniedFor(page', "mcp_allowlist") <= DeniedFor(metrics, "mcp_allowlist")
      BY <1>6, <1>7, <1>12, <1>13, <2>1 DEF Reasons
    <3>2. /\ OverKinds(page', "allowed") \in Nat /\ DeniedFor(page', "mcp_allowlist") \in Nat
      BY <1>6, <1>7, <1>13, <2>1 DEF Reasons
    <3>3. Seen(5)'[<<"verdict", "Allow">>] = metrics[<<"verdict", "Allow">>]
      BY <1>9, <1>11, <2>1 DEF Verdicts
    <3>4. OverKinds(metrics, "allowed") + DeniedFor(metrics, "mcp_allowlist")
            <= metrics[<<"verdict", "Allow">>]
      BY <1>14, <1>17
    <3> QED BY <1>13, <3>1, <3>2, <3>3, <3>4 DEF Verdicts
  <2>2. CASE next \notin {3, 4}
    BY <1>6, <1>7, <1>9, <1>17, <2>2 DEF PageInv, Reasons, Verdicts
  <2> QED BY <2>1, <2>2
<1>18. \A t \in Topics : page'[<<"messages", t>>] <= EndedSteps(Seen(7)', "steps") + 1
  <2>1. CASE next = 1
    <3> SUFFICES ASSUME NEW t \in Topics
                 PROVE  page'[<<"messages", t>>] <= EndedSteps(Seen(7)', "steps") + 1
      OBVIOUS
    <3>1. page'[<<"messages", t>>] = metrics[<<"messages", t>>]
      BY <1>5, <2>1
    <3>2. EndedSteps(Seen(7)', "steps") = EndedSteps(metrics, "steps")
      BY <1>10, <1>11, <2>1
    <3> QED BY <1>14, <3>1, <3>2
  <2>2. CASE next # 1
    BY <1>4, <1>10, <2>2 DEF PageInv
  <2> QED BY <2>1, <2>2
<1>19. EndedSteps(page', "steps") <= EndedSteps(Seen(8)', "stepDuration") + 1
  <2>1. CASE next = 7
    BY <1>8, <1>10, <1>11, <1>14, <2>1
  <2>2. CASE next # 7
    BY <1>8, <1>10, <2>2 DEF PageInv
  <2> QED BY <2>1, <2>2
<1> QED BY <1>2, <1>3, <1>15, <1>16, <1>17, <1>18, <1>19 DEF PageInv

-----------------------------------------------------------------------------
ScrapeInv == TypeOK /\ Accounting /\ CountersInv /\ PageInv

LEMMA ScrapeInvInit == ScrapeInit => ScrapeInv
<1> SUFFICES ASSUME ScrapeInit PROVE ScrapeInv
  OBVIOUS
<1>1. TypeOK /\ Accounting /\ CountersInv
  BY TypeInit, AccountingInit, CountersInit DEF ScrapeInit
<1>2. next = 0 /\ page \in [Counters -> Nat] /\ \A c \in Counters : page[c] = 0
  BY DEF ScrapeInit, Blank
<1>3. page = metrics
  BY DEF ScrapeInit, Init, Blank
<1>4. \A i : Seen(i) = metrics
  BY <1>3 DEF Seen
<1>5. Below(page, metrics)
  BY <1>2, <1>3 DEF Below
<1>6. PageInv
  BY <1>1, <1>2, <1>3, <1>4, <1>5, CountersBound DEF PageInv
<1> QED BY <1>1, <1>6 DEF ScrapeInv

LEMMA ScrapeInvStep == ScrapeInv /\ [ScrapeNext]_<<vars, scrapeVars>> => ScrapeInv'
<1> SUFFICES ASSUME ScrapeInv, [ScrapeNext]_<<vars, scrapeVars>> PROVE ScrapeInv'
  OBVIOUS
<1>1. TypeOK /\ Accounting /\ CountersInv /\ PageInv
  BY DEF ScrapeInv
<1>2. [Next]_vars
  BY DEF ScrapeNext, BeginScrape, Render
<1>3. TypeOK' /\ Accounting' /\ CountersInv'
  BY <1>1, <1>2, TypeStep, AccountingStep, CountersStep
<1>4. CASE UNCHANGED scrapeVars
  <2>1. Below(metrics, metrics') /\ UNCHANGED <<next, page, gate>>
    BY <1>1, <1>2, <1>4, StepMonotone, StepMoves DEF Below, scrapeVars
  <2>2. metrics \in [Counters -> Nat] /\ metrics' \in [Counters -> Nat]
    BY <1>1, <1>3 DEF TypeOK
  <2> QED BY <1>1, <1>3, <2>1, <2>2, RunnerKeepsPage DEF ScrapeInv
<1>5. CASE BeginScrape
  BY <1>1, <1>3, <1>5, BeginKeepsPage DEF ScrapeInv
<1>6. CASE Render
  BY <1>1, <1>3, <1>6, RenderKeepsPage DEF ScrapeInv
<1> QED BY <1>4, <1>5, <1>6 DEF ScrapeNext

\* A page of GET /metrics never shows more than was counted, and what it shows
\* of one family bounds what it shows of another, however long the rendering
\* takes and whatever the runner does meanwhile (metrics.rs:307-323).
THEOREM PageBoundsHold == ScrapeSpec => []PageBounds
<1>1. ScrapeInv => PageBounds
  <2> SUFFICES ASSUME PageInv PROVE PageBounds
    BY DEF ScrapeInv
  <2>1. next = 0 => \A i : Seen(i) = page
    BY DEF Seen
  <2> QED BY <2>1 DEF PageInv, PageBounds, Below
<1> QED BY <1>1, ScrapeInvInit, ScrapeInvStep, PTL DEF ScrapeSpec

-----------------------------------------------------------------------------
(* soft-replay on a runner's trace.                                        *)

LEMMA NodesShape ==
  ASSUME TypeOK
  PROVE  /\ DOMAIN Nodes = 1..Len(trace)
         /\ DOMAIN Nodes = DOMAIN trace
         /\ Len(trace) \in Nat
         /\ \A i \in DOMAIN trace : Nodes[i] = AsNode(trace[i])
BY LenProperties DEF Nodes, TypeOK

LEMMA ScanFinite ==
  ASSUME TypeOK, NEW S, S \subseteq DOMAIN Nodes
  PROVE  IsFiniteSet(S) /\ Cardinality(S) \in Nat
<1>1. IsFiniteSet(1..Len(trace))
  BY NodesShape, FS_Interval
<1> QED BY <1>1, NodesShape, FS_Subset, FS_CardinalityType

LEMMA NodeOfEvent ==
  ASSUME NEW e
  PROVE  /\ AsNode(e).target = e.event
         /\ e.event = "gate.verdict" /\ e.verdict = "Allow"
              => VerdictKind(AsNode(e)) = "allow"
<1>1. AsNode(e).target = e.event
  BY DEF AsNode
<1>2. ASSUME e.event = "gate.verdict", e.verdict = "Allow"
      PROVE  VerdictKind(AsNode(e)) = "allow"
  <2>1. AsNode(e).shape = "object" /\ AsNode(e).verdict = "allow"
    BY <1>2 DEF AsNode, VerdictName
  <2> QED BY <2>1 DEF VerdictKind
<1> QED BY <1>1, <1>2

LEMMA CleanTrace == TypeOK /\ VerdictBeforeEffect => NeverViolates
<1> SUFFICES ASSUME TypeOK, VerdictBeforeEffect PROVE NeverViolates
  OBVIOUS
<1> DEFINE Exec == TargetAt(Nodes, "action.executed")
           Allowed == VerdictAt(Nodes, "allow")
           Given == TargetAt(Nodes, "gate.verdict")
<1>1. CASE gate = NoGate
  <2>1. Given = {}
    BY SMTT(40), <1>1, NodesShape, NodeOfEvent DEF TargetAt, VerdictBeforeEffect
  <2>2. /\ VerdictAt(Nodes, "allow") = {}
        /\ VerdictAt(Nodes, "deny") = {}
        /\ VerdictAt(Nodes, "inconclusive") = {}
    BY <2>1 DEF VerdictAt
  <2> QED BY <2>2, FS_EmptySet DEF NeverViolates, HasViolation, IsGated, ScanTrace
<1>2. CASE gate # NoGate
  <2> DEFINE f == [i \in Exec |-> i - 1]
  <2>1. /\ Exec \subseteq DOMAIN Nodes
        /\ Allowed \subseteq DOMAIN Nodes
    BY DEF TargetAt, VerdictAt
  <2>2. ASSUME NEW i \in Exec
        PROVE  /\ i \in Nat /\ i > 1
               /\ i - 1 \in Allowed
    <3>1. /\ i \in DOMAIN trace /\ i \in 1..Len(trace)
          /\ trace[i].event = "action.executed"
      BY NodesShape, NodeOfEvent DEF TargetAt
    <3>2. i > 1 /\ trace[i - 1] = Verdict(trace[i].action, "Allow")
      BY <1>2, <3>1 DEF VerdictBeforeEffect, Ready
    <3>3. i - 1 \in DOMAIN trace
      BY <3>1, <3>2, NodesShape
    <3>4. /\ trace[i - 1].event = "gate.verdict"
          /\ trace[i - 1].verdict = "Allow"
      BY <3>2 DEF Verdict
    <3>5. /\ Nodes[i - 1].target = "gate.verdict"
          /\ VerdictKind(Nodes[i - 1]) = "allow"
      BY <3>3, <3>4, NodesShape, NodeOfEvent
    <3> QED BY <3>1, <3>2, <3>3, <3>5, NodesShape DEF VerdictAt, TargetAt
  <2>3. f \in Injection(Exec, Allowed)
    BY <2>2 DEF Injection, IsInjective
  <2>4. Cardinality(Exec) <= Cardinality(Allowed)
    BY <2>1, <2>3, ScanFinite, FS_Injection
  <2>5. Cardinality(Exec) \in Nat /\ Cardinality(Allowed) \in Nat
    BY <2>1, ScanFinite
  <2> QED BY <2>4, <2>5 DEF NeverViolates, HasViolation, ScanTrace
<1> QED BY <1>1, <1>2

\* has_violation is false of what a runner records, at every moment.
THEOREM NeverViolatesHolds == Spec => []NeverViolates
BY CleanTrace, TypeCorrect, VerdictBeforeEffectHolds, PTL
-----------------------------------------------------------------------------
(* A runner is a gated agent.                                              *)

LEMMA PolicyMeans ==
  ASSUME NEW s \in States, NEW a \in Actions
  PROVE  <<s, a>> \in Policy <=> Permitted(gate, s, a)
BY DEF Policy

LEMMA InboxType ==
  ASSUME TypeOK
  PROVE  /\ InHand \in Seq(Messages)
         /\ Inbox \in Seq(Messages)
         /\ pc \notin {"tick", "dispatch"} => Inbox = mailbox
<1>1. InHand \in Seq(Messages)
  BY DEF InHand, TypeOK
<1>2. Inbox \in Seq(Messages)
  BY <1>1, ConcatProperties DEF Inbox, TypeOK
<1>3. pc \notin {"tick", "dispatch"} => Inbox = mailbox
  BY ConcatEmptySeq DEF Inbox, InHand, TypeOK
<1> QED BY <1>1, <1>2, <1>3

\* A message in hand is the first of the inbox.
LEMMA InboxPop ==
  ASSUME NEW m \in Messages, NEW q \in Seq(Messages)
  PROVE  /\ <<m>> \o q # <<>>
         /\ Tail(<<m>> \o q) = q
         /\ q # <<>> => <<Head(q)>> \o Tail(q) = q
<1>1. <<m>> \in Seq(Messages) /\ Len(<<m>>) = 1
  OBVIOUS
<1>2. Len(<<m>> \o q) = Len(q) + 1 /\ <<m>> \o q \in Seq(Messages)
  BY <1>1, ConcatProperties, LenProperties
<1>3. <<m>> \o q # <<>>
  BY <1>2, LenProperties, EmptySeq
<1>4. Tail(<<m>> \o q) = q
  <2>1. /\ Tail(<<m>> \o q) \in Seq(Messages)
        /\ Len(Tail(<<m>> \o q)) = Len(q)
        /\ \A i \in 1..Len(q) : Tail(<<m>> \o q)[i] = (<<m>> \o q)[i + 1]
    BY <1>2, <1>3, HeadTailProperties, LenProperties
  <2>2. \A i \in 1..Len(q) : (<<m>> \o q)[i + 1] = q[i]
    BY <1>1, ConcatProperties, LenProperties
  <2> QED BY <2>1, <2>2, SeqEqual
<1>5. ASSUME q # <<>> PROVE <<Head(q)>> \o Tail(q) = q
  <2>1. /\ Len(q) \in Nat /\ Len(q) # 0
        /\ 1 \in 1..Len(q) /\ Len(q) \in 1..Len(q)
    BY <1>5, EmptySeq, LenProperties
  <2>2. SubSeq(q, 1, Len(q)) = <<q[1]>> \o SubSeq(q, 2, Len(q))
    BY <2>1, SubSeqRecursiveFirst
  <2>3. Head(q) = q[1]
    OBVIOUS
  <2> QED BY <1>5, <2>2, <2>3, SubSeqFull, TailIsSubSeq
<1> QED BY <1>3, <1>4, <1>5

LEMMA RefineInit == Init => Agent!AgentInit
<1> SUFFICES ASSUME Init PROVE Agent!AgentInit
  OBVIOUS
<1>1. Inbox = <<>> /\ Todo = <<>>
  BY DEF Init, Inbox, InHand, Todo
<1> QED BY <1>1, RunnerAssumption DEF Init, Agent!AgentInit, Policy

LEMMA RefineStep ==
  ASSUME TypeOK, TypeOK', EnforcementInv, [Next]_vars
  PROVE  [Agent!AgentNext]_(Agent!agentVars)
<1> DEFINE A == [Agent!AgentNext]_(Agent!agentVars)
<1> USE DEF Agent!AgentNext, Agent!agentVars
<1>1. ASSUME UNCHANGED <<gate, mailbox, state, world, status>>,
             Inbox' = Inbox, Todo' = Todo
      PROVE  A
  BY <1>1 DEF Policy
<1>2. ASSUME UNCHANGED <<mailbox, pending>>,
             pc \notin {"tick", "dispatch", "observe", "allow"},
             pc' \notin {"tick", "dispatch", "observe", "allow"}
      PROVE  Inbox' = Inbox /\ Todo' = Todo
  BY <1>2 DEF Inbox, InHand, Todo
<1>3. ASSUME NEW m \in Messages, Accept(m),
             UNCHANGED <<gate, state, pc, msg, pending, world, status>>
      PROVE  A
  <2>1. Inbox' = Append(Inbox, m)
    <3>1. mailbox' = mailbox \o <<m>>
      BY <1>3, AppendIsConcat DEF Accept, TypeOK
    <3>2. Inbox' = InHand \o (mailbox \o <<m>>)
      BY <1>3, <3>1 DEF Inbox, InHand
    <3>3. Append(Inbox, m) = (InHand \o mailbox) \o <<m>>
      BY InboxType, AppendIsConcat DEF Inbox
    <3>4. /\ <<m>> \in Seq(Messages)
          /\ mailbox \in Seq(Messages) /\ InHand \in Seq(Messages)
      BY InboxType DEF TypeOK
    <3>5. (InHand \o mailbox) \o <<m>> = InHand \o (mailbox \o <<m>>)
      BY <3>4, ConcatAssociative
    <3> QED BY <3>2, <3>3, <3>5
  <2>2. UNCHANGED <<Policy, Todo>>
    BY <1>3 DEF Policy, Todo
  <2>3. status = "running"
    BY <1>3 DEF Accept
  <2>4. Agent!AcceptMessage
    BY <1>3, <2>1, <2>2, <2>3 DEF Agent!AcceptMessage
  <2> QED BY <2>4
<1>4. ASSUME NEW p \in Peers, NEW t \in Topics, Send(p, t) PROVE A
  <2>1. [from |-> p, topic |-> t] \in Messages
    BY DEF Messages
  <2> QED BY <1>3, <1>4, <2>1 DEF Send
<1>5. ASSUME NEW t \in TickTopics, Tick(t) PROVE A
  <2>1. TickOf(t) \in Messages
    BY RunnerAssumption DEF TickOf, Messages
  <2> QED BY <1>3, <1>5, <2>1 DEF Tick
<1>6. ASSUME NEW t \in TickTopics, TickExit(t) PROVE A
  <2>1. Inbox' = Inbox /\ Todo' = Todo
    BY <1>6 DEF TickExit, Inbox, InHand, Todo
  <2> QED BY <1>1, <1>6, <2>1 DEF TickExit
<1>7. CASE Idle
  BY <1>1, <1>2, <1>7 DEF Idle, At
<1>8. CASE Receive
  <2>1. /\ msg' = Head(mailbox) /\ mailbox' = Tail(mailbox)
        /\ pc' \in {"tick", "dispatch"} /\ pc = "loop"
        /\ mailbox # <<>>
    BY <1>8 DEF Receive, At
  <2>2. InHand' = <<Head(mailbox)>>
    BY <2>1 DEF InHand
  <2>3. Head(mailbox) \in Messages
    BY <2>1, HeadTailProperties DEF TypeOK
  <2>4. Inbox' = mailbox
    BY <2>1, <2>2, <2>3, InboxPop DEF Inbox, TypeOK
  <2>5. Inbox = mailbox
    BY <2>1, InboxType
  <2>6. Todo' = Todo
    BY <1>8, <2>1 DEF Receive, Todo
  <2>7. UNCHANGED Agent!agentVars
    BY <1>8, <2>4, <2>5, <2>6 DEF Receive, Policy
  <2> QED BY <2>7
<1>9. CASE CountTick
  <2>1. Inbox' = Inbox /\ Todo' = Todo
    BY <1>9 DEF CountTick, At, Inbox, InHand, Todo
  <2> QED BY <1>1, <1>9, <2>1 DEF CountTick
<1>10. ASSUME At("dispatch"), pc' \in {"end", "propose"},
              UNCHANGED <<gate, mailbox, world, status>>
       PROVE  /\ UNCHANGED Policy
              /\ Todo = pending /\ Todo' = pending' /\ Todo = <<>>
              /\ Inbox # <<>> /\ Inbox' = Tail(Inbox)
  <2>1. Inbox = <<msg>> \o mailbox /\ msg \in Messages
    BY <1>10 DEF At, Inbox, InHand, TypeOK
  <2>2. Inbox' = mailbox
    BY <1>10, InboxType, ConcatEmptySeq DEF Inbox, InHand, TypeOK
  <2>3. Todo = pending /\ Todo' = pending' /\ Todo = <<>>
    BY <1>10 DEF At, Todo, TypeOK, Deciding
  <2> QED BY <1>10, <2>1, <2>2, <2>3, InboxPop DEF Policy, TypeOK
<1>11. CASE Dispatch
  <2>1. /\ At("dispatch") /\ pc' \in {"end", "propose"}
        /\ UNCHANGED <<gate, mailbox, world, status>>
        /\ state' \in States /\ pending' \in Proposals[msg.topic]
    BY <1>11 DEF Dispatch
  <2>2. msg.topic \in Topics
    BY <2>1 DEF At, TypeOK, Messages
  <2>3. pending' \in UNION {Proposals[t] : t \in Topics}
    BY <2>1, <2>2
  <2>4. Agent!Take
    BY <1>10, <2>1, <2>3 DEF Agent!Take, At
  <2> QED BY <2>4
<1>12. CASE DispatchError
  <2>1. /\ At("dispatch") /\ pc' \in {"end", "propose"}
        /\ UNCHANGED <<gate, mailbox, world, status, state, pending>>
    BY <1>12 DEF DispatchError
  <2>2. Agent!Take
    BY <1>10, <2>1 DEF Agent!Take, At
  <2> QED BY <2>2
<1>13. CASE Propose
  <2>1. pc = "propose" /\ pc' \in {"allowlist", "gate"}
    BY <1>13 DEF Propose, At
  <2> QED BY <1>1, <1>2, <1>13, <2>1 DEF Propose
<1>14. CASE EvaluateGate
  <2>1. pc = "gate" /\ pc' \in {"allowlist", "deny"}
    BY <1>14 DEF EvaluateGate, At
  <2> QED BY <1>1, <1>2, <1>14, <2>1 DEF EvaluateGate
<1>15. ASSUME status = "running", pending # <<>>, pc \in {"deny", "allowlist"},
              ~Permitted(gate, state, Current), NextAction,
              UNCHANGED <<gate, mailbox, state, world, status>>
       PROVE  A
  <2>1. pc' \in {"end", "propose"} /\ pending' = Tail(pending)
    BY <1>15 DEF NextAction
  <2>2. Todo = pending /\ Todo' = Tail(pending) /\ Inbox' = Inbox
    BY <1>15, <2>1 DEF Todo, Inbox, InHand
  <2>3. <<state, Head(Todo)>> \notin Policy
    BY <1>15, <2>2, CurrentType, PolicyMeans DEF TypeOK, Current
  <2>4. UNCHANGED Policy
    BY <1>15 DEF Policy
  <2>5. Agent!Reject
    BY <1>15, <2>2, <2>3, <2>4 DEF Agent!Reject
  <2> QED BY <2>5
<1>16. CASE Deny
  <2>1. ~Permitted(gate, state, Current)
    BY <1>16 DEF Deny, At, EnforcementInv, Permitted
  <2> QED BY <1>15, <1>16, <2>1 DEF Deny, At, TypeOK, Deciding
<1>17. CASE SkipMcp
  <2>1. ~Permitted(gate, state, Current)
    BY <1>17 DEF SkipMcp, Permitted
  <2> QED BY <1>15, <1>17, <2>1 DEF SkipMcp, At, TypeOK, Deciding
<1>18. CASE Execute
  <2>1. Permitted(gate, state, Current)
    BY <1>18 DEF Execute, At, EnforcementInv, Permitted
  <2>2. /\ pc = "allowlist" /\ pc' = "observe" /\ pending # <<>>
        /\ status = "running"
        /\ UNCHANGED <<gate, mailbox, state, pending, status>>
    BY <1>18 DEF Execute, At, TypeOK, Deciding
  <2>3. Todo = pending /\ Todo' = Tail(pending) /\ Inbox' = Inbox
    BY <2>2 DEF Todo, Inbox, InHand
  <2>4. <<state, Head(Todo)>> \in Policy
    BY <2>1, <2>2, <2>3, CurrentType, PolicyMeans DEF TypeOK, Current
  <2>5. UNCHANGED Policy
    BY <2>2 DEF Policy
  <2>6. \E ok \in BOOLEAN :
          world' = Append(world, [action |-> Head(Todo), state |-> state, ok |-> ok])
    BY <1>18, <2>3 DEF Execute, Current
  <2>7. Agent!Perform
    BY <2>2, <2>3, <2>4, <2>5, <2>6 DEF Agent!Perform
  <2> QED BY <2>7
<1>19. CASE ObserveExecute
  <2>1. Inbox' = Inbox /\ Todo' = Todo
    BY <1>19 DEF ObserveExecute, At, Inbox, InHand, Todo
  <2> QED BY <1>1, <1>19, <2>1 DEF ObserveExecute
<1>20. CASE Allow
  <2>1. /\ pc = "allow" /\ pc' \in {"end", "propose"}
        /\ pending' = Tail(pending) /\ UNCHANGED mailbox
    BY <1>20 DEF Allow, At, NextAction
  <2>2. Inbox' = Inbox /\ Todo' = Todo
    BY <2>1 DEF Inbox, InHand, Todo
  <2> QED BY <1>1, <1>20, <2>2 DEF Allow
<1>21. CASE EndStep
  BY <1>1, <1>2, <1>21 DEF EndStep, At
<1>22. CASE ObserveStep
  BY <1>1, <1>2, <1>22 DEF ObserveStep, At
<1>23. ASSUME status = "running", status' # "running",
              UNCHANGED <<gate, mailbox, state, pc, msg, pending, world>>
       PROVE  A
  <2>1. UNCHANGED <<Policy, Inbox, Todo>>
    BY <1>23 DEF Policy, Inbox, InHand, Todo
  <2>2. Agent!Stop
    BY <1>23, <2>1 DEF Agent!Stop
  <2> QED BY <2>2
<1>24. CASE Finalize
  BY <1>23, <1>24 DEF Finalize, At
<1>25. CASE Crash
  BY <1>23, <1>25 DEF Crash
<1>26. CASE UNCHANGED vars
  <2>1. Inbox' = Inbox /\ Todo' = Todo
    BY <1>26 DEF vars, Inbox, InHand, Todo
  <2> QED BY <1>1, <1>26, <2>1 DEF vars
<1> QED
  BY <1>4, <1>5, <1>6, <1>7, <1>8, <1>9, <1>11, <1>12, <1>13, <1>14, <1>16,
     <1>17, <1>18, <1>19, <1>20, <1>21, <1>22, <1>24, <1>25, <1>26
  DEF Next, Step

\* Every runner implements the gated agent: whatever it does to the world is a
\* permitted action of the message it is working on, in order and once.
THEOREM RunnerImplementsAgent == Spec => ImplementsAgent
<1>1. Init => Agent!AgentInit
  BY RefineInit
<1>2. TypeOK /\ TypeOK' /\ EnforcementInv /\ [Next]_vars
        => [Agent!AgentNext]_(Agent!agentVars)
  BY RefineStep
<1>3. Spec => []EnforcementInv
  BY TypeCorrect, EnforcementInit, EnforcementStep, PTL DEF Spec
<1> QED
  BY <1>1, <1>2, <1>3, TypeCorrect, PTL DEF Spec, ImplementsAgent, Agent!AgentSpec

-----------------------------------------------------------------------------
(* The ranks of events in a trace.                                         *)

\* The first n positions of the events of a kind, which their rank numbers.
Upto(tr, n, kind) == {j \in 1..n : tr[j].event = kind}

LEMMA RankType ==
  ASSUME NEW tr, NEW n \in Nat, NEW kind
  PROVE  /\ IsFiniteSet(Upto(tr, n, kind))
         /\ Rank(tr, n, kind) = Cardinality(Upto(tr, n, kind))
         /\ Rank(tr, n, kind) \in Nat
<1>1. IsFiniteSet(1..n)
  BY FS_Interval
<1>2. Upto(tr, n, kind) \in SUBSET (1..n)
  BY DEF Upto
<1>3. IsFiniteSet(Upto(tr, n, kind))
  BY <1>1, <1>2, FS_Subset
<1>4. Rank(tr, n, kind) = Cardinality(Upto(tr, n, kind))
  BY DEF Rank, Upto
<1> QED BY <1>3, <1>4, FS_CardinalityType

LEMMA RankStep ==
  ASSUME NEW tr, NEW n \in Nat, NEW kind
  PROVE  Rank(tr, n + 1, kind) =
           Rank(tr, n, kind) + (IF tr[n + 1].event = kind THEN 1 ELSE 0)
<1>1. Upto(tr, n + 1, kind) = IF tr[n + 1].event = kind
                              THEN Upto(tr, n, kind) \cup {n + 1}
                              ELSE Upto(tr, n, kind)
  BY DEF Upto
<1>2. n + 1 \notin Upto(tr, n, kind)
  BY DEF Upto
<1>3. IsFiniteSet(Upto(tr, n, kind))
  BY RankType
<1>4. Cardinality(Upto(tr, n, kind) \cup {n + 1}) = Cardinality(Upto(tr, n, kind)) + 1
  BY <1>2, <1>3, FS_AddElement
<1>5. Rank(tr, n, kind) = Cardinality(Upto(tr, n, kind)) /\ Rank(tr, n, kind) \in Nat
  BY RankType
<1>6. Rank(tr, n + 1, kind) = Cardinality(Upto(tr, n + 1, kind))
  BY RankType
<1> QED BY <1>1, <1>4, <1>5, <1>6

LEMMA RankBounds ==
  ASSUME NEW tr, NEW n \in Nat, NEW i \in 1..n, NEW kind, tr[i].event = kind
  PROVE  Rank(tr, i, kind) \in 1..Rank(tr, n, kind)
<1>1. /\ IsFiniteSet(Upto(tr, i, kind)) /\ IsFiniteSet(Upto(tr, n, kind))
      /\ Rank(tr, i, kind) = Cardinality(Upto(tr, i, kind)) /\ Rank(tr, i, kind) \in Nat
      /\ Rank(tr, n, kind) = Cardinality(Upto(tr, n, kind)) /\ Rank(tr, n, kind) \in Nat
  BY RankType
<1>2. Upto(tr, i, kind) \in SUBSET Upto(tr, n, kind) /\ i \in Upto(tr, i, kind)
  BY DEF Upto
<1>3. Cardinality(Upto(tr, i, kind)) <= Cardinality(Upto(tr, n, kind))
  BY <1>1, <1>2, FS_Subset
<1>4. Cardinality(Upto(tr, i, kind)) # 0
  BY <1>1, <1>2, FS_EmptySet
<1> QED BY <1>1, <1>3, <1>4

LEMMA RankAppend ==
  ASSUME NEW T, NEW tr \in Seq(T), NEW e \in T, NEW kind
  PROVE  /\ \A i \in 0..Len(tr) : Rank(Append(tr, e), i, kind) = Rank(tr, i, kind)
         /\ Rank(Append(tr, e), Len(tr) + 1, kind) =
              Rank(tr, Len(tr), kind) + (IF e.event = kind THEN 1 ELSE 0)
<1>1. /\ Len(tr) \in Nat /\ DOMAIN tr = 1..Len(tr)
      /\ \A i \in 1..Len(tr) : Append(tr, e)[i] = tr[i]
      /\ Append(tr, e)[Len(tr) + 1] = e
  BY LenProperties, AppendProperties
<1>2. ASSUME NEW i \in 0..Len(tr)
      PROVE  Rank(Append(tr, e), i, kind) = Rank(tr, i, kind)
  <2>1. {j \in 1..i : Append(tr, e)[j].event = kind} = {j \in 1..i : tr[j].event = kind}
    BY <1>1
  <2> QED BY <2>1 DEF Rank
<1>3. Rank(Append(tr, e), Len(tr), kind) = Rank(tr, Len(tr), kind)
  BY <1>1, <1>2
<1>4. Rank(Append(tr, e), Len(tr) + 1, kind) =
        Rank(Append(tr, e), Len(tr), kind)
          + (IF Append(tr, e)[Len(tr) + 1].event = kind THEN 1 ELSE 0)
  BY <1>1, RankStep
<1> QED BY <1>1, <1>2, <1>3, <1>4

-----------------------------------------------------------------------------
(* Counters and trace.                                                     *)

OfKind(event, k) == {e \in Events : e.event = event /\ e.action.kind = k}
Given(v) == {e \in Events : e.event = "gate.verdict" /\ e.verdict = v}
Refusals(k) ==
  {e \in Events : e.event = "gate.verdict" /\ e.verdict # "Allow" /\ e.action.kind = k}

\* CountersMatchTrace with sets of events for the predicates.
MatchInv ==
  /\ \A k \in Kinds :
       /\ Hits(trace, OfKind("action.proposed", k)) = metrics[<<"proposed", k>>]
       /\ Hits(trace, OfKind("action.executed", k)) = metrics[<<"allowed", k>>]
       /\ Hits(trace, OfKind("action.skipped", k)) = metrics[<<"denied", k, "mcp_allowlist">>]
       /\ Hits(trace, Refusals(k)) = metrics[<<"denied", k, "gate">>] + InFlight(k, {"deny"})
  /\ \A v \in Verdicts : Hits(trace, Given(v)) = metrics[<<"verdict", v>>]

LEMMA MatchMeans ==
  ASSUME TypeOK, MatchInv
  PROVE  CountersMatchTrace
<1>1. \A i \in DOMAIN trace : trace[i] \in Events
  BY ElementOfSeq DEF TypeOK
<1>2. ASSUME NEW k \in Kinds, NEW event
      PROVE  CountOf(trace, LAMBDA e : e.event = event /\ e.action.kind = k)
               = Hits(trace, OfKind(event, k))
  <2>1. {i \in DOMAIN trace : trace[i].event = event /\ trace[i].action.kind = k}
          = {i \in DOMAIN trace : trace[i] \in OfKind(event, k)}
    BY <1>1 DEF OfKind
  <2> QED BY <2>1 DEF CountOf, Hits
<1>3. ASSUME NEW v \in Verdicts
      PROVE  CountOf(trace, LAMBDA e : e.event = "gate.verdict" /\ e.verdict = v)
               = Hits(trace, Given(v))
  <2>1. {i \in DOMAIN trace : trace[i].event = "gate.verdict" /\ trace[i].verdict = v}
          = {i \in DOMAIN trace : trace[i] \in Given(v)}
    BY <1>1 DEF Given
  <2> QED BY <2>1 DEF CountOf, Hits
<1>4. ASSUME NEW k \in Kinds
      PROVE  CountOf(trace, LAMBDA e : /\ e.event = "gate.verdict"
                                       /\ e.verdict # "Allow"
                                       /\ e.action.kind = k)
               = Hits(trace, Refusals(k))
  <2>1. {i \in DOMAIN trace : /\ trace[i].event = "gate.verdict"
                              /\ trace[i].verdict # "Allow"
                              /\ trace[i].action.kind = k}
          = {i \in DOMAIN trace : trace[i] \in Refusals(k)}
    BY <1>1 DEF Refusals
  <2> QED BY <2>1 DEF CountOf, Hits
<1> QED BY <1>2, <1>3, <1>4 DEF MatchInv, CountersMatchTrace

\* The receipt of a message is none of the events counted.
LEMMA HeardSort ==
  ASSUME NEW m \in Messages, NEW k
  PROVE  /\ \A event : event # "a2a.received" => Received(m) \notin OfKind(event, k)
         /\ Received(m) \notin Refusals(k)
         /\ \A v : Received(m) \notin Given(v)
BY DEF OfKind, Refusals, Given, Received

LEMMA Recorded ==
  ASSUME TypeOK, NEW e \in Events, trace' = Append(trace, e), NEW S
  PROVE  /\ Hits(trace', S) = Hits(trace, S) + (IF e \in S THEN 1 ELSE 0)
         /\ Hits(trace, S) \in Nat
<1>1. trace \in Seq(Events)
  BY DEF TypeOK
<1>2. /\ Hits(Append(trace, e), S) = Hits(trace, S) + (IF e \in S THEN 1 ELSE 0)
      /\ Hits(trace, S) \in Nat
  BY <1>1, HitsAppend, HitsFinite
<1> QED BY <1>2

\* The counters the trace tells of.
Told == {c \in Counters : c[1] \in {"proposed", "allowed", "denied", "verdict"}}

\* A step that records nothing, or the receipt of a message, and counts
\* nothing the trace tells of.
LEMMA MatchApart ==
  ASSUME TypeOK, MatchInv,
         trace' = trace \/ \E m \in Messages : trace' = Append(trace, Received(m)),
         \A c \in Told : metrics'[c] = metrics[c],
         \A k \in Kinds : InFlight(k, {"deny"})' = InFlight(k, {"deny"})
  PROVE  MatchInv'
<1>1. \A k \in Kinds : /\ <<"proposed", k>> \in Told /\ <<"allowed", k>> \in Told
                       /\ <<"denied", k, "gate">> \in Told
                       /\ <<"denied", k, "mcp_allowlist">> \in Told
  BY CounterNames DEF Told
<1>2. \A v \in Verdicts : <<"verdict", v>> \in Told
  BY CounterNames DEF Told
<1>3. /\ \A k \in Kinds :
           /\ Hits(trace', OfKind("action.proposed", k)) = Hits(trace, OfKind("action.proposed", k))
           /\ Hits(trace', OfKind("action.executed", k)) = Hits(trace, OfKind("action.executed", k))
           /\ Hits(trace', OfKind("action.skipped", k)) = Hits(trace, OfKind("action.skipped", k))
           /\ Hits(trace', Refusals(k)) = Hits(trace, Refusals(k))
      /\ \A v \in Verdicts : Hits(trace', Given(v)) = Hits(trace, Given(v))
  <2>1. CASE trace' = trace
    BY <2>1
  <2>2. ASSUME NEW m \in Messages, trace' = Append(trace, Received(m)) PROVE <1>3!1 /\ <1>3!2
    <3>1. Received(m) \in Events
      BY EventsType
    <3>2. \A S : Received(m) \notin S => Hits(trace', S) = Hits(trace, S)
      BY <2>2, <3>1, Recorded
    <3> QED BY <3>2, HeardSort
  <2> QED BY <2>1, <2>2
<1> QED BY <1>1, <1>2, <1>3 DEF MatchInv

\* A step that records one event and increments one counter, the ones that
\* belong together.
LEMMA MatchRecorded ==
  ASSUME TypeOK, MatchInv,
         NEW e \in Events, trace' = Append(trace, e),
         NEW c \in Counters, Inc(c),
         \A k \in Kinds :
           /\ e \in OfKind("action.proposed", k) <=> c = <<"proposed", k>>
           /\ e \in OfKind("action.executed", k) <=> c = <<"allowed", k>>
           /\ e \in OfKind("action.skipped", k) <=> c = <<"denied", k, "mcp_allowlist">>
           /\ (IF e \in Refusals(k) THEN 1 ELSE 0) + InFlight(k, {"deny"})
                = (IF c = <<"denied", k, "gate">> THEN 1 ELSE 0) + InFlight(k, {"deny"})',
         \A v \in Verdicts : e \in Given(v) <=> c = <<"verdict", v>>
  PROVE  MatchInv'
<1>1. \A d \in Counters : metrics'[d] = metrics[d] + (IF d = c THEN 1 ELSE 0)
                          /\ metrics[d] \in Nat
  BY IncOne DEF TypeOK
<1>2. \A S : /\ Hits(trace', S) = Hits(trace, S) + (IF e \in S THEN 1 ELSE 0)
             /\ Hits(trace, S) \in Nat
  BY Recorded
<1>3. ASSUME NEW S, NEW d \in Counters, e \in S <=> c = d, Hits(trace, S) = metrics[d]
      PROVE  Hits(trace', S) = metrics'[d]
  BY <1>1, <1>2, <1>3
<1>4. ASSUME NEW k \in Kinds
      PROVE  /\ Hits(trace', OfKind("action.proposed", k)) = metrics'[<<"proposed", k>>]
             /\ Hits(trace', OfKind("action.executed", k)) = metrics'[<<"allowed", k>>]
             /\ Hits(trace', OfKind("action.skipped", k)) = metrics'[<<"denied", k, "mcp_allowlist">>]
  BY <1>3, CounterNames DEF MatchInv
<1>5. ASSUME NEW k \in Kinds
      PROVE  Hits(trace', Refusals(k)) =
               metrics'[<<"denied", k, "gate">>] + InFlight(k, {"deny"})'
  <2> DEFINE d == <<"denied", k, "gate">>
  <2>1. d \in Counters
    BY CounterNames
  <2>2. Hits(trace, Refusals(k)) = metrics[d] + InFlight(k, {"deny"})
    BY DEF MatchInv
  <2>3. InFlight(k, {"deny"}) \in Nat /\ InFlight(k, {"deny"})' \in Nat
    BY DEF InFlight
  <2>4. metrics'[d] = metrics[d] + (IF c = d THEN 1 ELSE 0) /\ metrics[d] \in Nat
    BY <1>1, <2>1
  <2>5. Hits(trace', Refusals(k)) = Hits(trace, Refusals(k)) + (IF e \in Refusals(k) THEN 1 ELSE 0)
    BY <1>2
  <2>6. (IF e \in Refusals(k) THEN 1 ELSE 0) + InFlight(k, {"deny"})
          = (IF c = d THEN 1 ELSE 0) + InFlight(k, {"deny"})'
    OBVIOUS
  <2> HIDE DEF d
  <2>7. Hits(trace', Refusals(k)) = metrics'[d] + InFlight(k, {"deny"})'
    BY <2>2, <2>3, <2>4, <2>5, <2>6
  <2> QED BY <2>7 DEF d
<1>6. ASSUME NEW v \in Verdicts
      PROVE  Hits(trace', Given(v)) = metrics'[<<"verdict", v>>]
  BY <1>3, CounterNames DEF MatchInv
<1> QED BY <1>4, <1>5, <1>6 DEF MatchInv

LEMMA MatchInit == Init => MatchInv
<1> SUFFICES ASSUME Init PROVE MatchInv
  OBVIOUS
<1>1. \A S : Hits(trace, S) = 0
  BY HitsEmpty DEF Init
<1>2. \A c \in Counters : metrics[c] = 0
  BY DEF Init
<1>3. \A k \in Kinds : InFlight(k, {"deny"}) = 0
  BY DEF Init, InFlight
<1>4. /\ \A k \in Kinds : /\ metrics[<<"proposed", k>>] = 0 /\ metrics[<<"allowed", k>>] = 0
                          /\ metrics[<<"denied", k, "gate">>] = 0
                          /\ metrics[<<"denied", k, "mcp_allowlist">>] = 0
      /\ \A v \in Verdicts : metrics[<<"verdict", v>>] = 0
  BY <1>2, CounterNames
<1> QED BY <1>1, <1>3, <1>4 DEF MatchInv

LEMMA MatchStep ==
  ASSUME TypeOK, MatchInv, [Next]_vars
  PROVE  MatchInv'
<1>1. metrics \in [Counters -> Nat] /\ trace \in Seq(Events)
  BY DEF TypeOK
<1>2. \A k \in Kinds : /\ <<"proposed", k>> \in Counters
                       /\ <<"allowed", k>> \in Counters
                       /\ <<"denied", k, "gate">> \in Counters
                       /\ <<"denied", k, "mcp_allowlist">> \in Counters
  BY CounterNames
<1>3. \A v \in Verdicts : <<"verdict", v>> \in Counters
  BY CounterNames
<1>4. \A k \in Kinds : /\ metrics[<<"proposed", k>>] \in Nat
                       /\ metrics[<<"allowed", k>>] \in Nat
                       /\ metrics[<<"denied", k, "gate">>] \in Nat
                       /\ metrics[<<"denied", k, "mcp_allowlist">>] \in Nat
  BY <1>1, <1>2
<1>5. pc \in Deciding \cup {"propose"} => Current \in Actions /\ Current.kind \in Kinds
  BY CurrentType DEF TypeOK
<1>6. ASSUME NEW c \in Counters, Inc(c), c \notin Told PROVE \A d \in Told : metrics'[d] = metrics[d]
  BY <1>1, <1>6, IncOne DEF Told
<1>7. ASSUME pc # "deny", pc' # "deny"
      PROVE  \A k \in Kinds : InFlight(k, {"deny"}) = 0 /\ InFlight(k, {"deny"})' = 0
  BY <1>7 DEF InFlight
<1>8. CASE Idle
  <2>1. <<"steps", "Idle">> \in Counters /\ <<"steps", "Idle">> \notin Told
    BY CounterNames DEF Outcomes, Told
  <2>2. pc # "deny" /\ pc' # "deny" /\ trace' = trace /\ Inc(<<"steps", "Idle">>)
    BY <1>8 DEF Idle, At
  <2> QED BY <1>6, <1>7, <2>1, <2>2, MatchApart
<1>9. CASE Receive
  <2>1. msg' \in Messages
    BY <1>9, HeadTailProperties DEF Receive, TypeOK
  <2>2. <<"messages", msg'.topic>> \in Counters /\ <<"messages", msg'.topic>> \notin Told
    BY <2>1, CounterNames DEF Messages, Told
  <2>3. pc # "deny" /\ pc' # "deny" /\ trace' = trace /\ Inc(<<"messages", msg'.topic>>)
    BY <1>9 DEF Receive, At
  <2> QED BY <1>6, <1>7, <2>2, <2>3, MatchApart
<1>10. CASE CountTick
  <2>1. msg \in Messages
    BY <1>10 DEF CountTick, At, TypeOK
  <2>2. <<"ticks", msg.topic>> \in Counters /\ <<"ticks", msg.topic>> \notin Told
    BY <2>1, CounterNames DEF Messages, Told
  <2>3. pc # "deny" /\ pc' # "deny" /\ trace' = trace /\ Inc(<<"ticks", msg.topic>>)
    BY <1>10 DEF CountTick, At
  <2> QED BY <1>6, <1>7, <2>2, <2>3, MatchApart
<1>11. CASE Dispatch \/ DispatchError
  <2>1. /\ pc # "deny" /\ pc' # "deny" /\ msg \in Messages
        /\ trace' = Append(trace, Received(msg)) /\ metrics' = metrics
    BY <1>11 DEF Dispatch, DispatchError, At, TypeOK
  <2> QED BY <1>7, <2>1, MatchApart
<1>12. CASE Propose
  <2>1. /\ pc # "deny" /\ pc' # "deny" /\ Current \in Actions /\ Current.kind \in Kinds
        /\ trace' = Append(trace, Proposed(Current)) /\ Inc(<<"proposed", Current.kind>>)
    BY <1>5, <1>12 DEF Propose, At
  <2>2. Proposed(Current) \in Events /\ <<"proposed", Current.kind>> \in Counters
    BY <1>2, <2>1, EventsType
  <2>3. /\ \A k \in Kinds : /\ Proposed(Current) \in OfKind("action.proposed", k)
                                 <=> <<"proposed", Current.kind>> = <<"proposed", k>>
                            /\ Proposed(Current) \notin OfKind("action.executed", k)
                            /\ Proposed(Current) \notin OfKind("action.skipped", k)
                            /\ Proposed(Current) \notin Refusals(k)
        /\ \A v : Proposed(Current) \notin Given(v)
    BY <2>1 DEF Proposed, Refusals, Given, OfKind, Events
  <2> QED BY <1>7, <2>1, <2>2, <2>3, MatchRecorded
<1>13. CASE EvaluateGate
  <2> DEFINE v == Evaluate(gate, state, Current)
             e == Verdict(Current, v)
  <2>1. /\ pc = "gate" /\ Current \in Actions /\ Current.kind \in Kinds
        /\ trace' = Append(trace, e) /\ Inc(<<"verdict", v>>)
        /\ pc' = IF v = "Allow" THEN "allowlist" ELSE "deny"
        /\ Current' = Current
    BY <1>5, <1>13 DEF EvaluateGate, At, Current, Deciding
  <2>2. v \in Verdicts
    BY <1>13, <2>1, EvaluateType, RunnerAssumption DEF TypeOK
  <2> HIDE DEF v
  <2>3. e \in Events /\ <<"verdict", v>> \in Counters
    BY <1>3, <2>1, <2>2, EventsType
  <2>4. /\ \A k \in Kinds : /\ e \notin OfKind("action.proposed", k)
                            /\ e \notin OfKind("action.executed", k)
                            /\ e \notin OfKind("action.skipped", k)
        /\ \A w \in Verdicts : e \in Given(w) <=> <<"verdict", v>> = <<"verdict", w>>
    BY <2>1, <2>2, <2>3 DEF Verdict, OfKind, Given
  <2>5. ASSUME NEW k \in Kinds
        PROVE  /\ e \in Refusals(k) <=> v # "Allow" /\ Current.kind = k
               /\ InFlight(k, {"deny"}) = 0
               /\ InFlight(k, {"deny"})' = IF v # "Allow" /\ Current.kind = k THEN 1 ELSE 0
    BY <2>1, <2>2, <2>3 DEF Verdict, Refusals, InFlight
  <2> QED BY <2>1, <2>3, <2>4, <2>5, MatchRecorded
<1>14. CASE SkipMcp
  <2> DEFINE c == <<"denied", Current.kind, "mcp_allowlist">>
  <2>1. /\ pc # "deny" /\ pc' # "deny" /\ Current \in Actions /\ Current.kind \in Kinds
        /\ trace' = Append(trace, Skipped(Current)) /\ Inc(c)
    BY <1>5, <1>14 DEF SkipMcp, At, NextAction, Deciding
  <2>2. Skipped(Current) \in Events /\ c \in Counters
    BY <1>2, <2>1, EventsType
  <2>3. /\ \A k \in Kinds : /\ Skipped(Current) \notin OfKind("action.proposed", k)
                            /\ Skipped(Current) \notin OfKind("action.executed", k)
                            /\ Skipped(Current) \in OfKind("action.skipped", k)
                                 <=> c = <<"denied", k, "mcp_allowlist">>
                            /\ Skipped(Current) \notin Refusals(k)
        /\ \A v : Skipped(Current) \notin Given(v)
    BY <2>1, <2>2 DEF Skipped, Refusals, Given, OfKind
  <2> QED BY <1>7, <2>1, <2>2, <2>3, MatchRecorded
<1>15. CASE Allow
  <2> DEFINE e == Executed(Current, world[Len(world)].ok)
  <2>1. /\ pc # "deny" /\ pc' # "deny" /\ Current \in Actions /\ Current.kind \in Kinds
        /\ trace' = Append(trace, e) /\ Inc(<<"allowed", Current.kind>>)
    BY <1>5, <1>15 DEF Allow, At, NextAction, Deciding
  <2>2. e \in Events /\ <<"allowed", Current.kind>> \in Counters
    <3>1. world[Len(world)] \in Performed
      BY <1>15, LastType DEF Allow, At, TypeOK
    <3>2. world[Len(world)].ok \in BOOLEAN
      BY <3>1 DEF Performed
    <3> QED BY <1>2, <2>1, <3>2, EventsType
  <2>3. /\ \A k \in Kinds : /\ e \notin OfKind("action.proposed", k)
                            /\ e \in OfKind("action.executed", k)
                                 <=> <<"allowed", Current.kind>> = <<"allowed", k>>
                            /\ e \notin OfKind("action.skipped", k)
                            /\ e \notin Refusals(k)
        /\ \A v : e \notin Given(v)
    BY <2>1, <2>2 DEF Executed, Refusals, Given, OfKind
  <2> QED BY <1>7, <2>1, <2>2, <2>3, MatchRecorded
<1>16. CASE Deny
  <2> DEFINE c == <<"denied", Current.kind, "gate">>
  <2>1. /\ pc = "deny" /\ pc' # "deny" /\ Current.kind \in Kinds
        /\ trace' = trace /\ Inc(c)
    BY <1>5, <1>16 DEF Deny, At, NextAction, Deciding
  <2>2. c \in Counters
    BY <1>2, <2>1
  <2>3. \A d \in Counters : metrics'[d] = IF d = c THEN metrics[d] + 1 ELSE metrics[d]
    BY <1>1, <2>1, <2>2, IncOne
  <2>4. ASSUME NEW k \in Kinds
        PROVE  /\ metrics'[<<"proposed", k>>] = metrics[<<"proposed", k>>]
               /\ metrics'[<<"allowed", k>>] = metrics[<<"allowed", k>>]
               /\ metrics'[<<"denied", k, "mcp_allowlist">>] = metrics[<<"denied", k, "mcp_allowlist">>]
               /\ metrics'[<<"denied", k, "gate">>] + InFlight(k, {"deny"})' =
                    metrics[<<"denied", k, "gate">>] + InFlight(k, {"deny"})
    <3>1. InFlight(k, {"deny"}) = (IF Current.kind = k THEN 1 ELSE 0)
            /\ InFlight(k, {"deny"})' = 0
      BY <2>1 DEF InFlight
    <3>2. metrics'[<<"denied", k, "gate">>] =
            metrics[<<"denied", k, "gate">>] + (IF Current.kind = k THEN 1 ELSE 0)
      <4>1. CASE Current.kind = k
        BY <1>2, <2>3, <4>1
      <4>2. CASE Current.kind # k
        <5>1. <<"denied", k, "gate">> # c /\ <<"denied", k, "gate">> \in Counters
          BY <1>2, <4>2
        <5>2. metrics'[<<"denied", k, "gate">>] = metrics[<<"denied", k, "gate">>]
          BY <2>3, <5>1
        <5>3. metrics[<<"denied", k, "gate">>] \in Nat
          BY <1>4
        <5> QED BY <4>2, <5>2, <5>3
      <4> QED BY <4>1, <4>2
    <3>3. /\ metrics'[<<"proposed", k>>] = metrics[<<"proposed", k>>]
          /\ metrics'[<<"allowed", k>>] = metrics[<<"allowed", k>>]
          /\ metrics'[<<"denied", k, "mcp_allowlist">>] = metrics[<<"denied", k, "mcp_allowlist">>]
      BY <1>2, <2>3
    <3> QED BY <1>4, <3>1, <3>2, <3>3
  <2>5. \A v \in Verdicts : metrics'[<<"verdict", v>>] = metrics[<<"verdict", v>>]
    BY <1>3, <2>3
  <2> QED BY <2>1, <2>4, <2>5 DEF MatchInv
<1>17. CASE ObserveExecute
  <2>1. /\ pc # "deny" /\ pc' # "deny" /\ Current.kind \in Kinds
        /\ trace' = trace /\ Inc(<<"executeDuration", Current.kind>>)
    BY <1>5, <1>17 DEF ObserveExecute, At, Deciding
  <2>2. <<"executeDuration", Current.kind>> \in Counters
          /\ <<"executeDuration", Current.kind>> \notin Told
    BY <2>1, CounterNames DEF Told
  <2> QED BY <1>6, <1>7, <2>1, <2>2, MatchApart
<1>18. CASE EndStep \/ ObserveStep
  <2>1. PICK f \in {"steps", "stepDuration"} :
          /\ pc # "deny" /\ pc' # "deny" /\ trace' = trace /\ Inc(<<f, result>>)
    BY <1>18 DEF EndStep, ObserveStep, At
  <2>2. <<f, result>> \in Counters /\ <<f, result>> \notin Told
    BY CounterNames DEF TypeOK, Told
  <2> QED BY <1>6, <1>7, <2>1, <2>2, MatchApart
<1>19. ASSUME UNCHANGED <<trace, metrics>>,
              UNCHANGED <<pc, pending>> \/ (pc = "allowlist" /\ pc' = "observe")
       PROVE  MatchInv'
  <2>1. \A k \in Kinds : InFlight(k, {"deny"})' = InFlight(k, {"deny"})
    BY <1>19 DEF InFlight, Current
  <2> QED BY <1>19, <2>1, MatchApart
<1>20. CASE Execute
  BY <1>19, <1>20 DEF Execute, At
<1>21. ASSUME \/ \E p \in Peers, t \in Topics : Send(p, t)
              \/ \E t \in TickTopics : Tick(t) \/ TickExit(t)
              \/ Finalize \/ Crash \/ UNCHANGED vars
       PROVE  MatchInv'
  BY <1>19, <1>21 DEF Send, Tick, TickExit, Finalize, Crash, vars
<1> QED
  BY <1>8, <1>9, <1>10, <1>11, <1>12, <1>13, <1>14, <1>15, <1>16, <1>17,
     <1>18, <1>20, <1>21
  DEF Next, Step

\* What the counters say of every kind of action, and of every verdict, the
\* trace says too (runner.rs:187-258).
THEOREM CountersMatchTraceHolds == Spec => []CountersMatchTrace
<1>1. TypeOK /\ MatchInv /\ [Next]_vars => MatchInv'
  BY MatchStep
<1>2. TypeOK /\ MatchInv => CountersMatchTrace
  BY MatchMeans
<1> QED BY <1>1, <1>2, TypeCorrect, MatchInit, PTL DEF Spec

-----------------------------------------------------------------------------
(* Effects and trace.                                                      *)

\* The effects the trace tells of by now.
Recalled == IF pc \in {"observe", "allow"} THEN Len(world) - 1 ELSE Len(world)

\* Why AuditTrail holds: the effect that is not recorded yet is that of the
\* current action, and nothing is stored before the runner is consumed.
AuditInv ==
  /\ Tells(trace, Recalled)
  /\ pc \in {"observe", "allow"} => world[Len(world)].action = Current
  /\ status # "finalized" => stored = {}
  /\ \A tr \in stored : Tells(tr, Len(world))

LEMMA RecalledType ==
  ASSUME TypeOK
  PROVE  /\ Recalled \in Nat /\ Len(world) \in Nat /\ Recalled <= Len(world)
         /\ pc \in {"observe", "allow"} => Len(world) = Recalled + 1
         /\ pc \notin {"observe", "allow"} => Len(world) = Recalled
<1>1. Len(world) \in Nat /\ (world # <<>> => Len(world) # 0)
  BY LenProperties, EmptySeq DEF TypeOK
<1> QED BY <1>1 DEF TypeOK, Recalled

\* What one more event does to the trace and to the ranks in it.
LEMMA TraceGrows ==
  ASSUME TypeOK, NEW e \in Events, trace' = Append(trace, e), NEW kind
  PROVE  /\ Len(trace) \in Nat /\ DOMAIN trace = 1..Len(trace)
         /\ Len(trace') = Len(trace) + 1 /\ DOMAIN trace' = 1..(Len(trace) + 1)
         /\ \A i \in DOMAIN trace : trace'[i] = trace[i]
         /\ trace'[Len(trace) + 1] = e
         /\ \A i \in 0..Len(trace) : Rank(trace', i, kind) = Rank(trace, i, kind)
         /\ Rank(trace', Len(trace) + 1, kind) =
              Rank(trace, Len(trace), kind) + (IF e.event = kind THEN 1 ELSE 0)
         /\ Rank(trace, Len(trace), kind) \in Nat
<1>1. trace \in Seq(Events) /\ Len(trace) \in Nat /\ DOMAIN trace = 1..Len(trace)
  BY LenProperties DEF TypeOK
<1>2. /\ \A i \in 0..Len(trace) : Rank(trace', i, kind) = Rank(trace, i, kind)
      /\ Rank(trace', Len(trace) + 1, kind) =
           Rank(trace, Len(trace), kind) + (IF e.event = kind THEN 1 ELSE 0)
  BY SMTT(40), <1>1, RankAppend
<1>3. /\ Len(trace') = Len(trace) + 1 /\ DOMAIN trace' = 1..(Len(trace) + 1)
      /\ \A i \in DOMAIN trace : trace'[i] = trace[i]
      /\ trace'[Len(trace) + 1] = e
  BY <1>1, AppendShape
<1>4. Rank(trace, Len(trace), kind) \in Nat
  BY <1>1, RankType
<1> QED BY <1>1, <1>2, <1>3, <1>4

\* The trace tells of the same effects when something else is recorded, also
\* when the executor does more.
LEMMA TellsKept ==
  ASSUME TypeOK, NEW n \in Nat, Tells(trace, n),
         \A k \in 1..n : world'[k] = world[k],
         trace' = trace \/ \E e \in Events : /\ e.event # "action.executed"
                                             /\ trace' = Append(trace, e)
  PROVE  Tells(trace, n)'
<1> DEFINE kind == "action.executed"
<1>1. trace \in Seq(Events) /\ Len(trace) \in Nat /\ DOMAIN trace = 1..Len(trace)
  BY LenProperties DEF TypeOK
<1>2. ASSUME NEW i \in DOMAIN trace, trace[i].event = kind
      PROVE  /\ trace[i].action = world'[Rank(trace, i, kind)].action
             /\ trace[i].ok = world'[Rank(trace, i, kind)].ok
  <2>1. Rank(trace, i, kind) \in 1..n
    BY <1>1, <1>2, RankBounds DEF Tells
  <2> QED BY <1>2, <2>1 DEF Tells
<1>3. CASE trace' = trace
  BY <1>2, <1>3 DEF Tells
<1>4. ASSUME NEW e \in Events, e.event # kind, trace' = Append(trace, e)
      PROVE  Tells(trace, n)'
  <2>1. /\ \A i \in 0..Len(trace) : Rank(trace', i, kind) = Rank(trace, i, kind)
        /\ Rank(trace', Len(trace) + 1, kind) = Rank(trace, Len(trace), kind)
    BY <1>4, TraceGrows
  <2>2. /\ Len(trace') = Len(trace) + 1 /\ DOMAIN trace' = 1..(Len(trace) + 1)
        /\ \A i \in DOMAIN trace : trace'[i] = trace[i]
        /\ trace'[Len(trace) + 1] = e
    BY <1>4, TraceGrows
  <2>3. Rank(trace', Len(trace'), kind) = n
    BY <2>1, <2>2 DEF Tells
  <2>4. ASSUME NEW i \in DOMAIN trace', trace'[i].event = kind
        PROVE  /\ trace'[i].action = world'[Rank(trace', i, kind)].action
               /\ trace'[i].ok = world'[Rank(trace', i, kind)].ok
    <3>1. i # Len(trace) + 1
      BY <1>4, <2>2, <2>4
    <3>2. i \in DOMAIN trace /\ i \in 0..Len(trace)
      BY <1>1, <2>2, <3>1
    <3> QED BY <1>2, <2>1, <2>2, <2>4, <3>2
  <2> QED BY <2>3, <2>4 DEF Tells
<1> QED BY <1>3, <1>4

\* Recording the next effect.
LEMMA TellsOneMore ==
  ASSUME TypeOK, NEW n \in Nat, Tells(trace, n), UNCHANGED world,
         NEW e \in Events, e.event = "action.executed", trace' = Append(trace, e),
         e.action = world[n + 1].action, e.ok = world[n + 1].ok
  PROVE  Tells(trace, n + 1)'
<1> DEFINE kind == "action.executed"
<1>1. trace \in Seq(Events) /\ Len(trace) \in Nat /\ DOMAIN trace = 1..Len(trace)
  BY LenProperties DEF TypeOK
<1>2. /\ \A i \in 0..Len(trace) : Rank(trace', i, kind) = Rank(trace, i, kind)
      /\ Rank(trace', Len(trace) + 1, kind) = n + 1
  BY TraceGrows DEF Tells
<1>3. /\ Len(trace') = Len(trace) + 1 /\ DOMAIN trace' = 1..(Len(trace) + 1)
      /\ \A i \in DOMAIN trace : trace'[i] = trace[i]
      /\ trace'[Len(trace) + 1] = e
  BY TraceGrows
<1>4. ASSUME NEW i \in DOMAIN trace', trace'[i].event = kind
      PROVE  /\ trace'[i].action = world[Rank(trace', i, kind)].action
             /\ trace'[i].ok = world[Rank(trace', i, kind)].ok
  <2>1. CASE i = Len(trace) + 1
    BY <1>2, <1>3, <2>1
  <2>2. CASE i # Len(trace) + 1
    <3>1. i \in DOMAIN trace /\ i \in 0..Len(trace)
      BY <1>1, <1>3, <2>2
    <3> QED BY <1>2, <1>3, <1>4, <3>1 DEF Tells
  <2> QED BY <2>1, <2>2
<1> QED BY <1>2, <1>3, <1>4 DEF Tells

LEMMA AuditInit == Init => AuditInv
<1> SUFFICES ASSUME Init PROVE AuditInv
  OBVIOUS
<1>1. trace = <<>> /\ Len(trace) = 0 /\ Recalled = 0 /\ DOMAIN trace = {}
  BY EmptySeq DEF Init, Recalled
<1>2. {j \in 1..0 : trace[j].event = "action.executed"} = {}
  OBVIOUS
<1>3. Rank(trace, 0, "action.executed") = 0
  BY <1>2, FS_EmptySet DEF Rank
<1>4. Tells(trace, Recalled)
  BY <1>1, <1>3 DEF Tells
<1> QED BY <1>4 DEF Init, AuditInv

LEMMA AuditStep ==
  ASSUME TypeOK, AuditInv, [Next]_vars
  PROVE  AuditInv'
<1>1. /\ Recalled \in Nat /\ Len(world) \in Nat /\ Recalled <= Len(world)
      /\ pc \in {"observe", "allow"} => Len(world) = Recalled + 1
      /\ pc \notin {"observe", "allow"} => Len(world) = Recalled
  BY RecalledType
<1>2. pc \in Deciding \cup {"propose"} => Current \in Actions
  BY CurrentType DEF TypeOK
\* While the runner runs there is nothing stored.
<1>3. ASSUME status = "running", UNCHANGED <<status, stored>>,
             Tells(trace, Recalled)',
             (pc \in {"observe", "allow"} => world[Len(world)].action = Current)'
      PROVE  AuditInv'
  BY <1>3 DEF AuditInv
<1>4. ASSUME status = "running", UNCHANGED <<status, stored, world>>,
             \/ pc \notin {"observe", "allow"} /\ pc' \notin {"observe", "allow"}
             \/ UNCHANGED pending /\ pc = "observe" /\ pc' = "allow",
             trace' = trace \/ \E e \in Events : /\ e.event # "action.executed"
                                                 /\ trace' = Append(trace, e)
      PROVE  AuditInv'
  <2>1. Recalled' = Recalled
    BY <1>4 DEF Recalled
  <2>2. Tells(trace, Recalled)'
    <3> DEFINE n == Recalled
    <3>1. n \in Nat /\ Tells(trace, n)
      BY <1>1 DEF AuditInv
    <3> QED BY <1>4, <2>1, <3>1, TellsKept
  <2> QED BY <1>3, <1>4, <2>2 DEF AuditInv, Current
<1>5. CASE Idle \/ Receive \/ CountTick
  BY <1>4, <1>5 DEF Idle, Receive, CountTick, At
<1>6. CASE Dispatch \/ DispatchError
  <2>1. /\ msg \in Messages /\ status = "running" /\ UNCHANGED <<status, stored, world>>
        /\ pc = "dispatch" /\ pc' \in {"end", "propose"}
        /\ trace' = Append(trace, Received(msg))
    BY <1>6 DEF Dispatch, DispatchError, At, TypeOK
  <2>2. Received(msg) \in Events /\ Received(msg).event # "action.executed"
    BY <2>1, EventsType DEF Received
  <2> QED BY <1>4, <2>1, <2>2
<1>7. CASE Propose
  <2>1. Proposed(Current) \in Events /\ Proposed(Current).event # "action.executed"
    BY <1>2, <1>7, EventsType DEF Propose, At, Proposed
  <2> QED BY <1>4, <1>7, <2>1 DEF Propose, At
<1>8. CASE EvaluateGate
  <2> DEFINE v == Evaluate(gate, state, Current)
  <2>1. Current \in Actions /\ v \in Verdicts
    BY <1>2, <1>8, EvaluateType, RunnerAssumption DEF EvaluateGate, At, TypeOK, Deciding
  <2>2. Verdict(Current, v) \in Events /\ Verdict(Current, v).event # "action.executed"
    BY <2>1, EventsType DEF Verdict
  <2> QED BY <1>4, <1>8, <2>2 DEF EvaluateGate, At
<1>9. CASE Deny
  BY <1>4, <1>9 DEF Deny, At, NextAction
<1>10. CASE SkipMcp
  <2>1. Skipped(Current) \in Events /\ Skipped(Current).event # "action.executed"
    BY <1>2, <1>10, EventsType DEF SkipMcp, At, Skipped, Deciding
  <2> QED BY <1>4, <1>10, <2>1 DEF SkipMcp, At, NextAction
<1>11. CASE Execute
  <2>1. PICK ok \in BOOLEAN :
          world' = Append(world, [action |-> Current, state |-> state, ok |-> ok])
    BY <1>11 DEF Execute
  <2>2. [action |-> Current, state |-> state, ok |-> ok] \in Performed
    BY <1>2, <1>11 DEF Execute, At, Deciding, Performed, TypeOK
  <2>3. /\ Len(world') = Len(world) + 1
        /\ \A k \in 1..Len(world) : world'[k] = world[k]
        /\ world'[Len(world) + 1].action = Current
    <3>1. world \in Seq(Performed)
      BY DEF TypeOK
    <3>2. /\ Len(world') = Len(world) + 1
          /\ \A k \in 1..Len(world) : world'[k] = world[k]
          /\ world'[Len(world) + 1] = [action |-> Current, state |-> state, ok |-> ok]
      BY <2>1, <2>2, <3>1, AppendProperties, LenProperties
    <3> QED BY <3>2
  <2>4. /\ status = "running" /\ UNCHANGED <<status, stored, trace, pending>>
        /\ pc = "allowlist" /\ pc' = "observe"
    BY <1>11 DEF Execute, At
  <2>5. Recalled' = Recalled
    BY <1>1, <2>3, <2>4 DEF Recalled
  <2>6. Tells(trace, Recalled)'
    <3> DEFINE n == Recalled
    <3>1. n \in Nat /\ Tells(trace, n) /\ n = Len(world)
      BY <1>1, <2>4 DEF AuditInv
    <3> QED BY <2>3, <2>4, <2>5, <3>1, TellsKept
  <2> QED BY <1>3, <2>3, <2>4, <2>6 DEF Current
<1>12. CASE ObserveExecute
  BY <1>4, <1>12 DEF ObserveExecute, At
<1>13. CASE Allow
  <2> DEFINE e == Executed(Current, world[Len(world)].ok)
  <2>1. /\ status = "running" /\ UNCHANGED <<status, stored, world>>
        /\ pc = "allow" /\ pc' \notin {"observe", "allow"}
        /\ trace' = Append(trace, e)
    BY <1>13 DEF Allow, At, NextAction
  <2>2. PICK n \in Nat : Tells(trace, n) /\ Len(world) = n + 1
    BY <1>1, <2>1 DEF AuditInv
  <2>3. world[Len(world)].ok \in BOOLEAN
    <3>1. world[Len(world)] \in Performed
      BY <1>13, LastType DEF Allow, At, TypeOK
    <3> QED BY <3>1 DEF Performed
  <2>4. /\ e \in Events /\ e.event = "action.executed"
        /\ e.action = world[n + 1].action /\ e.ok = world[n + 1].ok
    BY <1>2, <2>1, <2>2, <2>3, EventsType DEF AuditInv, Executed, Deciding
  <2>5. Tells(trace, n + 1)'
    BY <2>1, <2>2, <2>4, TellsOneMore
  <2>6. Recalled' = n + 1
    BY <2>1, <2>2 DEF Recalled
  <2>7. Tells(trace, Recalled)'
    BY <2>5, <2>6 DEF Tells
  <2> QED BY <1>3, <2>1, <2>7
<1>14. CASE EndStep \/ ObserveStep
  BY <1>4, <1>14 DEF EndStep, ObserveStep, At
<1>15. ASSUME UNCHANGED <<pc, pending, world, trace>>,
              status' # "finalized" => stored' = {},
              \A tr \in stored' : tr \in stored \/ (tr = trace /\ pc = "loop")
       PROVE  AuditInv'
  <2>1. Recalled' = Recalled
    BY <1>15 DEF Recalled
  <2>3. Tells(trace, Recalled)'
    BY <1>15, <2>1 DEF AuditInv, Tells
  <2>2. \A tr \in stored' : Tells(tr, Len(world))
    BY <1>1, <1>15 DEF AuditInv
  <2> QED BY <1>15, <2>2, <2>3 DEF AuditInv, Current, Tells
<1>16. CASE Finalize
  BY <1>15, <1>16 DEF Finalize, At, AuditInv
<1>17. ASSUME \/ \E p \in Peers, t \in Topics : Send(p, t)
              \/ \E t \in TickTopics : Tick(t) \/ TickExit(t)
              \/ Crash \/ UNCHANGED vars
       PROVE  AuditInv'
  <2>1. UNCHANGED <<pc, pending, world, trace, stored>>
    BY <1>17 DEF Send, Tick, TickExit, Crash, vars
  <2>2. status' # "finalized" => status # "finalized"
    BY <1>17 DEF Send, Tick, TickExit, Crash, vars
  <2>3. status' # "finalized" => stored' = {}
    BY <2>1, <2>2 DEF AuditInv
  <2> QED BY <1>15, <2>1, <2>3
<1> QED
  BY <1>5, <1>6, <1>7, <1>8, <1>9, <1>10, <1>11, <1>12, <1>13, <1>14,
     <1>16, <1>17
  DEF Next, Step

\* What the executor did is in the trace, in its order and with its outcome,
\* but for the action the runner is just dealing with; a stored trace misses
\* nothing (runner.rs:253-257, trace.rs:74-89).
THEOREM AuditTrailHolds == Spec => []AuditTrail
<1>1. TypeOK /\ AuditInv /\ [Next]_vars => AuditInv'
  BY AuditStep
<1>2. AuditInv => AuditTrail
  BY DEF AuditInv, AuditTrail, Recalled
<1> QED BY <1>1, <1>2, TypeCorrect, AuditInit, PTL DEF Spec

-----------------------------------------------------------------------------
(* Messages, mailbox and trace.                                            *)

Heard == Rank(trace, Len(trace), "a2a.received")
Held == IF pc \in {"tick", "dispatch"} THEN 1 ELSE 0

\* What was accepted is, in this order, what the trace heard, the message in
\* hand and the mailbox.
OrderInv ==
  /\ Heard + Held + Len(mailbox) = Len(accepted)
  /\ Held = 1 => msg = accepted[Heard + 1]
  /\ \A i \in 1..Len(mailbox) : mailbox[i] = accepted[Heard + Held + i]
  /\ \A i \in DOMAIN trace : trace[i].event = "a2a.received" =>
       trace[i].msg = accepted[Rank(trace, i, "a2a.received")]

LEMMA OrderTypes ==
  ASSUME TypeOK
  PROVE  /\ Heard \in Nat /\ Held \in {0, 1}
         /\ mailbox \in Seq(Messages) /\ Len(mailbox) \in Nat
         /\ DOMAIN mailbox = 1..Len(mailbox)
         /\ accepted \in Seq(Messages) /\ Len(accepted) \in Nat
         /\ DOMAIN accepted = 1..Len(accepted)
<1>1. Len(trace) \in Nat
  BY LenProperties DEF TypeOK
<1>2. Heard \in Nat
  BY <1>1, RankType DEF Heard
<1> QED BY <1>2, LenProperties DEF TypeOK, Held

\* A message is accepted while the runner works on another one or on none.
LEMMA OrderSend ==
  ASSUME TypeOK, OrderInv, NEW m \in Messages,
         mailbox' = Append(mailbox, m), accepted' = Append(accepted, m),
         UNCHANGED <<trace, pc, msg>>
  PROVE  OrderInv'
<1>1. /\ Heard' = Heard /\ Held' = Held /\ Heard \in Nat /\ Held \in {0, 1}
      /\ Len(mailbox) \in Nat /\ Len(accepted) \in Nat
      /\ DOMAIN mailbox = 1..Len(mailbox) /\ DOMAIN accepted = 1..Len(accepted)
  BY OrderTypes DEF Heard, Held
<1>2. /\ Len(mailbox') = Len(mailbox) + 1
      /\ \A i \in 1..Len(mailbox) : mailbox'[i] = mailbox[i]
      /\ mailbox'[Len(mailbox) + 1] = m
  BY OrderTypes, AppendShape
<1>3. /\ Len(accepted') = Len(accepted) + 1
      /\ \A i \in 1..Len(accepted) : accepted'[i] = accepted[i]
      /\ accepted'[Len(accepted) + 1] = m
  BY OrderTypes, AppendShape
<1>4. Heard + Held + Len(mailbox) = Len(accepted)
  BY DEF OrderInv
<1>5. ASSUME NEW i \in 1..Len(mailbox')
      PROVE  mailbox'[i] = accepted'[Heard + Held + i]
  <2>1. CASE i = Len(mailbox) + 1
    <3>1. Heard + Held + i = Len(accepted) + 1
      BY <1>1, <1>4, <2>1
    <3> QED BY <1>2, <1>3, <2>1, <3>1
  <2>2. CASE i # Len(mailbox) + 1
    <3>1. i \in 1..Len(mailbox)
      BY <1>1, <1>2, <2>2
    <3>2. Heard + Held + i \in 1..Len(accepted)
      BY <1>1, <1>4, <3>1
    <3>3. mailbox[i] = accepted[Heard + Held + i]
      BY <3>1 DEF OrderInv
    <3> QED BY <1>2, <1>3, <3>1, <3>2, <3>3
  <2> QED BY <2>1, <2>2
<1>6. Held = 1 => msg = accepted'[Heard + 1]
  BY <1>1, <1>3, <1>4 DEF OrderInv
<1>7. ASSUME NEW i \in DOMAIN trace, trace[i].event = "a2a.received"
      PROVE  trace[i].msg = accepted'[Rank(trace, i, "a2a.received")]
  <2>1. Rank(trace, i, "a2a.received") \in 1..Heard
    <3>1. i \in 1..Len(trace) /\ Len(trace) \in Nat
      BY LenProperties DEF TypeOK
    <3> QED BY <1>7, <3>1, RankBounds DEF Heard
  <2>2. Rank(trace, i, "a2a.received") \in 1..Len(accepted)
    BY <1>1, <1>4, <2>1
  <2> QED BY <1>3, <1>7, <2>2 DEF OrderInv
<1>8. Heard + Held + Len(mailbox') = Len(accepted')
  BY SMTT(40), <1>1, <1>2, <1>3, <1>4
<1> QED BY <1>1, <1>5, <1>6, <1>7, <1>8 DEF OrderInv

\* The next message is taken in hand.
LEMMA OrderReceive ==
  ASSUME TypeOK, OrderInv, Receive
  PROVE  OrderInv'
<1>1. /\ UNCHANGED <<trace, accepted>> /\ mailbox # <<>>
      /\ msg' = Head(mailbox) /\ mailbox' = Tail(mailbox)
      /\ Held = 0 /\ Held' = 1 /\ Heard' = Heard
  BY DEF Receive, At, Held, Heard
<1>2. /\ mailbox \in Seq(Messages) /\ Len(mailbox) \in Nat /\ Heard \in Nat /\ Len(accepted) \in Nat
  BY OrderTypes
<1>3. /\ Len(mailbox) > 0 /\ Len(mailbox') = Len(mailbox) - 1
      /\ Head(mailbox) = mailbox[1]
      /\ \A i \in 1..Len(mailbox') : mailbox'[i] = mailbox[i + 1]
  BY <1>1, <1>2, HeadTailProperties, EmptySeq, LenProperties
<1>4. /\ Heard + Len(mailbox) = Len(accepted)
      /\ \A i \in 1..Len(mailbox) : mailbox[i] = accepted[Heard + i]
  BY <1>1, <1>2 DEF OrderInv
<1>5. msg' = accepted[Heard + 1]
  BY <1>1, <1>2, <1>3, <1>4
<1>6. ASSUME NEW i \in 1..Len(mailbox')
      PROVE  mailbox'[i] = accepted[Heard + 1 + i]
  <2>1. i + 1 \in 1..Len(mailbox) /\ Heard + (i + 1) = Heard + 1 + i
    BY <1>2, <1>3
  <2> QED BY <1>3, <1>4, <2>1
<1>7. Heard + 1 + Len(mailbox') = Len(accepted)
  BY SMTT(40), <1>2, <1>3, <1>4
<1> QED BY <1>1, <1>5, <1>6, <1>7 DEF OrderInv

\* The message in hand is recorded.
LEMMA OrderHeard ==
  ASSUME TypeOK, OrderInv, pc = "dispatch", pc' \in {"end", "propose"},
         trace' = Append(trace, Received(msg)), UNCHANGED <<mailbox, accepted>>
  PROVE  OrderInv'
<1> DEFINE kind == "a2a.received"
           e == Received(msg)
<1>1. e \in Events /\ e.event = kind /\ e.msg = msg
  BY EventsType DEF TypeOK, Received
<1>2. /\ Len(trace) \in Nat /\ DOMAIN trace = 1..Len(trace)
      /\ Len(trace') = Len(trace) + 1 /\ DOMAIN trace' = 1..(Len(trace) + 1)
      /\ \A i \in DOMAIN trace : trace'[i] = trace[i]
      /\ trace'[Len(trace) + 1] = e
      /\ \A i \in 0..Len(trace) : Rank(trace', i, kind) = Rank(trace, i, kind)
      /\ Rank(trace', Len(trace) + 1, kind) = Heard + 1
  BY <1>1, TraceGrows DEF Heard
<1>3. /\ Heard' = Heard + 1 /\ Held = 1 /\ Held' = 0
      /\ Heard \in Nat /\ Len(mailbox) \in Nat
  BY <1>2, OrderTypes DEF Heard, Held
<1>4. ASSUME NEW i \in DOMAIN trace', trace'[i].event = kind
      PROVE  trace'[i].msg = accepted[Rank(trace', i, kind)]
  <2>1. CASE i = Len(trace) + 1
    BY <1>1, <1>2, <1>3, <2>1 DEF OrderInv
  <2>2. CASE i # Len(trace) + 1
    <3>1. i \in DOMAIN trace /\ i \in 0..Len(trace)
      BY <1>2, <2>2
    <3> QED BY <1>2, <1>4, <3>1 DEF OrderInv
  <2> QED BY <2>1, <2>2
<1>5. \A i \in 1..Len(mailbox) : mailbox[i] = accepted[Heard' + Held' + i]
  BY <1>3 DEF OrderInv
<1>6. Heard' + Held' + Len(mailbox) = Len(accepted)
  BY <1>3 DEF OrderInv
<1> QED BY <1>3, <1>4, <1>5, <1>6 DEF OrderInv

\* Anything else the runner does or records.
LEMMA OrderKept ==
  ASSUME TypeOK, OrderInv, UNCHANGED <<mailbox, accepted>>,
         Held' = Held, Held = 1 => msg' = msg,
         trace' = trace \/ \E e \in Events : /\ e.event # "a2a.received"
                                             /\ trace' = Append(trace, e)
  PROVE  OrderInv'
<1> DEFINE kind == "a2a.received"
<1>1. CASE trace' = trace
  <2>1. Heard' = Heard
    BY <1>1 DEF Heard
  <2> QED BY <1>1, <2>1 DEF OrderInv
<1>2. ASSUME NEW e \in Events, e.event # kind, trace' = Append(trace, e)
      PROVE  OrderInv'
  <2>1. /\ Len(trace) \in Nat /\ DOMAIN trace = 1..Len(trace)
        /\ Len(trace') = Len(trace) + 1 /\ DOMAIN trace' = 1..(Len(trace) + 1)
        /\ \A i \in DOMAIN trace : trace'[i] = trace[i]
        /\ trace'[Len(trace) + 1] = e
        /\ \A i \in 0..Len(trace) : Rank(trace', i, kind) = Rank(trace, i, kind)
    BY <1>2, TraceGrows
  <2>2. Rank(trace', Len(trace) + 1, kind) = Rank(trace, Len(trace), kind)
    BY <1>2, TraceGrows
  <2>3. Heard' = Heard
    BY <2>1, <2>2 DEF Heard
  <2>4. ASSUME NEW i \in DOMAIN trace', trace'[i].event = kind
        PROVE  trace'[i].msg = accepted[Rank(trace', i, kind)]
    <3>1. i # Len(trace) + 1
      BY Zenon, <1>2, <2>1, <2>4
    <3>2. i \in DOMAIN trace /\ i \in 0..Len(trace)
      BY <2>1, <3>1
    <3> QED BY SMTT(40), <2>1, <2>4, <3>2 DEF OrderInv
  <2> QED BY <2>3, <2>4 DEF OrderInv
<1> QED BY <1>1, <1>2

LEMMA OrderInit == Init => OrderInv
<1> SUFFICES ASSUME Init PROVE OrderInv
  OBVIOUS
<1>1. /\ DOMAIN trace = {} /\ Len(trace) = 0 /\ Len(mailbox) = 0 /\ Len(accepted) = 0
      /\ Held = 0
  BY EmptySeq DEF Init, Held
<1>2. {j \in 1..0 : trace[j].event = "a2a.received"} = {}
  OBVIOUS
<1>3. Heard = 0
  BY <1>1, <1>2, FS_EmptySet DEF Heard, Rank
<1> QED BY <1>1, <1>3 DEF OrderInv

LEMMA OrderStep ==
  ASSUME TypeOK, OrderInv, [Next]_vars
  PROVE  OrderInv'
<1>1. pc \in Deciding \cup {"propose"} => Current \in Actions
  BY CurrentType DEF TypeOK
<1>2. ASSUME NEW p \in Peers, NEW t \in Topics, Send(p, t) PROVE OrderInv'
  <2>1. [from |-> p, topic |-> t] \in Messages
    BY DEF Messages
  <2> QED BY <1>2, <2>1, OrderSend DEF Send, Accept
<1>3. ASSUME NEW t \in TickTopics, Tick(t) PROVE OrderInv'
  <2>1. TickOf(t) \in Messages
    BY RunnerAssumption DEF TickOf, Messages
  <2> QED BY <1>3, <2>1, OrderSend DEF Tick, Accept
<1>4. CASE Receive
  BY <1>4, OrderReceive
<1>5. CASE Dispatch \/ DispatchError
  BY <1>5, OrderHeard DEF Dispatch, DispatchError, At
\* Elsewhere no message is in hand, or the same one.
<1>6. ASSUME UNCHANGED <<mailbox, accepted, msg>>,
             Held' = Held,
             trace' = trace \/ \E e \in Events : /\ e.event # "a2a.received"
                                                 /\ trace' = Append(trace, e)
      PROVE  OrderInv'
  BY <1>6, OrderKept
<1>7. CASE Idle \/ CountTick \/ Deny \/ Execute \/ ObserveExecute \/ EndStep \/ ObserveStep
  <2>1. UNCHANGED <<mailbox, accepted, msg, trace>> /\ Held' = Held
    BY <1>7 DEF Idle, CountTick, Deny, Execute, ObserveExecute, EndStep, ObserveStep, At,
                Held, NextAction
  <2> QED BY <1>6, <2>1
<1>8. CASE Propose
  <2>1. /\ UNCHANGED <<mailbox, accepted, msg>> /\ Held' = Held
        /\ trace' = Append(trace, Proposed(Current))
    BY <1>8 DEF Propose, At, Held
  <2>2. Proposed(Current) \in Events /\ Proposed(Current).event # "a2a.received"
    BY <1>1, <1>8, EventsType DEF Propose, At, Proposed
  <2> QED BY <1>6, <2>1, <2>2
<1>9. CASE EvaluateGate
  <2> DEFINE v == Evaluate(gate, state, Current)
  <2>1. Current \in Actions /\ v \in Verdicts
    BY <1>1, <1>9, EvaluateType, RunnerAssumption DEF EvaluateGate, At, TypeOK, Deciding
  <2>2. /\ UNCHANGED <<mailbox, accepted, msg>> /\ Held' = Held
        /\ trace' = Append(trace, Verdict(Current, v))
    BY <1>9 DEF EvaluateGate, At, Held
  <2> HIDE DEF v
  <2>3. Verdict(Current, v) \in Events /\ Verdict(Current, v).event # "a2a.received"
    BY <2>1, EventsType DEF Verdict
  <2> QED BY <1>6, <2>2, <2>3
<1>10. CASE SkipMcp
  <2>1. /\ UNCHANGED <<mailbox, accepted, msg>> /\ Held' = Held
        /\ trace' = Append(trace, Skipped(Current))
    BY <1>10 DEF SkipMcp, At, Held, NextAction
  <2>2. Skipped(Current) \in Events /\ Skipped(Current).event # "a2a.received"
    BY <1>1, <1>10, EventsType DEF SkipMcp, At, Skipped, Deciding
  <2> QED BY <1>6, <2>1, <2>2
<1>11. CASE Allow
  <2> DEFINE e == Executed(Current, world[Len(world)].ok)
  <2>1. /\ UNCHANGED <<mailbox, accepted, msg>> /\ Held' = Held
        /\ trace' = Append(trace, e)
    BY <1>11 DEF Allow, At, Held, NextAction
  <2>2. world[Len(world)].ok \in BOOLEAN
    <3>1. world[Len(world)] \in Performed
      BY <1>11, LastType DEF Allow, At, TypeOK
    <3> QED BY <3>1 DEF Performed
  <2>3. e \in Events /\ e.event # "a2a.received"
    BY <1>1, <1>11, <2>2, EventsType DEF Allow, At, Executed, Deciding
  <2> QED BY <1>6, <2>1, <2>3
<1>12. ASSUME (\E t \in TickTopics : TickExit(t)) \/ Finalize \/ Crash \/ UNCHANGED vars
       PROVE  OrderInv'
  <2>1. UNCHANGED <<mailbox, accepted, msg, trace, pc>>
    BY <1>12 DEF TickExit, Finalize, Crash, vars
  <2> QED BY <1>6, <2>1 DEF Held
<1> QED
  BY <1>2, <1>3, <1>4, <1>5, <1>7, <1>8, <1>9, <1>10, <1>11, <1>12 DEF Next, Step

OnTopic(t) == {m \in Messages : m.topic = t}

\* The counters of messages and ticks, and the messages still to be counted.
TallyInv ==
  /\ pc = "tick" => msg.from = Self
  /\ \A t \in Topics :
       /\ metrics[<<"messages", t>>] + Hits(mailbox, OnTopic(t)) = Hits(accepted, OnTopic(t))
       /\ metrics[<<"ticks", t>>] + Hits(mailbox, {TickOf(t)})
            + (IF pc = "tick" /\ msg = TickOf(t) THEN 1 ELSE 0)
            = Hits(accepted, {TickOf(t)})

LEMMA TallyTypes ==
  ASSUME TypeOK, NEW t \in Topics
  PROVE  /\ <<"messages", t>> \in Counters /\ metrics[<<"messages", t>>] \in Nat
         /\ <<"ticks", t>> \in Counters /\ metrics[<<"ticks", t>>] \in Nat
         /\ \A S : Hits(mailbox, S) \in Nat /\ Hits(accepted, S) \in Nat
<1>1. mailbox \in Seq(Messages) /\ accepted \in Seq(Messages) /\ metrics \in [Counters -> Nat]
  BY DEF TypeOK
<1>2. \A S : Hits(mailbox, S) \in Nat /\ Hits(accepted, S) \in Nat
  BY <1>1, HitsFinite
<1> QED BY <1>1, <1>2, CounterNames

LEMMA TallySend ==
  ASSUME TypeOK, TallyInv, NEW m \in Messages,
         mailbox' = Append(mailbox, m), accepted' = Append(accepted, m),
         UNCHANGED <<metrics, pc, msg>>
  PROVE  TallyInv'
<1>1. ASSUME NEW S
      PROVE  /\ Hits(mailbox', S) = Hits(mailbox, S) + (IF m \in S THEN 1 ELSE 0)
             /\ Hits(accepted', S) = Hits(accepted, S) + (IF m \in S THEN 1 ELSE 0)
  BY OrderTypes, HitsAppend
<1>2. ASSUME NEW t \in Topics
      PROVE  /\ metrics[<<"messages", t>>] + Hits(mailbox', OnTopic(t)) = Hits(accepted', OnTopic(t))
             /\ metrics[<<"ticks", t>>] + Hits(mailbox', {TickOf(t)})
                  + (IF pc = "tick" /\ msg = TickOf(t) THEN 1 ELSE 0)
                  = Hits(accepted', {TickOf(t)})
  <2> DEFINE counted == IF pc = "tick" /\ msg = TickOf(t) THEN 1 ELSE 0
  <2>1. metrics[<<"messages", t>>] + Hits(mailbox, OnTopic(t)) = Hits(accepted, OnTopic(t))
    BY DEF TallyInv
  <2>2. metrics[<<"ticks", t>>] + Hits(mailbox, {TickOf(t)}) + counted = Hits(accepted, {TickOf(t)})
    BY DEF TallyInv
  <2>3. /\ metrics[<<"messages", t>>] \in Nat /\ metrics[<<"ticks", t>>] \in Nat
        /\ Hits(mailbox, OnTopic(t)) \in Nat /\ Hits(accepted, OnTopic(t)) \in Nat
        /\ Hits(mailbox, {TickOf(t)}) \in Nat /\ Hits(accepted, {TickOf(t)}) \in Nat
        /\ counted \in Nat
    BY TallyTypes
  <2>4. /\ Hits(mailbox', OnTopic(t)) =
             Hits(mailbox, OnTopic(t)) + (IF m \in OnTopic(t) THEN 1 ELSE 0)
        /\ Hits(accepted', OnTopic(t)) =
             Hits(accepted, OnTopic(t)) + (IF m \in OnTopic(t) THEN 1 ELSE 0)
    BY <1>1
  <2> DEFINE added == IF m \in {TickOf(t)} THEN 1 ELSE 0
  <2>5. /\ Hits(mailbox', {TickOf(t)}) = Hits(mailbox, {TickOf(t)}) + added
        /\ Hits(accepted', {TickOf(t)}) = Hits(accepted, {TickOf(t)}) + added
        /\ added \in Nat
    BY <1>1
  <2>6. metrics[<<"messages", t>>] + Hits(mailbox', OnTopic(t)) = Hits(accepted', OnTopic(t))
    BY SMTT(40), <2>1, <2>3, <2>4
  <2> HIDE DEF counted, added
  <2>7. metrics[<<"ticks", t>>] + Hits(mailbox', {TickOf(t)}) + counted = Hits(accepted', {TickOf(t)})
    BY SMTT(40), <2>2, <2>3, <2>5
  <2> QED BY <2>6, <2>7 DEF counted
<1> QED BY <1>2 DEF TallyInv

LEMMA TallyReceive ==
  ASSUME TypeOK, TallyInv, Receive
  PROVE  TallyInv'
<1>1. /\ UNCHANGED accepted /\ mailbox # <<>> /\ mailbox \in Seq(Messages)
      /\ msg' = Head(mailbox) /\ mailbox' = Tail(mailbox)
      /\ Inc(<<"messages", msg'.topic>>)
      /\ pc = "loop" /\ pc' = IF msg'.from = Self THEN "tick" ELSE "dispatch"
  BY DEF Receive, At, TypeOK
<1>2. msg' \in Messages
  BY <1>1, HeadTailProperties
<1>3. ASSUME NEW S
      PROVE  Hits(mailbox, S) = Hits(mailbox', S) + (IF msg' \in S THEN 1 ELSE 0)
  BY <1>1, HitsTail
<1>4. mailbox' \in Seq(Messages)
  BY <1>1, HeadTailProperties
<1>5. \A S : Hits(mailbox', S) \in Nat
  BY <1>4, HitsFinite
<1>6. \A d \in Counters : metrics'[d] = IF d = <<"messages", msg'.topic>>
                                        THEN metrics[d] + 1 ELSE metrics[d]
  BY <1>1, <1>2, CounterNames, IncOne DEF TypeOK, Messages
<1>7. ASSUME NEW t \in Topics
      PROVE  metrics'[<<"messages", t>>] + Hits(mailbox', OnTopic(t)) = Hits(accepted, OnTopic(t))
  <2>1. /\ <<"messages", t>> \in Counters /\ metrics[<<"messages", t>>] \in Nat
        /\ metrics[<<"messages", t>>] + Hits(mailbox, OnTopic(t)) = Hits(accepted, OnTopic(t))
    BY TallyTypes DEF TallyInv
  <2>2. metrics'[<<"messages", t>>] =
          metrics[<<"messages", t>>] + (IF msg'.topic = t THEN 1 ELSE 0)
    BY <1>6, <2>1
  <2>3. msg' \in OnTopic(t) <=> msg'.topic = t
    BY <1>2 DEF OnTopic
  <2> QED BY <1>3, <1>5, <2>1, <2>2, <2>3
<1>8. ASSUME NEW t \in Topics
      PROVE  metrics'[<<"ticks", t>>] + Hits(mailbox', {TickOf(t)})
               + (IF pc' = "tick" /\ msg' = TickOf(t) THEN 1 ELSE 0)
               = Hits(accepted, {TickOf(t)})
  <2>1. /\ <<"ticks", t>> \in Counters /\ metrics[<<"ticks", t>>] \in Nat
        /\ metrics[<<"ticks", t>>] + Hits(mailbox, {TickOf(t)}) = Hits(accepted, {TickOf(t)})
    <3>1. /\ metrics[<<"ticks", t>>] + Hits(mailbox, {TickOf(t)})
               + (IF pc = "tick" /\ msg = TickOf(t) THEN 1 ELSE 0)
               = Hits(accepted, {TickOf(t)})
          /\ <<"ticks", t>> \in Counters /\ metrics[<<"ticks", t>>] \in Nat
          /\ Hits(mailbox, {TickOf(t)}) \in Nat
      BY TallyTypes DEF TallyInv
    <3> QED BY <1>1, <3>1
  <2>2. metrics'[<<"ticks", t>>] = metrics[<<"ticks", t>>]
    BY <1>6, <2>1
  <2>3. pc' = "tick" /\ msg' = TickOf(t) <=> msg' \in {TickOf(t)}
    BY <1>1 DEF TickOf
  <2>4. Hits(mailbox, {TickOf(t)}) =
          Hits(mailbox', {TickOf(t)}) + (IF msg' \in {TickOf(t)} THEN 1 ELSE 0)
    BY <1>3
  <2>5. Hits(mailbox', {TickOf(t)}) \in Nat
    BY <1>5
  <2> QED BY <2>1, <2>2, <2>3, <2>4, <2>5
<1>9. pc' = "tick" => msg'.from = Self
  BY <1>1
<1> QED BY <1>1, <1>7, <1>8, <1>9 DEF TallyInv

LEMMA TallyTick ==
  ASSUME TypeOK, TallyInv, CountTick
  PROVE  TallyInv'
<1>1. /\ UNCHANGED <<mailbox, accepted, msg>> /\ msg \in Messages
      /\ Inc(<<"ticks", msg.topic>>) /\ pc = "tick" /\ pc' = "dispatch"
  BY DEF CountTick, At, TypeOK
<1>2. \A d \in Counters : metrics'[d] = IF d = <<"ticks", msg.topic>>
                                        THEN metrics[d] + 1 ELSE metrics[d]
  BY <1>1, CounterNames, IncOne DEF TypeOK, Messages
<1>3. msg.from = Self
  BY <1>1 DEF TallyInv
<1>4. ASSUME NEW t \in Topics
      PROVE  /\ metrics'[<<"messages", t>>] = metrics[<<"messages", t>>]
             /\ metrics'[<<"ticks", t>>] =
                  metrics[<<"ticks", t>>] + (IF msg = TickOf(t) THEN 1 ELSE 0)
  <2>1. /\ <<"messages", t>> \in Counters /\ <<"ticks", t>> \in Counters
        /\ metrics[<<"ticks", t>>] \in Nat
    BY TallyTypes
  <2>2. msg = TickOf(t) <=> msg.topic = t
    BY <1>1, <1>3 DEF TickOf, Messages
  <2> QED BY <1>2, <2>1, <2>2
<1>5. ASSUME NEW t \in Topics
      PROVE  metrics'[<<"ticks", t>>] + Hits(mailbox, {TickOf(t)}) = Hits(accepted, {TickOf(t)})
  <2> DEFINE counted == IF msg = TickOf(t) THEN 1 ELSE 0
  <2>1. metrics[<<"ticks", t>>] + Hits(mailbox, {TickOf(t)}) + counted = Hits(accepted, {TickOf(t)})
    BY <1>1 DEF TallyInv
  <2>2. metrics[<<"ticks", t>>] \in Nat /\ Hits(mailbox, {TickOf(t)}) \in Nat /\ counted \in Nat
    BY TallyTypes
  <2>3. metrics'[<<"ticks", t>>] = metrics[<<"ticks", t>>] + counted
    BY <1>4
  <2> HIDE DEF counted
  <2> QED BY <2>1, <2>2, <2>3
<1>6. ASSUME NEW t \in Topics
      PROVE  Hits(mailbox, {TickOf(t)}) \in Nat /\ metrics'[<<"ticks", t>>] \in Nat
  <2> DEFINE counted == IF msg = TickOf(t) THEN 1 ELSE 0
  <2>1. metrics[<<"ticks", t>>] \in Nat /\ Hits(mailbox, {TickOf(t)}) \in Nat /\ counted \in Nat
    BY TallyTypes
  <2>2. metrics'[<<"ticks", t>>] = metrics[<<"ticks", t>>] + counted
    BY <1>4
  <2> HIDE DEF counted
  <2> QED BY <2>1, <2>2
<1> QED BY <1>1, <1>4, <1>5, <1>6 DEF TallyInv

LEMMA TallyStep ==
  ASSUME TypeOK, TallyInv, [Next]_vars
  PROVE  TallyInv'
<1>1. pc \in Deciding \cup {"propose"} => Current.kind \in Kinds
  BY CurrentType DEF TypeOK
<1>2. ASSUME NEW p \in Peers, NEW t \in Topics, Send(p, t) PROVE TallyInv'
  <2>1. [from |-> p, topic |-> t] \in Messages
    BY DEF Messages
  <2> QED BY <1>2, <2>1, TallySend DEF Send, Accept
<1>3. ASSUME NEW t \in TickTopics, Tick(t) PROVE TallyInv'
  <2>1. TickOf(t) \in Messages
    BY RunnerAssumption DEF TickOf, Messages
  <2> QED BY <1>3, <2>1, TallySend DEF Tick, Accept
<1>4. ASSUME UNCHANGED <<mailbox, accepted>>, pc # "tick", pc' # "tick",
             metrics' = metrics \/ \E c \in Counters : /\ c[1] \notin {"messages", "ticks"}
                                                       /\ Inc(c)
      PROVE  TallyInv'
  <2>1. ASSUME NEW t \in Topics
        PROVE  /\ metrics'[<<"messages", t>>] = metrics[<<"messages", t>>]
               /\ metrics'[<<"ticks", t>>] = metrics[<<"ticks", t>>]
    BY <1>4, TallyTypes, IncOne DEF TypeOK
  <2> QED BY <1>4, <2>1 DEF TallyInv
<1>5. CASE Dispatch \/ DispatchError \/ Execute
  <2>1. UNCHANGED <<mailbox, accepted, metrics>> /\ pc # "tick" /\ pc' # "tick"
    BY <1>5 DEF Dispatch, DispatchError, Execute, At
  <2> QED BY <1>4, <2>1
<1>6. CASE Idle \/ EndStep \/ ObserveStep
  <2>1. PICK f \in {"steps", "stepDuration"}, o \in Outcomes :
          /\ UNCHANGED <<mailbox, accepted>> /\ pc # "tick" /\ pc' # "tick"
          /\ Inc(<<f, o>>)
    BY <1>6 DEF Idle, EndStep, ObserveStep, At, TypeOK, Outcomes
  <2>2. <<f, o>> \in Counters /\ <<f, o>>[1] \notin {"messages", "ticks"}
    BY CounterNames
  <2> QED BY <1>4, <2>1, <2>2
<1>7. CASE Propose \/ ObserveExecute \/ Allow
  <2>1. PICK f \in {"proposed", "allowed", "executeDuration"} :
          /\ UNCHANGED <<mailbox, accepted>> /\ pc # "tick" /\ pc' # "tick"
          /\ Inc(<<f, Current.kind>>) /\ Current.kind \in Kinds
    BY <1>1, <1>7 DEF Propose, ObserveExecute, Allow, At, NextAction, Deciding
  <2>2. <<f, Current.kind>> \in Counters /\ <<f, Current.kind>>[1] \notin {"messages", "ticks"}
    BY <2>1, CounterNames
  <2> QED BY <1>4, <2>1, <2>2
<1>8. CASE EvaluateGate
  <2> DEFINE v == Evaluate(gate, state, Current)
  <2>1. v \in Verdicts
    BY <1>8, CurrentType, EvaluateType, RunnerAssumption DEF EvaluateGate, At, TypeOK, Deciding
  <2>2. /\ UNCHANGED <<mailbox, accepted>> /\ pc # "tick" /\ pc' # "tick"
        /\ Inc(<<"verdict", v>>)
    BY <1>8 DEF EvaluateGate, At
  <2> HIDE DEF v
  <2>3. <<"verdict", v>> \in Counters /\ <<"verdict", v>>[1] \notin {"messages", "ticks"}
    BY <2>1, CounterNames
  <2> QED BY <1>4, <2>2, <2>3
<1>9. CASE Deny \/ SkipMcp
  <2>1. PICK r \in Reasons :
          /\ UNCHANGED <<mailbox, accepted>> /\ pc # "tick" /\ pc' # "tick"
          /\ Inc(<<"denied", Current.kind, r>>) /\ Current.kind \in Kinds
    BY <1>1, <1>9 DEF Deny, SkipMcp, At, NextAction, Deciding, Reasons
  <2>2. <<"denied", Current.kind, r>> \in Counters
          /\ <<"denied", Current.kind, r>>[1] \notin {"messages", "ticks"}
    BY <2>1, CounterNames DEF Reasons
  <2> QED BY <1>4, <2>1, <2>2
<1>10. ASSUME (\E t \in TickTopics : TickExit(t)) \/ Finalize \/ Crash \/ UNCHANGED vars
       PROVE  TallyInv'
  <2>1. UNCHANGED <<mailbox, accepted, msg, metrics, pc>>
    BY <1>10 DEF TickExit, Finalize, Crash, vars
  <2> QED BY <2>1 DEF TallyInv
<1> QED
  BY <1>2, <1>3, <1>5, <1>6, <1>7, <1>8, <1>9, <1>10, TallyReceive, TallyTick
  DEF Next, Step

LEMMA TallyInit == Init => TallyInv
<1> SUFFICES ASSUME Init PROVE TallyInv
  OBVIOUS
<1>1. \A S : Hits(mailbox, S) = 0 /\ Hits(accepted, S) = 0
  BY HitsEmpty DEF Init
<1>2. ASSUME NEW t \in Topics
      PROVE  metrics[<<"messages", t>>] = 0 /\ metrics[<<"ticks", t>>] = 0
  BY CounterNames DEF Init
<1>3. pc = "loop"
  BY DEF Init
<1> QED BY <1>1, <1>2, <1>3 DEF TallyInv

\* From positions to sequences, and from sets of messages to predicates.
LEMMA Conserved ==
  ASSUME TypeOK, OrderInv, TallyInv
  PROVE  MessagesConserved
<1> DEFINE known == SubSeq(accepted, 1, Heard)
           both == known \o InHand
           all == both \o mailbox
<1>1. /\ Heard \in Nat /\ Held \in {0, 1} /\ mailbox \in Seq(Messages) /\ Len(mailbox) \in Nat
      /\ accepted \in Seq(Messages) /\ Len(accepted) \in Nat
      /\ DOMAIN mailbox = 1..Len(mailbox) /\ DOMAIN accepted = 1..Len(accepted)
  BY OrderTypes
<1>2. /\ Heard + Held + Len(mailbox) = Len(accepted)
      /\ Held = 1 => msg = accepted[Heard + 1]
      /\ \A i \in 1..Len(mailbox) : mailbox[i] = accepted[Heard + Held + i]
  BY DEF OrderInv
<1>3. /\ InHand \in Seq(Messages) /\ Len(InHand) = Held
      /\ Held = 1 => InHand[1] = msg
  BY DEF InHand, Held, TypeOK
<1>4. /\ known \in Seq(Messages) /\ Len(known) = Heard
      /\ \A i \in 1..Heard : known[i] = accepted[i]
  <2>1. \A i \in 1..Heard : accepted[i] \in Messages
    BY <1>1, <1>2, ElementOfSeq
  <2> QED BY <1>1, <2>1, SubSeqProperties
<1>5. /\ both \in Seq(Messages) /\ Len(both) = Heard + Held
      /\ \A i \in 1..(Heard + Held) : both[i] = accepted[i]
  <2>1. /\ both \in Seq(Messages) /\ Len(both) = Len(known) + Len(InHand)
        /\ \A i \in 1..(Len(known) + Len(InHand)) :
             both[i] = IF i <= Len(known) THEN known[i] ELSE InHand[i - Len(known)]
    BY <1>3, <1>4, ConcatProperties
  <2> HIDE DEF known, both
  <2>2. ASSUME NEW i \in 1..(Heard + Held) PROVE both[i] = accepted[i]
    <3>1. CASE i <= Heard
      BY <1>1, <1>3, <1>4, <2>1, <3>1
    <3>2. CASE i > Heard
      <4>1. Held = 1 /\ i = Heard + 1 /\ i - Heard = 1
        BY <1>1, <3>2
      <4> QED BY <1>2, <1>3, <1>4, <2>1, <3>2, <4>1
    <3> QED BY <1>1, <3>1, <3>2
  <2> QED BY <1>3, <1>4, <2>1, <2>2
<1>6. all = accepted
  <2>1. /\ all \in Seq(Messages) /\ Len(all) = Len(both) + Len(mailbox)
        /\ \A i \in 1..(Len(both) + Len(mailbox)) :
             all[i] = IF i <= Len(both) THEN both[i] ELSE mailbox[i - Len(both)]
    BY SMTT(40), <1>1, <1>5, ConcatProperties
  <2> HIDE DEF known, both, all
  <2>2. ASSUME NEW i \in 1..Len(all) PROVE all[i] = accepted[i]
    <3>1. CASE i <= Heard + Held
      BY <1>1, <1>5, <2>1, <3>1
    <3>2. CASE i > Heard + Held
      <4>1. i - (Heard + Held) \in 1..Len(mailbox) /\ Heard + Held + (i - (Heard + Held)) = i
        BY <1>1, <1>5, <2>1, <3>2
      <4>2. all[i] = mailbox[i - (Heard + Held)]
        BY <1>1, <1>5, <2>1, <3>2
      <4> QED BY <1>2, <4>1, <4>2
    <3> QED BY <1>1, <3>1, <3>2
  <2>3. Len(all) = Len(accepted)
    BY <1>2, <1>5, <2>1
  <2> QED BY <1>1, <2>1, <2>2, <2>3, SeqEqual
<1>7. ASSUME NEW t \in Topics
      PROVE  /\ CountOf(mailbox, LAMBDA m : m.topic = t) = Hits(mailbox, OnTopic(t))
             /\ CountOf(accepted, LAMBDA m : m.topic = t) = Hits(accepted, OnTopic(t))
             /\ CountOf(mailbox, LAMBDA m : m = TickOf(t)) = Hits(mailbox, {TickOf(t)})
             /\ CountOf(accepted, LAMBDA m : m = TickOf(t)) = Hits(accepted, {TickOf(t)})
  <2>1. ASSUME NEW seq \in Seq(Messages)
        PROVE  /\ {i \in DOMAIN seq : seq[i].topic = t} = {i \in DOMAIN seq : seq[i] \in OnTopic(t)}
               /\ {i \in DOMAIN seq : seq[i] = TickOf(t)} = {i \in DOMAIN seq : seq[i] \in {TickOf(t)}}
    BY ElementOfSeq DEF OnTopic
  <2> QED BY <1>1, <2>1 DEF CountOf, Hits
<1>8. accepted = SubSeq(accepted, 1, Heard) \o InHand \o mailbox
  BY <1>6
<1> QED BY <1>7, <1>8 DEF MessagesConserved, OrderInv, TallyInv, Heard

\* What the mailbox accepted is, once and in order, what the trace has heard,
\* the message in hand and what still waits, and the counters of messages and
\* ticks count it (mailbox.rs:42-50, runner.rs:147-164).
THEOREM MessagesConservedHolds == Spec => []MessagesConserved
<1>1. TypeOK /\ OrderInv /\ TallyInv /\ [Next]_vars => OrderInv' /\ TallyInv'
  BY OrderStep, TallyStep
<1>2. TypeOK /\ OrderInv /\ TallyInv => MessagesConserved
  BY Conserved
<1> QED BY <1>1, <1>2, TypeCorrect, OrderInit, TallyInit, PTL DEF Spec

-----------------------------------------------------------------------------
(* A step ends.                                                            *)

\* Actions of Step still to come for the current action, at most.
Ahead ==
  CASE pc = "propose" -> 5
    [] pc = "gate" -> 4
    [] pc \in {"deny", "allowlist"} -> 3
    [] pc = "observe" -> 2
    [] OTHER -> 1

\* ... and for the step, once the handler has returned: five for each action
\* that waits, and two counters.
Left ==
  CASE pc = "end" -> 2
    [] pc = "ended" -> 1
    [] pc = "loop" -> 0
    [] OTHER -> 5 * (Len(pending) - 1) + Ahead + 2

\* Dispatch leaves a number of actions to do, whatever the handler proposed, and
\* each action of the step leaves fewer; so a step ends, however its actions are
\* refused, skipped or fail, and whatever else happens in between
\* (runner.rs:184-268).
StepEnds ==
  [][/\ Dispatch \/ DispatchError => Left' \in Nat
     /\ Step /\ pc \notin {"loop", "tick", "dispatch"} => Left \in Nat /\ Left' < Left]_vars

\* What NextAction leaves.
LEMMA NextActionLeaves ==
  ASSUME TypeOK, NextAction, pc \in Deciding
  PROVE  Left' = 5 * (Len(pending) - 1) + 2 /\ Len(pending) \in Nat /\ Len(pending) > 0
<1>1. pending \in Seq(Actions) /\ pending # <<>>
  BY DEF TypeOK
<1>2. Len(pending) \in Nat /\ Len(pending) > 0
  BY <1>1, EmptySeq, LenProperties
<1>3. pending' \in Seq(Actions) /\ Len(pending') = Len(pending) - 1
  BY <1>1, HeadTailProperties DEF NextAction
<1>4. CASE pending' = <<>>
  <2>1. Len(pending') = 0 /\ pc' = "end"
    BY <1>4, EmptySeq DEF NextAction
  <2>2. Left' = 2
    BY <2>1 DEF Left
  <2>3. Len(pending) = 1
    BY <1>2, <1>3, <2>1
  <2> QED BY <2>2, <2>3
<1>5. CASE pending' # <<>>
  <2>1. pc' = "propose"
    BY <1>5 DEF NextAction
  <2>2. Left' = 5 * (Len(pending') - 1) + 5 + 2
    BY <2>1 DEF Left, Ahead
  <2> QED BY <1>2, <1>3, <2>2
<1> QED BY <1>2, <1>4, <1>5

THEOREM StepEndsHolds == Spec => StepEnds
<1> DEFINE Ends == /\ Dispatch \/ DispatchError => Left' \in Nat
                   /\ Step /\ pc \notin {"loop", "tick", "dispatch"}
                        => Left \in Nat /\ Left' < Left
<1>1. TypeOK /\ TypeOK' /\ [Next]_vars => [Ends]_vars
  <2> SUFFICES ASSUME TypeOK, TypeOK', Next PROVE Ends
    OBVIOUS
  <2>1. /\ Len(pending) \in Nat /\ Len(pending') \in Nat
        /\ pending # <<>> => Len(pending) > 0
        /\ pending' # <<>> => Len(pending') > 0
    BY EmptySeq, LenProperties DEF TypeOK
  <2>2. ASSUME Dispatch \/ DispatchError PROVE Left' \in Nat
    <3>1. CASE DispatchError
      BY <3>1 DEF DispatchError, Left
    <3>2. CASE Dispatch /\ pending' = <<>>
      BY <3>2 DEF Dispatch, Left
    <3>3. CASE Dispatch /\ pending' # <<>>
      BY <2>1, <3>3 DEF Dispatch, Left, Ahead
    <3> QED BY <2>2, <3>1, <3>2, <3>3
  <2>3. ASSUME Step, pc \notin {"loop", "tick", "dispatch"}
        PROVE  Left \in Nat /\ Left' < Left
    <3>1. CASE Propose
      <4>1. pending # <<>> /\ pending' = pending
        BY <3>1 DEF Propose, At, TypeOK
      <4> QED BY <2>1, <3>1, <4>1 DEF Propose, At, Left, Ahead
    <3>2. CASE EvaluateGate
      <4>1. pending # <<>> /\ pending' = pending /\ pc = "gate" /\ pc' \in {"deny", "allowlist"}
        BY <3>2 DEF EvaluateGate, At, TypeOK, Deciding
      <4> QED BY <2>1, <4>1 DEF Left, Ahead
    <3>3. CASE Execute
      <4>1. pending # <<>> /\ pending' = pending /\ pc = "allowlist" /\ pc' = "observe"
        BY <3>3 DEF Execute, At, TypeOK, Deciding
      <4> QED BY <2>1, <4>1 DEF Left, Ahead
    <3>4. CASE ObserveExecute
      <4>1. pending # <<>> /\ pending' = pending /\ pc = "observe" /\ pc' = "allow"
        BY <3>4 DEF ObserveExecute, At, TypeOK, Deciding
      <4> QED BY <2>1, <4>1 DEF Left, Ahead
    <3>5. CASE Deny \/ SkipMcp \/ Allow
      <4>1. NextAction /\ pc \in {"deny", "allowlist", "allow"}
        BY <3>5 DEF Deny, SkipMcp, Allow, At
      <4>2. Left' = 5 * (Len(pending) - 1) + 2 /\ Len(pending) > 0
        BY <4>1, NextActionLeaves DEF Deciding
      <4> QED BY <2>1, <4>1, <4>2 DEF Left, Ahead
    <3>6. CASE EndStep \/ ObserveStep
      BY <3>6 DEF EndStep, ObserveStep, At, Left
    <3>7. ~(Idle \/ Receive \/ CountTick \/ Dispatch \/ DispatchError)
      BY <2>3 DEF Idle, Receive, CountTick, Dispatch, DispatchError, At
    <3> QED BY <2>3, <3>1, <3>2, <3>3, <3>4, <3>5, <3>6, <3>7 DEF Step
  <2> QED BY <2>2, <2>3
<1> QED BY <1>1, TypeCorrect, PTL DEF Spec, StepEnds
=============================================================================

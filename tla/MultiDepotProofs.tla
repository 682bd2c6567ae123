-------------------------- MODULE MultiDepotProofs --------------------------
(***************************************************************************)
(* What becomes of the dispatches of examples/multi_depot.rs, for any       *)
(* number of them, any vehicles, depots and tms under whatever names are    *)
(* taken twice, any limits and situations.                                 *)
(***************************************************************************)
EXTENDS MultiDepot, RouterProofs

-----------------------------------------------------------------------------
(* Places in the sequences of several runners.                             *)

Pairs(D, f) == UNION {{i} \X f[i] : i \in D}

LEMMA PairsMember ==
  ASSUME NEW D, NEW f
  PROVE  \A p : p \in Pairs(D, f) <=> \E i \in D : \E k \in f[i] : p = <<i, k>>
BY DEF Pairs

LEMMA PairsSame ==
  ASSUME NEW D, NEW f, NEW g, \A i \in D : g[i] = f[i]
  PROVE  Pairs(D, g) = Pairs(D, f)
BY DEF Pairs

\* One place more with one runner is one more in all.
LEMMA PairsGrow ==
  ASSUME NEW D, NEW f, NEW g, NEW i \in D, NEW k,
         k \notin f[i], g[i] = f[i] \cup {k}, \A j \in D \ {i} : g[j] = f[j],
         IsFiniteSet(Pairs(D, f))
  PROVE  /\ IsFiniteSet(Pairs(D, g))
         /\ Cardinality(Pairs(D, f)) \in Nat
         /\ Cardinality(Pairs(D, g)) = Cardinality(Pairs(D, f)) + 1
<1>1. \A p : p \in Pairs(D, g) <=> p \in Pairs(D, f) \/ p = <<i, k>>
  <2>1. ASSUME NEW p, p \in Pairs(D, g) PROVE p \in Pairs(D, f) \/ p = <<i, k>>
    <3>1. PICK j \in D : \E h \in g[j] : p = <<j, h>>
      BY <2>1, PairsMember
    <3>2. PICK h \in g[j] : p = <<j, h>>
      BY <3>1
    <3> QED BY <3>2, PairsMember
  <2>2. ASSUME NEW p, p \in Pairs(D, f) \/ p = <<i, k>> PROVE p \in Pairs(D, g)
    <3>1. CASE p = <<i, k>>
      BY <3>1, PairsMember
    <3>2. CASE p \in Pairs(D, f)
      <4>1. PICK j \in D : \E h \in f[j] : p = <<j, h>>
        BY <3>2, PairsMember
      <4> QED BY <4>1, PairsMember
    <3> QED BY <2>2, <3>1, <3>2
  <2> QED BY <2>1, <2>2
<1>2. Pairs(D, g) = Pairs(D, f) \cup {<<i, k>>}
  BY <1>1
<1>3. <<i, k>> \notin Pairs(D, f)
  BY PairsMember
<1> QED BY <1>2, <1>3, FS_AddElement, FS_CardinalityType

\* Places of one runner alone are as many with the runner beside.
LEMMA PairsOfOne ==
  ASSUME NEW D, NEW f, NEW i \in D, \A j \in D \ {i} : f[j] = {}, IsFiniteSet(f[i])
  PROVE  Cardinality(Pairs(D, f)) = Cardinality(f[i])
<1> DEFINE beside == [k \in f[i] |-> <<i, k>>]
<1>1. \A p : p \in Pairs(D, f) <=> \E k \in f[i] : p = <<i, k>>
  BY PairsMember
<1>2. beside \in Bijection(f[i], Pairs(D, f))
  <2>1. beside \in [f[i] -> Pairs(D, f)]
    BY <1>1
  <2>2. \A k, h \in f[i] : beside[k] = beside[h] => k = h
    OBVIOUS
  <2>3. \A p \in Pairs(D, f) : \E k \in f[i] : beside[k] = p
    BY <1>1
  <2> QED BY <2>1, <2>2, <2>3 DEF Bijection, Injection, Surjection, IsInjective
<1>3. ExistsBijection(f[i], Pairs(D, f))
  BY <1>2, Zenon DEF ExistsBijection
<1>4. IsFiniteSet(Pairs(D, f)) /\ Cardinality(f[i]) = Cardinality(Pairs(D, f))
  BY <1>3, FS_Bijection
<1> QED BY <1>4

LEMMA PairsFinite ==
  ASSUME NEW D, NEW f, IsFiniteSet(D), \A i \in D : IsFiniteSet(f[i])
  PROVE  IsFiniteSet(Pairs(D, f)) /\ Cardinality(Pairs(D, f)) \in Nat
<1> DEFINE Rows == {{i} \X f[i] : i \in D}
           row == [i \in D |-> {i} \X f[i]]
<1>1. row \in Surjection(D, Rows)
  BY DEF Surjection
<1>2. IsFiniteSet(Rows)
  BY <1>1, FS_Surjection
<1>3. ASSUME NEW i \in D PROVE IsFiniteSet({i} \X f[i])
  BY FS_Singleton, FS_Product
<1>4. \A R \in Rows : IsFiniteSet(R)
  BY <1>3
<1>5. IsFiniteSet(UNION Rows)
  BY <1>2, <1>4, FS_UNION
<1> QED BY <1>5, FS_CardinalityType DEF Pairs

\* What one event more adds to the events of a kind.
LEMMA AppendPlaces ==
  ASSUME NEW T, NEW tr \in Seq(T), NEW e \in T
  PROVE  LET last == Len(tr) + 1
         IN  /\ \A target :
                  /\ last \notin TargetAt(tr, target)
                  /\ TargetAt(Append(tr, e), target) =
                       IF e.target = target THEN TargetAt(tr, target) \cup {last}
                       ELSE TargetAt(tr, target)
             /\ \A kind :
                  /\ last \notin VerdictAt(tr, kind)
                  /\ VerdictAt(Append(tr, e), kind) =
                       IF e.target = "gate.verdict" /\ VerdictKind(e) = kind
                         THEN VerdictAt(tr, kind) \cup {last} ELSE VerdictAt(tr, kind)
<1> DEFINE last == Len(tr) + 1
           longer == Append(tr, e)
<1>1. /\ DOMAIN tr = 1..Len(tr) /\ Len(tr) \in Nat
      /\ DOMAIN longer = 1..last /\ longer[last] = e
      /\ \A k \in 1..Len(tr) : longer[k] = tr[k]
  BY AppendProperties, LenProperties
<1>2. DOMAIN longer = DOMAIN tr \cup {last} /\ last \notin DOMAIN tr
  BY <1>1
<1>3. \A k \in DOMAIN tr : longer[k] = tr[k]
  BY <1>1
<1> HIDE DEF longer, last
<1>4. ASSUME NEW target
      PROVE  /\ last \notin TargetAt(tr, target)
             /\ TargetAt(longer, target) =
                  IF e.target = target THEN TargetAt(tr, target) \cup {last}
                  ELSE TargetAt(tr, target)
  BY <1>1, <1>2, <1>3 DEF TargetAt
<1>5. ASSUME NEW kind
      PROVE  /\ last \notin VerdictAt(tr, kind)
             /\ VerdictAt(longer, kind) =
                  IF e.target = "gate.verdict" /\ VerdictKind(e) = kind
                    THEN VerdictAt(tr, kind) \cup {last} ELSE VerdictAt(tr, kind)
  <2>1. \A k \in DOMAIN tr : VerdictKind(longer[k]) = VerdictKind(tr[k])
    BY <1>3
  <2>2. VerdictKind(longer[last]) = VerdictKind(e)
    BY <1>1
  <2>3. \A k \in TargetAt(tr, "gate.verdict") : k \in DOMAIN tr
    BY DEF TargetAt
  <2> QED BY <1>4, <2>1, <2>2, <2>3 DEF VerdictAt
<1> QED BY <1>4, <1>5 DEF longer, last

-----------------------------------------------------------------------------
(* The agents.                                                             *)

\* The limits of the agents, before any of them commits anything.
Limits ==
  /\ start.vehicle.soc >= start.vehicle.reserve
  /\ start.depot.current <= start.depot.budget + start.depot.pv

LEMMA MembersOnly == Names \subseteq Members
<1>1. Senders \subseteq Members /\ \A s \in Setups : ToSet(s) \subseteq Members
  BY Zenon, DemoAssumption
<1> QED BY <1>1 DEF Names

LEMMA Demo ==
  ASSUME TypeInv, NEW i \in 1..Len(setup), NEW m \in Letters
  PROVE  /\ setup[i] \in Members /\ m.from \in Members /\ m.topic \in Topics
         /\ Gated = {"vehicle", "depot"}
         /\ Handles(setup[i], m.topic) = DemoHandles(setup[i], m.topic)
         /\ React(setup[i], start, m.from, m.topic)
              = DemoReact(setup[i], start, m.from, m.topic)
<1>1. setup[i] \in Members /\ m.from \in Members /\ m.topic \in Topics /\ start \in Starts
  BY MembersOnly, RunnersOf DEF TypeInv, Letters
<1>2. Gated = {"vehicle", "depot"}
  BY Zenon, DemoAssumption
<1>3. \A name \in Members, topic \in Topics : Handles(name, topic) = DemoHandles(name, topic)
  BY Zenon, DemoAssumption
<1>4. \A name \in Members, s \in Starts, from \in Members, topic \in Topics :
        React(name, s, from, topic) = DemoReact(name, s, from, topic)
  BY Zenon, DemoAssumption
<1> QED BY <1>1, <1>2, <1>3, <1>4

LEMMA StartType ==
  TypeInv =>
    /\ start.vehicle.soc \in Int /\ start.vehicle.reserve \in Int
    /\ start.vehicle.energy_needed \in Int
    /\ start.depot.current \in Int /\ start.depot.requested \in Int
    /\ start.depot.budget \in Int /\ start.depot.pv \in Int
<1>1. Starts \subseteq [vehicle : [soc : Int, reserve : Int, energy_needed : Int],
                        depot : [current : Int, requested : Int, budget : Int, pv : Int]]
  BY Zenon, DemoAssumption
<1> QED BY <1>1 DEF TypeInv

\* An outcome ends at the tms; whatever else is handled is answered, and what
\* is answered is within the limits that the gate checks.
LEMMA Reaction ==
  ASSUME TypeInv, NEW i \in 1..Len(setup), NEW m \in Letters, Handles(setup[i], m.topic),
         NEW action, action = React(setup[i], start, m.from, m.topic)
  PROVE  /\ m.topic \in Outcomes => setup[i] = "tms" /\ action = NoAction
         /\ m.topic \notin Outcomes =>
              /\ action # NoAction /\ setup[i] \in Gated
              /\ action \in [to : Members, topic : Topics]
              /\ Limits => DemoPasses(setup[i], start, action)
<1>1. /\ setup[i] \in Members /\ m.from \in Members /\ m.topic \in Topics
      /\ Gated = {"vehicle", "depot"}
      /\ DemoHandles(setup[i], m.topic)
      /\ action = DemoReact(setup[i], start, m.from, m.topic)
  BY Demo
<1>2. action = NoAction \/ action.topic \in Topics
  <2>1. \A name \in Names, s \in Starts, from \in Names, topic \in Topics :
          LET a == React(name, s, from, topic)
          IN  Handles(name, topic) => a = NoAction \/ a.topic \in Topics
    BY Zenon, RouterAssumption
  <2>2. setup[i] \in Names /\ start \in Starts /\ m.from \in Names
    BY RunnersOf DEF TypeInv, Letters
  <2> QED BY <1>1, <2>1, <2>2
<1>3. "nobody" \notin Members
  BY DEF Members
<1>4. ASSUME NEW to \in Members, NEW topic, action = To(to, topic)
      PROVE  action # NoAction /\ action \in [to : Members, topic : Topics]
  BY <1>2, <1>3, <1>4 DEF To, NoAction
<1>5. CASE setup[i] = "vehicle"
  <2>1. m.topic \in {"Dispatch", "GrantSession", "DenySession"}
    BY <1>1, <1>5 DEF DemoHandles
  <2>2. CASE m.topic = "Dispatch"
    <3>1. action = OnDispatch(start.vehicle, m.from)
      BY <1>1, <2>2 DEF DemoReact, OnGrant, Terminate
    <3>2. CASE start.vehicle.soc - start.vehicle.energy_needed >= start.vehicle.reserve
      <4>1. action = To(m.from, "Acknowledge")
        BY <3>1, <3>2 DEF OnDispatch
      <4>2. DemoPasses(setup[i], start, action)
        BY <1>5, <3>2, <4>1 DEF DemoPasses, To
      <4> QED BY <1>1, <1>4, <1>5, <2>2, <4>1, <4>2 DEF Outcomes
    <3>3. CASE ~(start.vehicle.soc - start.vehicle.energy_needed >= start.vehicle.reserve)
      <4>1. action = To("depot", "RequestSession")
        BY <3>1, <3>3 DEF OnDispatch
      <4>2. Limits => DemoPasses(setup[i], start, action)
        BY <1>5, <4>1, StartType DEF DemoPasses, To, Limits
      <4> QED BY <1>1, <1>4, <1>5, <2>2, <4>1, <4>2 DEF Outcomes, Members
    <3> QED BY <3>2, <3>3
  <2>3. CASE m.topic = "GrantSession"
    <3>1. action = To("tms", "Complete")
      BY <1>1, <2>3 DEF DemoReact, OnGrant, Terminate
    <3>2. Limits => DemoPasses(setup[i], start, action)
      BY <1>5, <3>1, StartType DEF DemoPasses, To, Limits
    <3> QED BY <1>1, <1>4, <1>5, <2>3, <3>1, <3>2 DEF Outcomes, Members
  <2>4. CASE m.topic = "DenySession"
    <3>1. action = To("tms", "Failed")
      BY <1>1, <2>4 DEF DemoReact, OnGrant, Terminate, OnDeny
    <3>2. Limits => DemoPasses(setup[i], start, action)
      BY <1>5, <3>1, StartType DEF DemoPasses, To, Limits
    <3> QED BY <1>1, <1>4, <1>5, <2>4, <3>1, <3>2 DEF Outcomes, Members
  <2> QED BY <2>1, <2>2, <2>3, <2>4
<1>6. CASE setup[i] = "depot"
  <2>1. m.topic = "RequestSession"
    BY <1>1, <1>6 DEF DemoHandles
  <2>2. action = OnRequestSession(start.depot, m.from)
    BY <1>1, <2>1 DEF DemoReact, OnGrant, Terminate
  <2>3. CASE start.depot.current + start.depot.requested <= start.depot.budget + start.depot.pv
    <3>1. action = To(m.from, "GrantSession")
      BY <2>2, <2>3 DEF OnRequestSession
    <3>2. DemoPasses(setup[i], start, action)
      BY <1>6, <2>3, <3>1 DEF DemoPasses, To
    <3> QED BY <1>1, <1>4, <1>6, <2>1, <3>1, <3>2 DEF Outcomes
  <2>4. CASE ~(start.depot.current + start.depot.requested <= start.depot.budget + start.depot.pv)
    <3>1. action = To(m.from, "DenySession")
      BY <2>2, <2>4 DEF OnRequestSession
    <3>2. Limits => DemoPasses(setup[i], start, action)
      BY <1>6, <3>1, StartType DEF DemoPasses, To, Limits
    <3> QED BY <1>1, <1>4, <1>6, <2>1, <3>1, <3>2 DEF Outcomes
  <2> QED BY <2>3, <2>4
<1>7. CASE setup[i] = "tms"
  <2>1. m.topic \in Outcomes
    BY <1>1, <1>7 DEF DemoHandles
  <2>2. action = NoAction
    BY <1>1, <2>1 DEF DemoReact, OnGrant, Terminate, Outcomes
  <2> QED BY <1>7, <2>1, <2>2
<1> QED BY <1>1, <1>5, <1>6, <1>7 DEF Members

-----------------------------------------------------------------------------
(* What a step records.                                                    *)

Proposed == Node("action.proposed", "none")
Judged(kind) == Node("gate.verdict", kind)
Executed == Node("action.executed", "none")

\* Each execution comes right after its Allow.
Justified(tr) ==
  \A k \in DOMAIN tr :
    tr[k].target = "action.executed" => k > 1 /\ tr[k - 1] = Judged("allow")

Denying(tr) == Append(Append(tr, Proposed), Judged("deny"))
Allowing(tr) == Append(Append(Append(tr, Proposed), Judged("allow")), Executed)

LEMMA JustifiedAppend ==
  ASSUME NEW T, NEW tr \in Seq(T), NEW e \in T, Justified(tr),
         e.target = "action.executed" => tr # <<>> /\ tr[Len(tr)] = Judged("allow")
  PROVE  Justified(Append(tr, e))
<1> DEFINE longer == Append(tr, e)
<1>1. /\ DOMAIN tr = 1..Len(tr) /\ Len(tr) \in Nat /\ (tr # <<>> => Len(tr) > 0)
      /\ DOMAIN longer = 1..(Len(tr) + 1) /\ longer[Len(tr) + 1] = e
      /\ \A k \in 1..Len(tr) : longer[k] = tr[k]
  BY AppendProperties, LenProperties, EmptySeq
<1>2. ASSUME NEW k \in 1..(Len(tr) + 1), longer[k].target = "action.executed"
      PROVE  k > 1 /\ longer[k - 1] = Judged("allow")
  <2>1. CASE k \in 1..Len(tr)
    <3>1. k > 1 /\ tr[k - 1] = Judged("allow")
      BY <1>1, <1>2, <2>1 DEF Justified
    <3>2. k - 1 \in 1..Len(tr)
      BY <1>1, <2>1, <3>1
    <3> QED BY <1>1, <3>1, <3>2
  <2>2. CASE k = Len(tr) + 1
    <3>1. tr # <<>> /\ tr[Len(tr)] = Judged("allow")
      BY <1>1, <1>2, <2>2
    <3>2. k > 1 /\ k - 1 = Len(tr) /\ Len(tr) \in 1..Len(tr)
      BY <1>1, <2>2, <3>1
    <3> QED BY <1>1, <3>1, <3>2
  <2> QED BY <1>1, <2>1, <2>2
<1> QED BY <1>1, <1>2 DEF Justified

LEMMA EventTypes ==
  /\ Proposed \in Nodes /\ Executed \in Nodes
  /\ Judged("allow") \in Nodes /\ Judged("deny") \in Nodes
  /\ Proposed.target = "action.proposed" /\ Executed.target = "action.executed"
  /\ \A kind : Judged(kind).target = "gate.verdict"
  /\ VerdictKind(Judged("allow")) = "allow" /\ VerdictKind(Judged("deny")) = "deny"
BY DEF Proposed, Executed, Judged, Node, Nodes, VerdictKind

LEMMA DeniedPlaces ==
  ASSUME NEW tr \in Seq(Nodes)
  PROVE  /\ Denying(tr) \in Seq(Nodes)
         /\ Len(tr) + 2 \notin VerdictAt(tr, "deny")
         /\ VerdictAt(Denying(tr), "deny") = VerdictAt(tr, "deny") \cup {Len(tr) + 2}
         /\ TargetAt(Denying(tr), "action.executed") = TargetAt(tr, "action.executed")
         /\ Justified(tr) => Justified(Denying(tr))
<1> DEFINE one == Append(tr, Proposed)
           two == Append(one, Judged("deny"))
<1>1. one \in Seq(Nodes) /\ Len(one) = Len(tr) + 1 /\ Len(tr) \in Nat
  BY EventTypes, AppendProperties, LenProperties
<1>2. two \in Seq(Nodes) /\ Len(one) + 1 = Len(tr) + 2
  <2> HIDE DEF one
  <2> QED BY <1>1, EventTypes, AppendProperties
<1>3. /\ VerdictAt(one, "deny") = VerdictAt(tr, "deny")
      /\ TargetAt(one, "action.executed") = TargetAt(tr, "action.executed")
  BY EventTypes, AppendPlaces
<1>4. /\ Len(one) + 1 \notin VerdictAt(one, "deny")
      /\ VerdictAt(two, "deny") = VerdictAt(one, "deny") \cup {Len(one) + 1}
      /\ TargetAt(two, "action.executed") = TargetAt(one, "action.executed")
  <2> HIDE DEF one
  <2> QED BY <1>1, EventTypes, AppendPlaces
<1>5. Justified(tr) => Justified(one)
  BY EventTypes, JustifiedAppend
<1>6. Justified(one) => Justified(two)
  <2> HIDE DEF one
  <2> QED BY <1>1, EventTypes, JustifiedAppend
<1>7. two = Denying(tr)
  BY DEF Denying
<1> HIDE DEF one, two
<1> QED BY <1>2, <1>3, <1>4, <1>5, <1>6, <1>7

LEMMA AllowedPlaces ==
  ASSUME NEW tr \in Seq(Nodes)
  PROVE  /\ Allowing(tr) \in Seq(Nodes)
         /\ Len(tr) + 3 \notin TargetAt(tr, "action.executed")
         /\ TargetAt(Allowing(tr), "action.executed")
              = TargetAt(tr, "action.executed") \cup {Len(tr) + 3}
         /\ VerdictAt(Allowing(tr), "deny") = VerdictAt(tr, "deny")
         /\ Justified(tr) => Justified(Allowing(tr))
<1> DEFINE one == Append(tr, Proposed)
           two == Append(one, Judged("allow"))
           three == Append(two, Executed)
<1>1. one \in Seq(Nodes) /\ Len(one) = Len(tr) + 1 /\ Len(tr) \in Nat
  BY EventTypes, AppendProperties, LenProperties
<1>2. /\ two \in Seq(Nodes) /\ Len(two) = Len(tr) + 2
      /\ two # <<>> /\ two[Len(two)] = Judged("allow")
  <2> HIDE DEF one
  <2> QED BY <1>1, EventTypes, AppendProperties
<1>3. three \in Seq(Nodes) /\ Len(two) + 1 = Len(tr) + 3
  <2> HIDE DEF two
  <2> QED BY <1>1, <1>2, EventTypes, AppendProperties
<1>4. /\ VerdictAt(one, "deny") = VerdictAt(tr, "deny")
      /\ TargetAt(one, "action.executed") = TargetAt(tr, "action.executed")
  BY EventTypes, AppendPlaces
<1>5. /\ VerdictAt(two, "deny") = VerdictAt(one, "deny")
      /\ TargetAt(two, "action.executed") = TargetAt(one, "action.executed")
  <2> HIDE DEF one
  <2> QED BY <1>1, EventTypes, AppendPlaces
<1>6. /\ Len(two) + 1 \notin TargetAt(two, "action.executed")
      /\ VerdictAt(three, "deny") = VerdictAt(two, "deny")
      /\ TargetAt(three, "action.executed") = TargetAt(two, "action.executed") \cup {Len(two) + 1}
  <2> HIDE DEF two
  <2> QED BY <1>2, EventTypes, AppendPlaces
<1>7. Justified(tr) => Justified(one)
  BY EventTypes, JustifiedAppend
<1>8. Justified(one) => Justified(two)
  <2> HIDE DEF one
  <2> QED BY <1>1, EventTypes, JustifiedAppend
<1>9. Justified(two) => Justified(three)
  <2> HIDE DEF two
  <2> QED BY <1>2, EventTypes, JustifiedAppend
<1>10. three = Allowing(tr)
  BY DEF Allowing
<1> HIDE DEF one, two, three
<1> QED BY <1>3, <1>4, <1>5, <1>6, <1>7, <1>8, <1>9, <1>10

\* A step of an agent that has a gate: a denial, or an execution.
LEMMA PerformMeans ==
  ASSUME TypeInv, NEW i \in 1..Len(setup), setup[i] \in Gated, Perform(i)
  PROVE  \/ /\ ~Passes(setup[i], start, pending)
            /\ trace' = [trace EXCEPT ![i] = Denying(trace[i])]
            /\ UNCHANGED <<mailbox, histories>>
         \/ /\ Passes(setup[i], start, pending)
            /\ trace' = [trace EXCEPT ![i] = Allowing(trace[i])]
            /\ Execute(i)
<1> DEFINE tr == trace[i]
<1>1. tr \in Seq(Nodes)
  BY RunnersOf DEF TypeInv
<1> HIDE DEF tr
<1>2. /\ <<Proposed>> \in Seq(Nodes) /\ <<Executed>> \in Seq(Nodes)
      /\ <<Judged("allow")>> \in Seq(Nodes) /\ <<Judged("deny")>> \in Seq(Nodes)
  BY EventTypes, Seqs
<1>3. (tr \o <<Proposed>>) \o <<Judged("deny")>> = Denying(tr)
  BY <1>1, EventTypes, AppendProperties, AppendIsConcat DEF Denying
<1>4. (tr \o <<Proposed>>) \o (<<Judged("allow")>> \o <<Executed>>) = Allowing(tr)
  <2>1. Append(tr, Proposed) = tr \o <<Proposed>> /\ tr \o <<Proposed>> \in Seq(Nodes)
    BY <1>1, EventTypes, AppendProperties, AppendIsConcat
  <2>2. ((tr \o <<Proposed>>) \o <<Judged("allow")>>) \o <<Executed>>
          = (tr \o <<Proposed>>) \o (<<Judged("allow")>> \o <<Executed>>)
    BY <1>2, <2>1, ConcatAssociative
  <2>3. Append(tr \o <<Proposed>>, Judged("allow")) = (tr \o <<Proposed>>) \o <<Judged("allow")>>
        /\ (tr \o <<Proposed>>) \o <<Judged("allow")>> \in Seq(Nodes)
    BY <2>1, EventTypes, AppendProperties, AppendIsConcat
  <2>4. Append((tr \o <<Proposed>>) \o <<Judged("allow")>>, Executed)
          = ((tr \o <<Proposed>>) \o <<Judged("allow")>>) \o <<Executed>>
    BY <2>3, EventTypes, AppendIsConcat
  <2> QED BY <2>1, <2>2, <2>3, <2>4 DEF Allowing
<1>5. CASE Passes(setup[i], start, pending)
  <2>1. Verdict(i) = <<Judged("allow")>>
    BY <1>5 DEF Verdict, Judged
  <2>2. Record(i, Verdict(i) \o <<Executed>>) /\ Execute(i)
    BY <1>5, Zenon DEF Perform, Executed
  <2>3. trace' = [trace EXCEPT ![i] = (tr \o <<Proposed>>) \o (<<Judged("allow")>> \o <<Executed>>)]
    BY <2>1, <2>2, Zenon DEF Record, Proposed, tr
  <2> QED BY <1>4, <1>5, <2>2, <2>3 DEF tr
<1>6. CASE ~Passes(setup[i], start, pending)
  <2>1. Verdict(i) = <<Judged("deny")>>
    BY <1>6 DEF Verdict, Judged
  <2>2. Record(i, Verdict(i)) /\ UNCHANGED <<mailbox, histories>>
    BY <1>6, Zenon DEF Perform
  <2>3. trace' = [trace EXCEPT ![i] = (tr \o <<Proposed>>) \o <<Judged("deny")>>]
    BY <2>1, <2>2, Zenon DEF Record, Proposed, tr
  <2> QED BY <1>3, <1>6, <2>2, <2>3 DEF tr
<1> QED BY <1>5, <1>6

-----------------------------------------------------------------------------
(* The invariants, of which the last two count.                            *)

\* Who has a pending action has a gate, which will not object within the
\* limits: the handler has checked what the gate checks.
PendingInv ==
  pending # NoAction =>
    /\ phase = "draining" /\ turn \in DOMAIN setup
    /\ setup[turn] \in Gated
    /\ pending \in [to : Members, topic : Topics]
    /\ Limits => DemoPasses(setup[turn], start, pending)

AllowedInv == \A i \in Runners : Justified(trace[i])

\* A name stands for a runner of that name, and for one that is open.
RegistryInv ==
  /\ early \in Nat
  /\ DOMAIN registry = {setup[j] : j \in 1..built}
  /\ \A name \in DOMAIN registry :
       registry[name] \in 1..built /\ setup[registry[name]] = name
  /\ phase # "building" => built = Len(setup)
  /\ phase \in {"building", "draining"} /\ early = 0 => open = 1..built

\* Messages go to vehicles and to who is registered, so that outcomes come to
\* the registered tms alone.
RouteInv ==
  \A i \in 1..Len(setup) :
    /\ mailbox[i] # <<>> =>
         \/ setup[i] = "vehicle"
         \/ phase # "building" /\ registry[setup[i]] = i
    /\ Ended(i) # {} /\ phase # "panicked" =>
         phase # "building" /\ setup[i] = "tms" /\ registry["tms"] = i

\* What was confirmed was accepted.
ConfirmedInv ==
  /\ IsFiniteSet(confirmed)
  /\ \A b \in Runners, m \in Letters : <<b, m>> \in confirmed => m \in ToSet(accepted[b])

Boxes == [i \in DOMAIN setup |-> DOMAIN mailbox[i]]
Waiting == Total(Boxes)
Finished == Total(Ends)
Underway == IF pending = NoAction THEN 0 ELSE 1
Denials == Total(Verdicts("deny"))
Executions == Total(Targets("action.executed"))
Arrivals == Cardinality(Deliveries)

\* Every dispatch is one message, one action or one end.
DispatchInv ==
  phase \in {"building", "draining", "settled"} /\ early = 0 =>
    Finished + Denials + Executions + Waiting + Underway = seeds + Arrivals

\* With all agents there and within their limits nothing is denied or lost.
SmoothInv ==
  Limits /\ early = 0 /\ Members \subseteq {setup[j] : j \in 1..Len(setup)} =>
    Denials = 0 /\ Executions = Arrivals

-----------------------------------------------------------------------------
(* How the counts change.                                                  *)

LEMMA PlacesFinite ==
  ASSUME NEW T, NEW seq \in Seq(T)
  PROVE  IsFiniteSet(DOMAIN seq)
<1>1. DOMAIN seq = 1..Len(seq) /\ Len(seq) \in Nat
  BY LenProperties
<1>2. IsFiniteSet(1..Len(seq))
  BY <1>1, FS_Interval
<1> QED BY <1>1, <1>2

LEMMA Places ==
  TypeInv =>
    /\ DOMAIN setup = 1..Len(setup) /\ IsFiniteSet(1..Len(setup))
    /\ 1..Len(setup) \subseteq Runners
    /\ \A i \in 1..Len(setup) :
         /\ Ends[i] = Ended(i) /\ IsFiniteSet(Ended(i))
         /\ Boxes[i] = DOMAIN mailbox[i] /\ IsFiniteSet(DOMAIN mailbox[i])
         /\ \A target : /\ Targets(target)[i] = TargetAt(trace[i], target)
                        /\ IsFiniteSet(TargetAt(trace[i], target))
         /\ \A kind : /\ Verdicts(kind)[i] = VerdictAt(trace[i], kind)
                      /\ IsFiniteSet(VerdictAt(trace[i], kind))
<1> SUFFICES ASSUME TypeInv
             PROVE  /\ DOMAIN setup = 1..Len(setup) /\ IsFiniteSet(1..Len(setup))
                    /\ 1..Len(setup) \subseteq Runners
                    /\ \A i \in 1..Len(setup) :
                         /\ Ends[i] = Ended(i) /\ IsFiniteSet(Ended(i))
                         /\ Boxes[i] = DOMAIN mailbox[i] /\ IsFiniteSet(DOMAIN mailbox[i])
                         /\ \A target : /\ Targets(target)[i] = TargetAt(trace[i], target)
                                        /\ IsFiniteSet(TargetAt(trace[i], target))
                         /\ \A kind : /\ Verdicts(kind)[i] = VerdictAt(trace[i], kind)
                                      /\ IsFiniteSet(VerdictAt(trace[i], kind))
  OBVIOUS
<1>1. /\ DOMAIN setup = 1..Len(setup) /\ Len(setup) \in Nat
      /\ 1..Len(setup) \subseteq Runners
  BY RunnersOf DEF TypeInv
<1>2. IsFiniteSet(1..Len(setup))
  BY <1>1, FS_Interval
<1>3. ASSUME NEW i \in 1..Len(setup)
      PROVE  /\ IsFiniteSet(Ended(i)) /\ IsFiniteSet(DOMAIN mailbox[i])
             /\ \A target : IsFiniteSet(TargetAt(trace[i], target))
             /\ \A kind : IsFiniteSet(VerdictAt(trace[i], kind))
  <2>1. /\ received[i] \in Seq(Letters) /\ mailbox[i] \in Seq(Letters)
        /\ trace[i] \in Seq(Nodes)
    BY <1>1 DEF TypeInv
  <2>3. IsFiniteSet(DOMAIN received[i]) /\ IsFiniteSet(DOMAIN mailbox[i])
    BY <2>1, PlacesFinite
  <2>4. Ended(i) \in SUBSET DOMAIN received[i]
    BY DEF Ended
  <2>5. IsFiniteSet(Ended(i))
    BY <2>3, <2>4, FS_Subset
  <2>6. \A target : IsFiniteSet(TargetAt(trace[i], target))
    BY <2>1, TargetsFinite
  <2>7. ASSUME NEW kind PROVE IsFiniteSet(VerdictAt(trace[i], kind))
    <3>1. VerdictAt(trace[i], kind) \in SUBSET TargetAt(trace[i], "gate.verdict")
      BY DEF VerdictAt
    <3> QED BY <2>6, <3>1, FS_Subset
  <2> QED BY <2>3, <2>5, <2>6, <2>7
<1>4. ASSUME NEW i \in 1..Len(setup)
      PROVE  /\ Ends[i] = Ended(i) /\ Boxes[i] = DOMAIN mailbox[i]
             /\ \A target : Targets(target)[i] = TargetAt(trace[i], target)
             /\ \A kind : Verdicts(kind)[i] = VerdictAt(trace[i], kind)
  BY <1>1 DEF Ends, Boxes, Targets, Verdicts
<1> QED BY <1>1, <1>2, <1>3, <1>4

LEMMA CountTypes ==
  TypeInv =>
    /\ Finished \in Nat /\ IsFiniteSet(OfAll(Ends))
    /\ Waiting \in Nat /\ IsFiniteSet(OfAll(Boxes))
    /\ \A target : Total(Targets(target)) \in Nat /\ IsFiniteSet(OfAll(Targets(target)))
    /\ \A kind : Total(Verdicts(kind)) \in Nat /\ IsFiniteSet(OfAll(Verdicts(kind)))
<1> SUFFICES ASSUME TypeInv
             PROVE  /\ Finished \in Nat /\ IsFiniteSet(OfAll(Ends))
                    /\ Waiting \in Nat /\ IsFiniteSet(OfAll(Boxes))
                    /\ \A target : /\ Total(Targets(target)) \in Nat
                                   /\ IsFiniteSet(OfAll(Targets(target)))
                    /\ \A kind : /\ Total(Verdicts(kind)) \in Nat
                                 /\ IsFiniteSet(OfAll(Verdicts(kind)))
  OBVIOUS
<1>1. ASSUME NEW f, \A i \in DOMAIN setup : IsFiniteSet(f[i])
      PROVE  Total(f) \in Nat /\ IsFiniteSet(OfAll(f))
  <2>1. IsFiniteSet(DOMAIN setup) /\ OfAll(f) = UNION {{i} \X f[i] : i \in DOMAIN setup}
    BY Places, Zenon DEF OfAll
  <2>2. IsFiniteSet(Pairs(DOMAIN setup, f)) /\ Cardinality(Pairs(DOMAIN setup, f)) \in Nat
    BY <1>1, <2>1, PairsFinite
  <2>3. OfAll(f) = Pairs(DOMAIN setup, f)
    BY Zenon DEF OfAll, Pairs
  <2> QED BY <2>2, <2>3 DEF Total
<1>2. /\ \A i \in DOMAIN setup : IsFiniteSet(Ends[i]) /\ IsFiniteSet(Boxes[i])
      /\ \A target : \A i \in DOMAIN setup : IsFiniteSet(Targets(target)[i])
      /\ \A kind : \A i \in DOMAIN setup : IsFiniteSet(Verdicts(kind)[i])
  BY Places
<1> QED BY <1>1, <1>2 DEF Waiting, Finished

\* Totals of a state and of the next.
LEMMA TotalSame ==
  ASSUME NEW f, NEW g, \A i \in DOMAIN setup : g[i] = f[i]
  PROVE  Total(g) = Total(f)
<1>1. Pairs(DOMAIN setup, g) = Pairs(DOMAIN setup, f)
  BY PairsSame
<1> QED BY <1>1, Zenon DEF Total, OfAll, Pairs

LEMMA TotalGrow ==
  ASSUME TypeInv, NEW f, NEW g, NEW i \in 1..Len(setup), NEW k,
         k \notin f[i], g[i] = f[i] \cup {k},
         \A j \in 1..Len(setup) : j # i => g[j] = f[j],
         \A j \in 1..Len(setup) : IsFiniteSet(f[j])
  PROVE  Total(g) = Total(f) + 1 /\ Total(f) \in Nat
<1>1. DOMAIN setup = 1..Len(setup) /\ IsFiniteSet(1..Len(setup))
  BY Places
<1>2. IsFiniteSet(Pairs(DOMAIN setup, f))
  BY <1>1, PairsFinite
<1>3. /\ i \in DOMAIN setup /\ \A j \in DOMAIN setup \ {i} : g[j] = f[j]
  BY <1>1
<1>4. /\ Cardinality(Pairs(DOMAIN setup, g)) = Cardinality(Pairs(DOMAIN setup, f)) + 1
      /\ Cardinality(Pairs(DOMAIN setup, f)) \in Nat
  BY <1>2, <1>3, PairsGrow
<1> QED BY <1>4, Zenon DEF Total, OfAll, Pairs

LEMMA TotalNext ==
  ASSUME setup' = setup
  PROVE  /\ Finished' = Total(Ends') /\ Waiting' = Total(Boxes')
         /\ Denials' = Total(Verdicts("deny")')
         /\ Executions' = Total(Targets("action.executed")')
         /\ \A i \in DOMAIN setup :
              /\ Ends'[i] = Ended(i)' /\ Boxes'[i] = DOMAIN mailbox'[i]
              /\ \A target : Targets(target)'[i] = TargetAt(trace'[i], target)
              /\ \A kind : Verdicts(kind)'[i] = VerdictAt(trace'[i], kind)
<1>1. \A i \in DOMAIN setup :
        /\ Ends'[i] = Ended(i)' /\ Boxes'[i] = DOMAIN mailbox'[i]
        /\ \A target : Targets(target)'[i] = TargetAt(trace'[i], target)
        /\ \A kind : Verdicts(kind)'[i] = VerdictAt(trace'[i], kind)
  BY DEF Ends, Boxes, Targets, Verdicts
<1>2. /\ Finished' = Total(Ends') /\ Waiting' = Total(Boxes')
      /\ Denials' = Total(Verdicts("deny")')
      /\ Executions' = Total(Targets("action.executed")')
  BY Zenon DEF Total, OfAll, Finished, Waiting, Denials, Executions
<1> QED BY <1>1, <1>2

LEMMA PlacesNext ==
  ASSUME TypeInv, setup' = setup, NEW i \in 1..Len(setup)
  PROVE  /\ Boxes[i] = DOMAIN mailbox[i] /\ Boxes'[i] = DOMAIN mailbox'[i]
         /\ Ends[i] = Ended(i) /\ Ends'[i] = Ended(i)'
         /\ IsFiniteSet(Boxes[i]) /\ IsFiniteSet(Ends[i])
BY Places, TotalNext

LEMMA TracesNext ==
  ASSUME TypeInv, setup' = setup, NEW i \in 1..Len(setup)
  PROVE  /\ Verdicts("deny")[i] = VerdictAt(trace[i], "deny")
         /\ Verdicts("deny")'[i] = VerdictAt(trace'[i], "deny")
         /\ Targets("action.executed")[i] = TargetAt(trace[i], "action.executed")
         /\ Targets("action.executed")'[i] = TargetAt(trace'[i], "action.executed")
         /\ IsFiniteSet(Verdicts("deny")[i]) /\ IsFiniteSet(Targets("action.executed")[i])
BY Places, TotalNext

LEMMA BoxesSame ==
  ASSUME TypeInv, UNCHANGED <<setup, mailbox>>
  PROVE  Waiting' = Waiting
<1>1. \A i \in DOMAIN setup : Boxes'[i] = Boxes[i]
  BY Places, TotalNext
<1>2. Total(Boxes') = Total(Boxes)
  BY <1>1, TotalSame
<1> QED BY <1>2, TotalNext DEF Waiting

LEMMA EndsSame ==
  ASSUME TypeInv, UNCHANGED <<setup, received>>
  PROVE  Finished' = Finished
<1>1. \A i \in DOMAIN setup : Ended(i)' = Ended(i)
  BY DEF Ended
<1>2. \A i \in DOMAIN setup : Ends'[i] = Ends[i]
  BY <1>1, Places, TotalNext
<1>3. Total(Ends') = Total(Ends)
  BY <1>2, TotalSame
<1> QED BY <1>3, TotalNext DEF Finished

LEMMA TraceSame ==
  ASSUME TypeInv, UNCHANGED <<setup, trace>>
  PROVE  Denials' = Denials /\ Executions' = Executions
<1>1. \A i \in DOMAIN setup :
        /\ Verdicts("deny")'[i] = Verdicts("deny")[i]
        /\ Targets("action.executed")'[i] = Targets("action.executed")[i]
  BY Places, TotalNext
<1>2. /\ Total(Verdicts("deny")') = Total(Verdicts("deny"))
      /\ Total(Targets("action.executed")') = Total(Targets("action.executed"))
  BY <1>1, TotalSame
<1> QED BY <1>2, TotalNext DEF Denials, Executions

\* One message more waits.
LEMMA PutCounts ==
  ASSUME TypeInv, ConfirmedInv, NumberInv, NEW b \in 1..Len(setup), NEW m \in Letters,
         m.n = SentBy(m) + 1, Put(b, m), setup' = setup
  PROVE  /\ Waiting' = Waiting + 1
         /\ Finished' = Finished
         /\ Arrivals' = IF m.by = 0 THEN Arrivals ELSE Arrivals + 1
<1>1. b \in Runners /\ mailbox[b] \in Seq(Letters)
  BY Places DEF TypeInv
<1>2. /\ mailbox' = [mailbox EXCEPT ![b] = Append(mailbox[b], m)]
      /\ confirmed' = confirmed \cup {<<b, m>>} /\ received' = received
  BY DEF Put
<1>3. Waiting' = Waiting + 1
  <2> DEFINE k == Len(mailbox[b]) + 1
  <2>1. /\ mailbox'[b] = Append(mailbox[b], m)
        /\ \A j \in 1..Len(setup) : j # b => mailbox'[j] = mailbox[j]
    BY <1>1, <1>2, Places DEF TypeInv
  <2>2. /\ DOMAIN mailbox[b] = 1..Len(mailbox[b]) /\ Len(mailbox[b]) \in Nat
        /\ DOMAIN mailbox'[b] = 1..(Len(mailbox[b]) + 1)
    BY <1>1, <2>1, AppendProperties, LenProperties
  <2>3. k \notin DOMAIN mailbox[b] /\ DOMAIN mailbox'[b] = DOMAIN mailbox[b] \cup {k}
    BY <2>2
  <2> HIDE DEF k
  <2>4. /\ k \notin Boxes[b] /\ Boxes'[b] = Boxes[b] \cup {k}
        /\ \A j \in 1..Len(setup) : j # b => Boxes'[j] = Boxes[j]
        /\ \A j \in 1..Len(setup) : IsFiniteSet(Boxes[j])
    BY <2>1, <2>3, PlacesNext
  <2>5. Total(Boxes') = Total(Boxes) + 1
    BY <2>4, TotalGrow
  <2> QED BY <2>5, TotalNext DEF Waiting
<1>4. Arrivals' = IF m.by = 0 THEN Arrivals ELSE Arrivals + 1
  <2>1. <<b, m>> \notin confirmed
    BY <1>1, NextIsNew DEF ConfirmedInv
  <2>2. IsFiniteSet(Deliveries)
    <3>1. Deliveries \in SUBSET confirmed
      BY DEF Deliveries
    <3> QED BY <3>1, FS_Subset DEF ConfirmedInv
  <2>3. CASE m.by = 0
    <3>1. Deliveries' = Deliveries
      BY <1>2, <2>3 DEF Deliveries
    <3> QED BY <2>3, <3>1 DEF Arrivals
  <2>4. CASE m.by # 0
    <3>1. Deliveries' = Deliveries \cup {<<b, m>>} /\ <<b, m>> \notin Deliveries
      BY <1>2, <2>1, <2>4 DEF Deliveries
    <3>2. Cardinality(Deliveries \cup {<<b, m>>}) = Cardinality(Deliveries) + 1
      BY <2>2, <3>1, FS_AddElement
    <3> QED BY <2>4, <3>1, <3>2 DEF Arrivals
  <2> QED BY <2>3, <2>4
<1> QED BY <1>2, <1>3, <1>4, EndsSame

\* One message less waits, and has come to its end if it is an outcome.
LEMMA TakeCounts ==
  ASSUME TypeInv, TypeInv', NEW i \in 1..Len(setup), Take(i)
  PROVE  /\ Waiting = Waiting' + 1 /\ Waiting' \in Nat
         /\ Finished' = IF Head(mailbox[i]).topic \in Outcomes
                             THEN Finished + 1 ELSE Finished
         /\ Denials' = Denials /\ Executions' = Executions /\ Arrivals' = Arrivals
<1> DEFINE m == Head(mailbox[i])
<1>1. /\ i \in Runners /\ mailbox[i] \in Seq(Letters) /\ received[i] \in Seq(Letters)
      /\ mailbox[i] # <<>> /\ m \in Letters
  BY Places, HeadTailProperties DEF TypeInv, Take
<1>2. /\ mailbox' = [mailbox EXCEPT ![i] = Tail(mailbox[i])]
      /\ received' = [received EXCEPT ![i] = Append(received[i], m)]
      /\ UNCHANGED <<setup, trace, confirmed>>
  BY DEF Take, Handled, world
<1>3. /\ mailbox'[i] = Tail(mailbox[i]) /\ received'[i] = Append(received[i], m)
      /\ \A j \in 1..Len(setup) : j # i => mailbox'[j] = mailbox[j] /\ received'[j] = received[j]
  BY <1>1, <1>2, Places DEF TypeInv
<1>4. Waiting = Waiting' + 1 /\ Waiting' \in Nat
  <2> DEFINE k == Len(mailbox[i])
  <2>1. /\ DOMAIN mailbox[i] = 1..k /\ k \in Nat \ {0}
        /\ DOMAIN mailbox'[i] = 1..(k - 1)
    BY <1>1, <1>3, HeadTailProperties, LenProperties, EmptySeq
  <2>2. k \notin DOMAIN mailbox'[i] /\ DOMAIN mailbox[i] = DOMAIN mailbox'[i] \cup {k}
    BY <2>1
  <2> HIDE DEF k
  <2>3. /\ k \notin Boxes'[i] /\ Boxes[i] = Boxes'[i] \cup {k}
        /\ \A j \in 1..Len(setup) : j # i => Boxes[j] = Boxes'[j]
    BY <1>2, <1>3, <2>2, PlacesNext
  <2>4. \A j \in 1..Len(setup) : IsFiniteSet(Boxes'[j])
    <3>1. \A j \in 1..Len(setup) : Boxes'[j] \in SUBSET Boxes[j]
      BY <2>3
    <3>2. \A j \in 1..Len(setup) : IsFiniteSet(Boxes[j])
      BY Places
    <3> QED BY <3>1, <3>2, FS_Subset
  <2>5. Total(Boxes) = Total(Boxes') + 1 /\ Total(Boxes') \in Nat
    BY <2>3, <2>4, TotalGrow
  <2> QED BY <1>2, <2>5, TotalNext DEF Waiting
<1>5. Finished' = IF m.topic \in Outcomes THEN Finished + 1 ELSE Finished
  <2> DEFINE k == Len(received[i]) + 1
             took == received'[i]
  <2>1. /\ DOMAIN received[i] = 1..Len(received[i]) /\ Len(received[i]) \in Nat
        /\ DOMAIN took = 1..k /\ took[k] = m
        /\ \A j \in 1..Len(received[i]) : took[j] = received[i][j]
    BY <1>1, <1>3, AppendProperties, LenProperties
  <2>2. /\ DOMAIN took = DOMAIN received[i] \cup {k} /\ k \notin DOMAIN received[i]
        /\ \A j \in DOMAIN received[i] : took[j] = received[i][j]
    BY <2>1
  <2> HIDE DEF k
  <2>3. Ended(i)' = {j \in DOMAIN took : took[j].topic \in Outcomes}
    BY DEF Ended
  <2> HIDE DEF took, m
  <2>4. /\ k \notin Ended(i)
        /\ Ended(i)' = IF m.topic \in Outcomes THEN Ended(i) \cup {k} ELSE Ended(i)
    BY <2>1, <2>2, <2>3 DEF Ended
  <2>5. \A j \in 1..Len(setup) : j # i => Ended(j)' = Ended(j)
    BY <1>3 DEF Ended
  <2>6. CASE m.topic \in Outcomes
    <3>1. /\ k \notin Ends[i] /\ Ends'[i] = Ends[i] \cup {k}
          /\ \A j \in 1..Len(setup) : j # i => Ends'[j] = Ends[j]
          /\ \A j \in 1..Len(setup) : IsFiniteSet(Ends[j])
      BY <1>2, <2>4, <2>5, <2>6, PlacesNext
    <3>2. Total(Ends') = Total(Ends) + 1
      BY <3>1, TotalGrow
    <3> QED BY <1>2, <2>6, <3>2, TotalNext DEF Finished
  <2>7. CASE m.topic \notin Outcomes
    <3>1. \A j \in DOMAIN setup : Ends'[j] = Ends[j]
      BY <1>2, <2>4, <2>5, <2>7, Places, PlacesNext
    <3>2. Total(Ends') = Total(Ends)
      BY <3>1, TotalSame
    <3> QED BY <1>2, <2>7, <3>2, TotalNext DEF Finished
  <2> QED BY <2>6, <2>7
<1>6. Arrivals' = Arrivals
  BY <1>2 DEF Arrivals, Deliveries
<1> QED BY <1>2, <1>4, <1>5, <1>6, TraceSame

\* An action of an agent with a gate: denied, lost or sent.
LEMMA PerformCounts ==
  ASSUME TypeInv, ConfirmedInv, NumberInv, NEW i \in 1..Len(setup), setup[i] \in Gated,
         Perform(i)
  PROVE  /\ Finished' = Finished
         /\ \/ /\ ~Passes(setup[i], start, pending)
               /\ Denials' = Denials + 1 /\ Executions' = Executions
               /\ Waiting' = Waiting /\ Arrivals' = Arrivals
            \/ /\ Denials' = Denials /\ Executions' = Executions + 1
               /\ ~(pending.to \in DOMAIN registry /\ registry[pending.to] \in open)
               /\ Waiting' = Waiting /\ Arrivals' = Arrivals
            \/ /\ Denials' = Denials /\ Executions' = Executions + 1
               /\ Waiting' = Waiting + 1 /\ Arrivals' = Arrivals + 1
<1>1. /\ pending # NoAction /\ setup' = setup
      /\ i \in Runners /\ trace[i] \in Seq(Nodes)
  BY PerformCases, Places DEF world, TypeInv
<1>2. ASSUME UNCHANGED <<mailbox, histories>>
      PROVE  Waiting' = Waiting /\ Arrivals' = Arrivals /\ Finished' = Finished
  BY <1>1, <1>2, BoxesSame, EndsSame DEF histories, Arrivals, Deliveries
<1>3. CASE /\ ~Passes(setup[i], start, pending)
           /\ trace' = [trace EXCEPT ![i] = Denying(trace[i])]
           /\ UNCHANGED <<mailbox, histories>>
  <2> DEFINE k == Len(trace[i]) + 2
  <2>1. /\ trace'[i] = Denying(trace[i])
        /\ \A j \in 1..Len(setup) : j # i => trace'[j] = trace[j]
    BY <1>1, <1>3, Places DEF TypeInv
  <2>2. /\ k \notin VerdictAt(trace[i], "deny")
        /\ VerdictAt(trace'[i], "deny") = VerdictAt(trace[i], "deny") \cup {k}
        /\ TargetAt(trace'[i], "action.executed") = TargetAt(trace[i], "action.executed")
    BY <1>1, <2>1, DeniedPlaces
  <2> HIDE DEF k
  <2>3. /\ k \notin Verdicts("deny")[i]
        /\ Verdicts("deny")'[i] = Verdicts("deny")[i] \cup {k}
        /\ \A j \in 1..Len(setup) : j # i => Verdicts("deny")'[j] = Verdicts("deny")[j]
        /\ \A j \in 1..Len(setup) : IsFiniteSet(Verdicts("deny")[j])
    BY <1>1, <2>1, <2>2, TracesNext
  <2>4. \A j \in DOMAIN setup :
          Targets("action.executed")'[j] = Targets("action.executed")[j]
    BY <1>1, <2>1, <2>2, Places, TracesNext
  <2>5. /\ Total(Verdicts("deny")') = Total(Verdicts("deny")) + 1
        /\ Total(Targets("action.executed")') = Total(Targets("action.executed"))
    BY <2>3, <2>4, TotalGrow, TotalSame
  <2>6. Denials' = Denials + 1 /\ Executions' = Executions
    BY <1>1, <2>5, TotalNext DEF Denials, Executions
  <2> QED BY <1>2, <1>3, <2>6
<1>4. CASE /\ trace' = [trace EXCEPT ![i] = Allowing(trace[i])]
           /\ Execute(i)
  <2> DEFINE k == Len(trace[i]) + 3
  <2>1. /\ trace'[i] = Allowing(trace[i])
        /\ \A j \in 1..Len(setup) : j # i => trace'[j] = trace[j]
    BY <1>1, <1>4, Places DEF TypeInv
  <2>2. /\ k \notin TargetAt(trace[i], "action.executed")
        /\ TargetAt(trace'[i], "action.executed")
             = TargetAt(trace[i], "action.executed") \cup {k}
        /\ VerdictAt(trace'[i], "deny") = VerdictAt(trace[i], "deny")
    BY <1>1, <2>1, AllowedPlaces
  <2> HIDE DEF k
  <2>3. /\ k \notin Targets("action.executed")[i]
        /\ Targets("action.executed")'[i] = Targets("action.executed")[i] \cup {k}
        /\ \A j \in 1..Len(setup) : j # i =>
             Targets("action.executed")'[j] = Targets("action.executed")[j]
        /\ \A j \in 1..Len(setup) : IsFiniteSet(Targets("action.executed")[j])
    BY <1>1, <2>1, <2>2, TracesNext
  <2>4. \A j \in DOMAIN setup : Verdicts("deny")'[j] = Verdicts("deny")[j]
    BY <1>1, <2>1, <2>2, Places, TracesNext
  <2>5. /\ Total(Verdicts("deny")') = Total(Verdicts("deny"))
        /\ Total(Targets("action.executed")') = Total(Targets("action.executed")) + 1
    BY <2>3, <2>4, TotalGrow, TotalSame
  <2>6. Denials' = Denials /\ Executions' = Executions + 1
    BY <1>1, <2>5, TotalNext DEF Denials, Executions
  <2>7. CASE pending.to \in DOMAIN registry /\ registry[pending.to] \in open
    <3>1. PICK b \in open : Put(b, Letter(i))
      BY <1>4, <2>7 DEF Execute
    <3>2. Letter(i) \in Letters /\ Letter(i).by = i /\ Letter(i).n = Sends(i) + 1
      BY <1>1, LetterType
    <3>3. i # 0
      BY RunnersOf DEF TypeInv
    <3>4. Letter(i).n = SentBy(Letter(i)) + 1
      BY <3>2, <3>3 DEF SentBy
    <3>5. b \in 1..Len(setup)
      BY OpenRunners
    <3>6. Waiting' = Waiting + 1 /\ Finished' = Finished /\ Arrivals' = Arrivals + 1
      BY <1>1, <3>1, <3>2, <3>3, <3>4, <3>5, PutCounts
    <3> QED BY <2>6, <3>6
  <2>8. CASE ~(pending.to \in DOMAIN registry /\ registry[pending.to] \in open)
    BY <1>2, <1>4, <2>6, <2>8 DEF Execute
  <2> QED BY <2>7, <2>8
<1> QED BY <1>3, <1>4, PerformMeans

\* A step that neither sends, takes nor records anything counts nothing.
LEMMA IdleCounts ==
  ASSUME TypeInv, UNCHANGED <<setup, mailbox, trace, received, confirmed>>
  PROVE  /\ Finished' = Finished /\ Waiting' = Waiting
         /\ Denials' = Denials /\ Executions' = Executions /\ Arrivals' = Arrivals
BY BoxesSame, EndsSame, TraceSame DEF Arrivals, Deliveries

-----------------------------------------------------------------------------
(* The invariants are kept.                                                *)

LEMMA SmallInit == Init => PendingInv /\ AllowedInv /\ RegistryInv /\ RouteInv /\ ConfirmedInv
<1> SUFFICES ASSUME Init
             PROVE  PendingInv /\ AllowedInv /\ RegistryInv /\ RouteInv /\ ConfirmedInv
  OBVIOUS
<1>0. TypeInv
  BY TypeInit
<1>1. PendingInv /\ AllowedInv
  BY DEF Init, PendingInv, AllowedInv, Justified
<1>2. RegistryInv
  BY DEF Init, RegistryInv
<1>3. RouteInv
  BY <1>0, Places DEF Init, RouteInv, Ended
<1>4. ConfirmedInv
  BY FS_EmptySet DEF Init, ConfirmedInv
<1> QED BY <1>1, <1>2, <1>3, <1>4

LEMMA PendingStep == TypeInv /\ PendingInv /\ [Next]_vars => PendingInv'
<1> SUFFICES ASSUME TypeInv, PendingInv, [Next]_vars PROVE PendingInv'
  OBVIOUS
<1>1. ASSUME UNCHANGED <<setup, start, pending, phase, turn>> PROVE PendingInv'
  BY <1>1 DEF PendingInv, Limits
<1>2. ASSUME pending' = NoAction PROVE PendingInv'
  BY <1>2 DEF PendingInv
<1>3. ASSUME NEW i \in 1..Len(setup), Take(i) PROVE PendingInv'
  <2> DEFINE m == Head(mailbox[i])
  <2>1. m \in Letters
    BY <1>3, Places, HeadTailProperties DEF TypeInv, Take
  <2>2. /\ phase = "draining" /\ turn = i /\ UNCHANGED <<setup, start, turn>>
        /\ Handles(setup[i], m.topic) =>
             phase' = phase /\ pending' = React(setup[i], start, m.from, m.topic)
        /\ ~Handles(setup[i], m.topic) => pending' = NoAction
    BY <1>3 DEF Take, Handled, At, world
  <2>3. CASE Handles(setup[i], m.topic)
    <3> HIDE DEF m
    <3>1. /\ m.topic \in Outcomes => pending' = NoAction
          /\ m.topic \notin Outcomes =>
               /\ setup[i] \in Gated /\ pending' \in [to : Members, topic : Topics]
               /\ Limits => DemoPasses(setup[i], start, pending')
      BY <2>1, <2>2, <2>3, Reaction
    <3>2. turn \in DOMAIN setup
      BY <2>2, Places
    <3>3. Limits' = Limits
      BY <2>2 DEF Limits
    <3>4. CASE m.topic \notin Outcomes
      <4>1. DemoPasses(setup[turn], start, pending)' = DemoPasses(setup[i], start, pending')
        BY <2>2 DEF DemoPasses
      <4> QED BY <2>2, <2>3, <3>1, <3>2, <3>3, <3>4, <4>1 DEF PendingInv
    <3> QED BY <1>2, <3>1, <3>4
  <2> QED BY <1>2, <2>2, <2>3
<1>4. ASSUME NEW i \in 1..Len(setup), Perform(i) PROVE PendingInv'
  BY <1>2, <1>4, PerformCases
<1>5. ASSUME NEW i \in 1..Len(setup), SendSeed(i) PROVE PendingInv'
  BY <1>1, <1>5 DEF SendSeed, world, progress
<1>6. ASSUME NEW i \in 1..Len(setup), Drained(i) PROVE PendingInv'
  BY <1>2, <1>6, DrainedMeans
<1>7. ASSUME NEW i \in 1..Len(setup), Close(i) PROVE PendingInv'
  BY <1>1, <1>7 DEF Close, world, progress
<1>8. CASE Build
  BY <1>1, <1>8 DEF Build, progress
<1>9. CASE StartDraining
  <2>1. phase = "building" /\ pending' = pending
    BY <1>9 DEF StartDraining
  <2> QED BY <1>2, <2>1 DEF PendingInv
<1>10. CASE UNCHANGED vars
  BY <1>1, <1>10 DEF vars, world, progress
<1> QED BY <1>3, <1>4, <1>5, <1>6, <1>7, <1>8, <1>9, <1>10, Steps DEF FinalizeEarly, Finalize

LEMMA AllowedStep == TypeInv /\ PendingInv /\ AllowedInv /\ [Next]_vars => AllowedInv'
<1> SUFFICES ASSUME TypeInv, PendingInv, AllowedInv, [Next]_vars PROVE AllowedInv'
  OBVIOUS
<1>1. ASSUME trace' = trace PROVE AllowedInv'
  BY <1>1 DEF AllowedInv
<1>2. ASSUME NEW i \in 1..Len(setup), Perform(i) PROVE AllowedInv'
  <2>1. setup[i] \in Gated
    BY <1>2, PerformCases DEF PendingInv, At
  <2>2. /\ i \in Runners /\ trace[i] \in Seq(Nodes) /\ Justified(trace[i])
    BY Places DEF TypeInv, AllowedInv
  <2>3. PICK tr \in {Denying(trace[i]), Allowing(trace[i])} : trace' = [trace EXCEPT ![i] = tr]
    BY <1>2, <2>1, PerformMeans
  <2>4. Justified(tr)
    BY <2>2, <2>3, DeniedPlaces, AllowedPlaces
  <2>5. trace'[i] = tr /\ \A j \in Runners : j # i => trace'[j] = trace[j]
    BY <2>2, <2>3 DEF TypeInv
  <2> QED BY <2>4, <2>5 DEF AllowedInv
<1>3. ASSUME NEW i \in 1..Len(setup), Take(i) PROVE trace' = trace
  BY <1>3 DEF Take, Handled
<1>4. ASSUME NEW i \in 1..Len(setup), SendSeed(i) PROVE trace' = trace
  BY <1>4 DEF SendSeed
<1>5. ASSUME NEW i \in 1..Len(setup), Drained(i) PROVE trace' = trace
  BY <1>5, DrainedMeans
<1>6. ASSUME NEW i \in 1..Len(setup), Close(i) PROVE trace' = trace
  BY <1>6 DEF Close
<1>7. CASE Build \/ StartDraining \/ UNCHANGED vars
  BY <1>1, <1>7 DEF Build, StartDraining, vars
<1> QED BY <1>1, <1>2, <1>3, <1>4, <1>5, <1>6, <1>7, Steps DEF FinalizeEarly, Finalize

LEMMA Registered ==
  ASSUME Build
  PROVE  /\ built' = built + 1
         /\ DOMAIN registry' = DOMAIN registry \cup {setup[built']}
         /\ registry'[setup[built']] = built'
         /\ \A n \in DOMAIN registry : n # setup[built'] => registry'[n] = registry[n]
BY DEF Build

LEMMA RegistryStep == TypeInv /\ RegistryInv /\ [Next]_vars => RegistryInv'
<1> SUFFICES ASSUME TypeInv, RegistryInv, [Next]_vars PROVE RegistryInv'
  OBVIOUS
<1>0. Len(setup) \in Nat /\ built \in Nat
  BY RunnersOf DEF TypeInv
<1>1. ASSUME UNCHANGED <<world, open, early>>,
             phase' # "building" => phase # "building" \/ built = Len(setup),
             phase' \in {"building", "draining"} => phase \in {"building", "draining"}
      PROVE  RegistryInv'
  BY <1>1 DEF RegistryInv, world
<1>2. CASE Build
  <2>1. /\ setup' = setup /\ phase' = "building" /\ early' = early
        /\ phase = "building" /\ open' = open \cup {built'}
    BY <1>2 DEF Build, progress
  <2>2. built' = built + 1
    BY <1>2, Registered
  <2>3. DOMAIN registry' = {setup[j] : j \in 1..built'}
    <3>1. 1..built' = 1..built \cup {built'}
      BY <1>0, <2>2
    <3>2. {setup[j] : j \in 1..built'} = {setup[j] : j \in 1..built} \cup {setup[built']}
      BY <3>1
    <3> QED BY <1>2, <3>2, Registered DEF RegistryInv
  <2>4. ASSUME NEW name \in DOMAIN registry'
        PROVE  registry'[name] \in 1..built' /\ setup[registry'[name]] = name
    <3>1. CASE name = setup[built']
      <4>1. registry'[name] = built'
        BY <1>2, <3>1, Registered
      <4> QED BY <1>0, <2>2, <3>1, <4>1
    <3>2. CASE name # setup[built']
      <4>1. name \in DOMAIN registry /\ registry'[name] = registry[name]
        BY <1>2, <2>4, <3>2, Registered
      <4>2. registry[name] \in 1..built /\ setup[registry[name]] = name
        BY <4>1 DEF RegistryInv
      <4> QED BY <1>0, <2>2, <4>1, <4>2
    <3> QED BY <3>1, <3>2
  <2>5. early = 0 => open' = 1..built'
    BY <1>0, <2>1, <2>2 DEF RegistryInv
  <2>6. early' \in Nat
    BY <2>1 DEF RegistryInv
  <2> QED BY <2>1, <2>3, <2>4, <2>5, <2>6 DEF RegistryInv
<1>3. CASE StartDraining
  BY <1>1, <1>3 DEF StartDraining
<1>4. ASSUME NEW i \in 1..Len(setup), SendSeed(i) PROVE RegistryInv'
  BY <1>1, <1>4 DEF SendSeed, progress
<1>5. ASSUME NEW i \in 1..Len(setup), Take(i) PROVE RegistryInv'
  BY <1>1, <1>5 DEF Take, Handled, At
<1>6. ASSUME NEW i \in 1..Len(setup), Perform(i) PROVE RegistryInv'
  BY <1>1, <1>6, PerformCases DEF progress
<1>7. ASSUME NEW i \in 1..Len(setup), Drained(i) PROVE RegistryInv'
  <2>1. phase = "draining" /\ UNCHANGED <<world, open, early>>
    BY <1>7, DrainedMeans DEF At
  <2> QED BY <1>1, <2>1
<1>8. ASSUME NEW i \in 1..Len(setup), FinalizeEarly(i) PROVE RegistryInv'
  <2>1. early' = early + 1 /\ UNCHANGED <<world, progress>>
    BY <1>8 DEF FinalizeEarly, Close
  <2>2. early' \in Nat /\ early' # 0
    BY <2>1 DEF RegistryInv
  <2> QED BY <2>1, <2>2 DEF RegistryInv, world, progress
<1>9. ASSUME NEW i \in 1..Len(setup), Finalize(i) PROVE RegistryInv'
  <2>1. early' = early /\ phase \notin {"building", "draining"} /\ UNCHANGED <<world, progress>>
    BY <1>9 DEF Finalize, Close
  <2> QED BY <2>1 DEF RegistryInv, world, progress
<1>10. CASE UNCHANGED vars
  BY <1>1, <1>10 DEF vars, progress
<1> QED BY <1>2, <1>3, <1>4, <1>5, <1>6, <1>7, <1>8, <1>9, <1>10, Steps

LEMMA RouteStep ==
  TypeInv /\ PendingInv /\ RegistryInv /\ RouteInv /\ [Next]_vars => RouteInv'
<1> SUFFICES ASSUME TypeInv, PendingInv, RegistryInv, RouteInv, [Next]_vars PROVE RouteInv'
  OBVIOUS
<1>0. 1..Len(setup) \subseteq Runners
  BY Places
<1>1. ASSUME UNCHANGED <<setup, registry, received>>,
             phase' # "panicked" => phase # "panicked",
             phase # "building" => phase' # "building",
             \A j \in 1..Len(setup) : mailbox'[j] # <<>> =>
               \/ mailbox[j] # <<>> \/ setup[j] = "vehicle"
               \/ phase' # "building" /\ registry[setup[j]] = j
      PROVE  RouteInv'
  <2>1. \A j \in 1..Len(setup) : Ended(j)' = Ended(j)
    BY <1>1 DEF Ended
  <2> QED BY <1>1, <2>1 DEF RouteInv
<1>2. CASE Build
  <2>1. phase = "building" /\ UNCHANGED <<setup, phase, mailbox, received>>
    BY <1>2 DEF Build, progress, histories
  <2>2. \A j \in 1..Len(setup) : Ended(j)' = Ended(j)
    BY <2>1 DEF Ended
  <2> QED BY <2>1, <2>2 DEF RouteInv
<1>3. CASE StartDraining
  <2>1. /\ phase = "building" /\ phase' = "draining"
        /\ UNCHANGED <<setup, registry, received, mailbox>>
    BY <1>3 DEF StartDraining, world, histories
  <2> QED BY <1>1, <2>1
<1>4. ASSUME NEW i \in 1..Len(setup), SendSeed(i) PROVE RouteInv'
  <2>1. PICK m : Put(i, m)
    BY <1>4 DEF SendSeed
  <2>2. Seed.name = "vehicle"
    <3>1. Seed = [name |-> "vehicle", topic |-> "Dispatch"]
      BY Zenon, DemoAssumption
    <3> QED BY <3>1
  <2>3. setup[i] = "vehicle" /\ UNCHANGED <<setup, registry, phase>>
    BY <1>4, <2>2 DEF SendSeed, world, progress
  <2>4. received' = received /\ mailbox' = [mailbox EXCEPT ![i] = Append(mailbox[i], m)]
    BY <2>1 DEF Put
  <2>5. \A j \in 1..Len(setup) : j # i => mailbox'[j] = mailbox[j]
    BY <1>0, <2>4 DEF TypeInv
  <2> QED BY <1>1, <2>3, <2>4, <2>5
<1>5. ASSUME NEW i \in 1..Len(setup), Take(i) PROVE RouteInv'
  <2> DEFINE m == Head(mailbox[i])
  <2>1. /\ i \in Runners /\ mailbox[i] \in Seq(Letters) /\ mailbox[i] # <<>>
        /\ received[i] \in Seq(Letters) /\ m \in Letters
    BY <1>0, <1>5, HeadTailProperties DEF TypeInv, Take
  <2>2. /\ mailbox' = [mailbox EXCEPT ![i] = Tail(mailbox[i])]
        /\ received' = [received EXCEPT ![i] = Append(received[i], m)]
        /\ phase = "draining" /\ UNCHANGED <<setup, registry>>
        /\ phase' = IF Handles(setup[i], m.topic) THEN phase ELSE "panicked"
    BY <1>5 DEF Take, Handled, At, world
  <2>3. /\ received'[i] = Append(received[i], m)
        /\ \A j \in 1..Len(setup) : j # i => mailbox'[j] = mailbox[j] /\ received'[j] = received[j]
    BY <1>0, <2>1, <2>2 DEF TypeInv
  <2> HIDE DEF m
  <2>4. ASSUME Ended(i)' # {}, phase' # "panicked", Ended(i) = {} PROVE m.topic \in Outcomes
    <3>1. PICK k \in DOMAIN received'[i] : received'[i][k].topic \in Outcomes
      BY <2>4 DEF Ended
    <3>2. /\ DOMAIN received[i] = 1..Len(received[i]) /\ Len(received[i]) \in Nat
          /\ DOMAIN received'[i] = 1..(Len(received[i]) + 1)
          /\ received'[i][Len(received[i]) + 1] = m
          /\ \A j \in 1..Len(received[i]) : received'[i][j] = received[i][j]
      BY <2>1, <2>3, AppendProperties, LenProperties
    <3>3. k \notin DOMAIN received[i]
      BY <2>4, <3>1, <3>2 DEF Ended
    <3>4. k = Len(received[i]) + 1
      BY <3>1, <3>2, <3>3
    <3> QED BY <3>1, <3>2, <3>4
  <2>5. ASSUME m.topic \in Outcomes, phase' # "panicked"
        PROVE  setup[i] = "tms" /\ registry["tms"] = i
    <3>1. Handles(setup[i], m.topic)
      BY <2>2, <2>5
    <3>2. setup[i] = "tms"
      BY <2>1, <2>5, <3>1, Reaction
    <3> QED BY <2>1, <3>2 DEF RouteInv
  <2>6. /\ Ended(i)' # {} /\ phase' # "panicked" => setup[i] = "tms" /\ registry["tms"] = i
    BY <2>2, <2>4, <2>5 DEF RouteInv
  <2>7. \A j \in 1..Len(setup) : j # i => Ended(j)' = Ended(j)
    BY <2>3 DEF Ended
  <2>8. phase' # "building"
    BY <2>2
  <2> QED BY <2>1, <2>2, <2>3, <2>6, <2>7, <2>8 DEF RouteInv
<1>6. ASSUME NEW i \in 1..Len(setup), Perform(i) PROVE RouteInv'
  <2>1. /\ phase = "draining" /\ UNCHANGED <<setup, registry, phase>>
        /\ setup[i] \in Gated
    BY <1>6, PerformCases DEF At, PendingInv, world, progress
  <2>2. CASE UNCHANGED <<mailbox, histories>>
    BY <1>1, <2>1, <2>2 DEF histories
  <2>3. CASE Execute(i) /\ pending.to \in DOMAIN registry /\ registry[pending.to] \in open
    <3> DEFINE b == registry[pending.to]
    <3>1. /\ received' = received /\ mailbox' = [mailbox EXCEPT ![b] = Append(mailbox[b], Letter(i))]
      BY <2>3 DEF Execute, Put
    <3>2. \A j \in 1..Len(setup) : j # b => mailbox'[j] = mailbox[j]
      BY <1>0, <3>1 DEF TypeInv
    <3>3. setup[b] = pending.to
      BY <2>3 DEF RegistryInv
    <3>4. registry[setup[b]] = b
      BY <3>3
    <3> QED BY <1>1, <2>1, <3>1, <3>2, <3>4
  <2> QED BY <1>6, <2>1, <2>2, <2>3, PerformMeans DEF Execute
<1>7. ASSUME NEW i \in 1..Len(setup), Drained(i) PROVE RouteInv'
  <2>1. phase = "draining" /\ UNCHANGED <<setup, registry, received, mailbox>>
    BY <1>7, DrainedMeans DEF At, world, histories
  <2>2. phase' # "building"
    BY <1>7 DEF Drained, At
  <2> QED BY <1>1, <2>1, <2>2
<1>8. ASSUME NEW i \in 1..Len(setup), Close(i) PROVE RouteInv'
  <2>1. UNCHANGED <<setup, registry, phase, received>>
    BY <1>8 DEF Close, world, progress, histories
  <2>2. \A j \in 1..Len(setup) : mailbox'[j] # <<>> => mailbox[j] # <<>>
    BY <1>0, <1>8 DEF Close, TypeInv
  <2> QED BY <1>1, <2>1, <2>2
<1>9. CASE UNCHANGED vars
  BY <1>1, <1>9 DEF vars, world, progress, histories
<1> QED BY <1>2, <1>3, <1>4, <1>5, <1>6, <1>7, <1>8, <1>9, Steps DEF FinalizeEarly, Finalize

LEMMA ConfirmedPut ==
  ASSUME TypeInv, ConfirmedInv, NEW b \in Runners, NEW l \in Letters, Put(b, l)
  PROVE  ConfirmedInv'
<1>1. /\ accepted' = [accepted EXCEPT ![b] = Append(accepted[b], l)]
      /\ confirmed' = confirmed \cup {<<b, l>>}
  BY DEF Put
<1>2. /\ accepted[b] \in Seq(Letters) /\ accepted'[b] = Append(accepted[b], l)
      /\ \A c \in Runners : c # b => accepted'[c] = accepted[c]
  BY <1>1 DEF TypeInv
<1>3. ToSet(accepted'[b]) = ToSet(accepted[b]) \cup {l}
  BY <1>2, SetOfAppend
<1>4. IsFiniteSet(confirmed')
  BY <1>1, FS_AddElement DEF ConfirmedInv
<1>5. ASSUME NEW c \in Runners, NEW m \in Letters, <<c, m>> \in confirmed'
      PROVE  m \in ToSet(accepted'[c])
  <2>1. CASE <<c, m>> = <<b, l>>
    BY <1>3, <2>1
  <2>2. CASE <<c, m>> \in confirmed
    <3>1. m \in ToSet(accepted[c])
      BY <2>2 DEF ConfirmedInv
    <3>2. CASE c = b
      BY <1>3, <3>1, <3>2
    <3>3. CASE c # b
      BY <1>2, <3>1, <3>3
    <3> QED BY <3>2, <3>3
  <2> QED BY <1>1, <1>5, <2>1, <2>2
<1> QED BY <1>4, <1>5 DEF ConfirmedInv

LEMMA ConfirmedStep == TypeInv /\ ConfirmedInv /\ [Next]_vars => ConfirmedInv'
<1> SUFFICES ASSUME TypeInv, ConfirmedInv, [Next]_vars PROVE ConfirmedInv'
  OBVIOUS
<1>1. ASSUME UNCHANGED <<accepted, confirmed>> PROVE ConfirmedInv'
  BY <1>1 DEF ConfirmedInv
<1>2. ASSUME NEW i \in 1..Len(setup), SendSeed(i) PROVE ConfirmedInv'
  <2>1. PICK from \in Senders :
          Put(i, [by |-> 0, n |-> seeds + 1, from |-> from, topic |-> Seed.topic])
    BY <1>2 DEF SendSeed
  <2>2. [by |-> 0, n |-> seeds + 1, from |-> from, topic |-> Seed.topic] \in Letters
    BY SeedType
  <2> QED BY <2>1, <2>2, Places, ConfirmedPut
<1>3. ASSUME NEW i \in 1..Len(setup), Perform(i) PROVE ConfirmedInv'
  <2>1. CASE UNCHANGED <<mailbox, histories>>
    BY <1>1, <2>1 DEF histories
  <2>2. ASSUME NEW b \in open, Put(b, Letter(i)) PROVE ConfirmedInv'
    <3>1. Letter(i) \in Letters
      BY <1>3, PerformCases, LetterType
    <3> QED BY <2>2, <3>1, OpenRunners, ConfirmedPut
  <2> QED BY <1>3, <2>1, <2>2, PerformCases
<1>4. ASSUME NEW i \in 1..Len(setup), Take(i) PROVE ConfirmedInv'
  BY <1>1, <1>4 DEF Take, Handled
<1>5. ASSUME NEW i \in 1..Len(setup), Drained(i) PROVE ConfirmedInv'
  BY <1>1, <1>5, DrainedMeans DEF histories
<1>6. ASSUME NEW i \in 1..Len(setup), Close(i) PROVE ConfirmedInv'
  BY <1>1, <1>6 DEF Close, histories
<1>7. CASE Build
  BY <1>1, <1>7 DEF Build, histories
<1>8. CASE StartDraining
  BY <1>1, <1>8 DEF StartDraining, histories
<1>9. CASE UNCHANGED vars
  BY <1>1, <1>9 DEF vars, histories
<1> QED BY <1>2, <1>3, <1>4, <1>5, <1>6, <1>7, <1>8, <1>9, Steps DEF FinalizeEarly, Finalize

LEMMA TotalNone ==
  ASSUME NEW f, \A i \in DOMAIN setup : f[i] = {}
  PROVE  Total(f) = 0
<1>1. OfAll(f) = {}
  BY DEF OfAll
<1> QED BY <1>1, FS_EmptySet DEF Total

LEMMA CountInit == Init => DispatchInv /\ SmoothInv
<1> SUFFICES ASSUME Init PROVE DispatchInv /\ SmoothInv
  OBVIOUS
<1>1. TypeInv /\ 1..Len(setup) \subseteq Runners /\ DOMAIN setup = 1..Len(setup)
  BY TypeInit, Places
<1>2. \A i \in DOMAIN setup :
        /\ Ends[i] = {} /\ Boxes[i] = {}
        /\ Verdicts("deny")[i] = {} /\ Targets("action.executed")[i] = {}
  <2>1. \A i \in DOMAIN setup : received[i] = <<>> /\ mailbox[i] = <<>> /\ trace[i] = <<>>
    BY <1>1 DEF Init
  <2>2. DOMAIN <<>> = {}
    OBVIOUS
  <2>3. TargetAt(<<>>, "action.executed") = {} /\ VerdictAt(<<>>, "deny") = {}
    BY <2>2 DEF TargetAt, VerdictAt
  <2>4. \A i \in DOMAIN setup : Ended(i) = {}
    BY <2>1, <2>2 DEF Ended
  <2> QED BY <1>1, <2>1, <2>2, <2>3, <2>4, Places
<1>3. Finished = 0 /\ Waiting = 0 /\ Denials = 0 /\ Executions = 0
  BY <1>2, TotalNone DEF Finished, Waiting, Denials, Executions
<1>4. Arrivals = 0
  <2>1. Deliveries = {}
    BY DEF Init, Deliveries
  <2> QED BY <2>1, FS_EmptySet DEF Arrivals
<1>5. Underway = 0 /\ seeds = 0
  BY DEF Init, Underway
<1> QED BY <1>3, <1>4, <1>5 DEF DispatchInv, SmoothInv

\* The counts are numbers.
LEMMA Numbers ==
  TypeInv /\ ConfirmedInv =>
    /\ Finished \in Nat /\ Waiting \in Nat /\ Denials \in Nat /\ Executions \in Nat
    /\ Arrivals \in Nat /\ seeds \in Nat /\ Underway \in {0, 1}
<1> SUFFICES ASSUME TypeInv, ConfirmedInv
             PROVE  /\ Finished \in Nat /\ Waiting \in Nat
                    /\ Denials \in Nat /\ Executions \in Nat
                    /\ Arrivals \in Nat /\ seeds \in Nat /\ Underway \in {0, 1}
  OBVIOUS
<1>1. Finished \in Nat /\ Waiting \in Nat /\ Denials \in Nat /\ Executions \in Nat
  BY CountTypes DEF Finished, Denials, Executions
<1>2. Deliveries \in SUBSET confirmed
  BY DEF Deliveries
<1>3. Arrivals \in Nat
  BY <1>2, FS_Subset, FS_CardinalityType DEF ConfirmedInv, Arrivals
<1>4. seeds \in Nat
  BY DEF TypeInv
<1> QED BY <1>1, <1>3, <1>4 DEF Underway

SmallInv == PendingInv /\ AllowedInv /\ RegistryInv /\ RouteInv /\ ConfirmedInv

LEMMA SmallStep == RouterInv /\ SmallInv /\ [Next]_vars => SmallInv'
BY PendingStep, AllowedStep, RegistryStep, RouteStep, ConfirmedStep DEF SmallInv, RouterInv

LEMMA SeedCounts ==
  ASSUME TypeInv, ConfirmedInv, NumberInv, NEW i \in 1..Len(setup), SendSeed(i)
  PROVE  /\ Waiting' = Waiting + 1 /\ seeds' = seeds + 1
         /\ Finished' = Finished /\ Arrivals' = Arrivals
         /\ Denials' = Denials /\ Executions' = Executions
         /\ UNCHANGED <<setup, start, pending, phase, early>>
<1>1. PICK from \in Senders :
        Put(i, [by |-> 0, n |-> seeds + 1, from |-> from, topic |-> Seed.topic])
  BY DEF SendSeed
<1> DEFINE m == [by |-> 0, n |-> seeds + 1, from |-> from, topic |-> Seed.topic]
<1>2. m \in Letters /\ m.by = 0 /\ m.n = SentBy(m) + 1
  BY SeedType DEF SentBy
<1>3. /\ seeds' = seeds + 1 /\ UNCHANGED <<setup, start, pending, phase, early, trace>>
  BY DEF SendSeed, world, progress
<1> HIDE DEF m
<1>4. Put(i, m)
  BY <1>1 DEF m
<1>5. Waiting' = Waiting + 1 /\ Finished' = Finished /\ Arrivals' = Arrivals
  BY <1>2, <1>3, <1>4, PutCounts
<1> QED BY <1>3, <1>5, TraceSame

LEMMA DispatchStep ==
  RouterInv /\ RouterInv' /\ SmallInv /\ DispatchInv /\ [Next]_vars => DispatchInv'
<1> SUFFICES ASSUME RouterInv, RouterInv', SmallInv, DispatchInv, [Next]_vars
             PROVE  DispatchInv'
  OBVIOUS
<1>0. /\ TypeInv /\ TypeInv' /\ NumberInv /\ AllRead
      /\ PendingInv /\ RegistryInv /\ ConfirmedInv
  BY DEF RouterInv, QuietInv, SmallInv
<1>a. /\ Finished \in Nat /\ Waiting \in Nat /\ Denials \in Nat /\ Executions \in Nat
      /\ Arrivals \in Nat /\ seeds \in Nat /\ Underway \in {0, 1}
  BY <1>0, Numbers
<1>1. ASSUME UNCHANGED <<setup, mailbox, trace, received, confirmed, pending, seeds, early>>,
             phase' \in {"building", "draining", "settled"} =>
               phase \in {"building", "draining", "settled"}
      PROVE  DispatchInv'
  <2>1. /\ Finished' = Finished /\ Waiting' = Waiting
        /\ Denials' = Denials /\ Executions' = Executions /\ Arrivals' = Arrivals
    BY <1>0, <1>1, IdleCounts
  <2>2. Underway' = Underway
    BY <1>1 DEF Underway
  <2> QED BY <1>1, <2>1, <2>2 DEF DispatchInv
<1>2. ASSUME NEW i \in 1..Len(setup), SendSeed(i) PROVE DispatchInv'
  <2>1. /\ Waiting' = Waiting + 1 /\ seeds' = seeds + 1
        /\ Finished' = Finished /\ Arrivals' = Arrivals
        /\ Denials' = Denials /\ Executions' = Executions
        /\ UNCHANGED <<pending, phase, early>>
    BY <1>0, <1>2, SeedCounts
  <2>2. Underway' = Underway
    BY <2>1 DEF Underway
  <2> QED BY <1>a, <2>1, <2>2 DEF DispatchInv
<1>3. ASSUME NEW i \in 1..Len(setup), Take(i) PROVE DispatchInv'
  <2> DEFINE m == Head(mailbox[i])
  <2>1. /\ Waiting = Waiting' + 1 /\ Waiting' \in Nat
        /\ Finished' = IF m.topic \in Outcomes THEN Finished + 1 ELSE Finished
        /\ Denials' = Denials /\ Executions' = Executions /\ Arrivals' = Arrivals
    BY <1>0, <1>3, TakeCounts
  <2>2. /\ pending = NoAction /\ phase = "draining" /\ UNCHANGED <<early, seeds>>
        /\ ~Handles(setup[i], m.topic) => phase' = "panicked"
        /\ Handles(setup[i], m.topic) => pending' = React(setup[i], start, m.from, m.topic)
    BY <1>3 DEF Take, Handled, At
  <2>3. m \in Letters
    BY <1>0, <1>3, Places, HeadTailProperties DEF TypeInv, Take
  <2> HIDE DEF m
  <2>4. CASE Handles(setup[i], m.topic)
    <3>1. pending' = NoAction <=> m.topic \in Outcomes
      BY <1>0, <2>2, <2>3, <2>4, Reaction
    <3>2. early' = 0 =>
            Finished + Denials + Executions + (Waiting' + 1) + 0 = seeds + Arrivals
      BY <2>1, <2>2 DEF DispatchInv, Underway
    <3>3. ASSUME early' = 0
          PROVE  Finished' + Denials' + Executions' + Waiting' + Underway' = seeds' + Arrivals'
      <4>1. /\ Denials' = Denials /\ Executions' = Executions
            /\ Arrivals' = Arrivals /\ seeds' = seeds
        BY <2>1, <2>2
      <4>2. /\ Finished \in Nat /\ Denials \in Nat /\ Executions \in Nat
            /\ Waiting' \in Nat /\ seeds \in Nat /\ Arrivals \in Nat
            /\ Finished + Denials + Executions + (Waiting' + 1) + 0 = seeds + Arrivals
        BY <1>a, <2>1, <3>2, <3>3
      <4>3. /\ (Finished + 1) + Denials + Executions + Waiting' + 0 = seeds + Arrivals
            /\ Finished + Denials + Executions + Waiting' + 1 = seeds + Arrivals
        <5>1. PICK e \in Nat, d \in Nat, x \in Nat, w \in Nat, t \in Nat, a \in Nat :
                /\ e = Finished /\ d = Denials /\ x = Executions
                /\ w = Waiting' /\ t = seeds /\ a = Arrivals
          BY <4>2, Zenon
        <5>2. e + d + x + (w + 1) + 0 = t + a
          BY <4>2, <5>1
        <5>3. (e + 1) + d + x + w + 0 = t + a /\ e + d + x + w + 1 = t + a
          BY <5>2
        <5> QED BY <5>1, <5>3
      <4>4. \/ Finished' = Finished + 1 /\ Underway' = 0
            \/ Finished' = Finished /\ Underway' = 1
        BY <2>1, <3>1 DEF Underway
      <4> QED BY <4>1, <4>3, <4>4
    <3> QED BY <3>3 DEF DispatchInv
  <2>5. CASE ~Handles(setup[i], m.topic)
    BY <2>2, <2>5 DEF DispatchInv
  <2> QED BY <2>4, <2>5
<1>4. ASSUME NEW i \in 1..Len(setup), Perform(i) PROVE DispatchInv'
  <2>1. /\ phase = "draining" /\ pending # NoAction /\ pending' = NoAction
        /\ UNCHANGED <<phase, seeds, early>> /\ setup[i] \in Gated
    BY <1>0, <1>4, PerformCases DEF At, PendingInv, progress
  <2>2. Underway = 1 /\ Underway' = 0
    BY <2>1 DEF Underway
  <2>3. /\ Finished' = Finished
        /\ \/ /\ Denials' = Denials + 1 /\ Executions' = Executions
              /\ Waiting' = Waiting /\ Arrivals' = Arrivals
           \/ /\ Denials' = Denials /\ Executions' = Executions + 1
              /\ Waiting' = Waiting /\ Arrivals' = Arrivals
           \/ /\ Denials' = Denials /\ Executions' = Executions + 1
              /\ Waiting' = Waiting + 1 /\ Arrivals' = Arrivals + 1
    BY <1>0, <1>4, <2>1, PerformCounts
  <2>4. early' = 0 =>
          Finished + Denials + Executions + Waiting + 1 = seeds + Arrivals
    BY <2>1, <2>2 DEF DispatchInv
  <2>5. early' = 0 =>
          Finished' + Denials' + Executions' + Waiting' + Underway' = seeds + Arrivals'
    <3>1. CASE /\ Denials' = Denials + 1 /\ Executions' = Executions
               /\ Waiting' = Waiting /\ Arrivals' = Arrivals
      BY <1>a, <2>2, <2>3, <2>4, <3>1
    <3>2. CASE /\ Denials' = Denials /\ Executions' = Executions + 1
               /\ Waiting' = Waiting /\ Arrivals' = Arrivals
      BY <1>a, <2>2, <2>3, <2>4, <3>2
    <3>3. CASE /\ Denials' = Denials /\ Executions' = Executions + 1
               /\ Waiting' = Waiting + 1 /\ Arrivals' = Arrivals + 1
      BY <1>a, <2>2, <2>3, <2>4, <3>3
    <3> QED BY <2>3, <3>1, <3>2, <3>3
  <2> QED BY <2>1, <2>5 DEF DispatchInv
<1>5. ASSUME NEW i \in 1..Len(setup), Drained(i) PROVE DispatchInv'
  BY <1>0, <1>1, <1>5, DrainedMeans DEF At, world, histories
<1>6. ASSUME NEW i \in 1..Len(setup), FinalizeEarly(i) PROVE DispatchInv'
  <2>1. early' = early + 1 /\ early \in Nat
    BY <1>0, <1>6 DEF FinalizeEarly, RegistryInv
  <2> QED BY <2>1 DEF DispatchInv
<1>7. ASSUME NEW i \in 1..Len(setup), Finalize(i) PROVE DispatchInv'
  <2>1. /\ phase \in {"settled", "gave up"} /\ i \in Runners
        /\ mailbox' = [mailbox EXCEPT ![i] = <<>>]
        /\ UNCHANGED <<setup, trace, received, confirmed, pending, phase, seeds, early>>
    BY <1>0, <1>7, Places DEF Finalize, Close, world, progress, histories
  <2>2. CASE phase = "settled"
    <3>1. mailbox[i] = <<>>
      BY <1>0, <2>1, <2>2 DEF AllRead
    <3>2. mailbox' = mailbox
      BY <1>0, <2>1, <3>1 DEF TypeInv
    <3> QED BY <1>1, <2>1, <3>2
  <2>3. CASE phase # "settled"
    BY <2>1, <2>3 DEF DispatchInv
  <2> QED BY <2>2, <2>3
<1>8. CASE Build
  BY <1>1, <1>8 DEF Build, progress, histories
<1>9. CASE StartDraining
  BY <1>1, <1>9 DEF StartDraining, world, histories
<1>10. CASE UNCHANGED vars
  BY <1>1, <1>10 DEF vars, world, progress, histories
<1> QED BY <1>0, <1>2, <1>3, <1>4, <1>5, <1>6, <1>7, <1>8, <1>9, <1>10, Steps

LEMMA SmoothStep ==
  RouterInv /\ SmallInv /\ SmoothInv /\ [Next]_vars => SmoothInv'
<1> DEFINE Smooth == /\ Limits /\ early = 0
                     /\ Members \subseteq {setup[j] : j \in 1..Len(setup)}
<1> SUFFICES ASSUME RouterInv, SmallInv, SmoothInv, [Next]_vars PROVE SmoothInv'
  OBVIOUS
<1>0. /\ TypeInv /\ NumberInv
      /\ PendingInv /\ RegistryInv /\ ConfirmedInv
  BY DEF RouterInv, SmallInv
<1>1. ASSUME UNCHANGED <<setup, start, early>>,
             Smooth /\ Denials = 0 /\ Executions = Arrivals
               => Denials' = 0 /\ Executions' = Arrivals'
      PROVE  SmoothInv'
  <2>1. Smooth' => Smooth
    BY <1>1 DEF Limits
  <2> QED BY <1>1, <2>1 DEF SmoothInv
<1>2. ASSUME UNCHANGED <<setup, start, early, trace, confirmed>> PROVE SmoothInv'
  <2>1. Denials' = Denials /\ Executions' = Executions /\ Arrivals' = Arrivals
    BY <1>0, <1>2, TraceSame DEF Arrivals, Deliveries
  <2> HIDE DEF Smooth
  <2> QED BY <1>1, <1>2, <2>1
<1>3. ASSUME NEW i \in 1..Len(setup), SendSeed(i) PROVE SmoothInv'
  <2>1. /\ Arrivals' = Arrivals /\ Denials' = Denials /\ Executions' = Executions
        /\ UNCHANGED <<setup, start, early>>
    BY <1>0, <1>3, SeedCounts
  <2> HIDE DEF Smooth
  <2> QED BY <1>1, <2>1
<1>4. ASSUME NEW i \in 1..Len(setup), Take(i) PROVE SmoothInv'
  BY <1>2, <1>4 DEF Take, Handled, world
<1>5. ASSUME NEW i \in 1..Len(setup), Perform(i) PROVE SmoothInv'
  <2>1. /\ phase = "draining" /\ turn = i /\ pending # NoAction
        /\ UNCHANGED <<setup, start, early>>
    BY <1>0, <1>5, PerformCases DEF At, world
  <2>2. /\ setup[i] \in Gated /\ pending \in [to : Members, topic : Topics]
        /\ Limits => DemoPasses(setup[i], start, pending)
    BY <1>0, <2>1 DEF PendingInv
  <2>3. Passes(setup[i], start, pending) = DemoPasses(setup[i], start, pending)
    <3>1. \A name \in Gated, s \in Starts, action \in [to : Members, topic : Topics] :
            Passes(name, s, action) = DemoPasses(name, s, action)
      BY Zenon, DemoAssumption
    <3>2. start \in Starts
      BY <1>0 DEF TypeInv
    <3> QED BY <2>2, <3>1, <3>2
  <2>4. ASSUME Smooth PROVE pending.to \in DOMAIN registry /\ registry[pending.to] \in open
    <3>1. built = Len(setup) /\ open = 1..built
      BY <1>0, <2>1, <2>4 DEF RegistryInv
    <3>2. pending.to \in {setup[j] : j \in 1..built}
      BY <2>2, <2>4, <3>1
    <3> QED BY <1>0, <3>1, <3>2 DEF RegistryInv
  <2>5. \/ ~Passes(setup[i], start, pending)
        \/ ~(pending.to \in DOMAIN registry /\ registry[pending.to] \in open)
        \/ Denials' = Denials /\ Executions' = Executions + 1 /\ Arrivals' = Arrivals + 1
    BY <1>0, <1>5, <2>2, PerformCounts
  <2>6. Smooth => Denials' = Denials /\ Executions' = Executions + 1 /\ Arrivals' = Arrivals + 1
    BY <2>2, <2>3, <2>4, <2>5
  <2> HIDE DEF Smooth
  <2> QED BY <1>1, <2>1, <2>6
<1>6. ASSUME NEW i \in 1..Len(setup), Drained(i) PROVE SmoothInv'
  BY <1>0, <1>2, <1>6, DrainedMeans DEF world, histories
<1>7. ASSUME NEW i \in 1..Len(setup), FinalizeEarly(i) PROVE SmoothInv'
  <2>1. early' = early + 1 /\ early \in Nat
    BY <1>0, <1>7 DEF FinalizeEarly, RegistryInv
  <2> QED BY <2>1 DEF SmoothInv
<1>8. ASSUME NEW i \in 1..Len(setup), Finalize(i) PROVE SmoothInv'
  BY <1>2, <1>8 DEF Finalize, Close, world, histories
<1>9. CASE Build
  BY <1>2, <1>9 DEF Build, histories
<1>10. CASE StartDraining
  BY <1>2, <1>10 DEF StartDraining, world, histories
<1>11. CASE UNCHANGED vars
  BY <1>2, <1>11 DEF vars, world, histories
<1> QED BY <1>0, <1>3, <1>4, <1>5, <1>6, <1>7, <1>8, <1>9, <1>10, <1>11, Steps

-----------------------------------------------------------------------------
(* Theorems.                                                               *)

DemoInv == RouterInv /\ SmallInv /\ DispatchInv /\ SmoothInv

LEMMA DemoInvHolds == FairSpec => []DemoInv
<1>1. Init => DemoInv
  BY TypeInit, QueueInit, NumberInit, QuietInit, SmallInit, CountInit
     DEF DemoInv, RouterInv, SmallInv
<1>2. RouterInv /\ [Next]_vars => RouterInv'
  BY TypeStep, QueueStep, NumberStep, QuietStep DEF RouterInv
<1>3. DemoInv /\ [Next]_vars => DemoInv'
  BY <1>2, SmallStep, DispatchStep, SmoothStep DEF DemoInv
<1> QED BY <1>1, <1>3, PTL DEF FairSpec

\* Once the driver reports that all is done nothing waits and nothing is under
\* way.
LEMMA SettledCounts ==
  ASSUME DemoInv, phase = "settled"
  PROVE  Waiting = 0 /\ Underway = 0
<1>1. TypeInv /\ AllRead /\ PendingInv
  BY DEF DemoInv, RouterInv, QuietInv, SmallInv
<1>2. \A i \in DOMAIN setup : Boxes[i] = {}
  <2>1. \A i \in DOMAIN setup : mailbox[i] = <<>>
    BY <1>1, Places DEF AllRead
  <2>2. DOMAIN <<>> = {}
    OBVIOUS
  <2> QED BY <1>1, <2>1, <2>2, Places
<1>3. Waiting = 0
  BY <1>2, TotalNone DEF Waiting
<1>4. Underway = 0
  BY <1>1 DEF PendingInv, Underway
<1> QED BY <1>3, <1>4

\* Every dispatch comes to one end, however many there are and whoever is
\* there: an outcome received, a denial by a gate or a failed send; none is
\* forgotten or answered twice (multi_depot.rs:135-157, runner.rs:229).
THEOREM OneEndHolds == FairSpec => []OneEnd
<1>1. DemoInv => OneEnd
  <2> SUFFICES ASSUME DemoInv PROVE OneEnd
    OBVIOUS
  <2>1. AllRead
    BY DEF DemoInv, RouterInv, QuietInv
  <2>2. ASSUME phase = "settled", early = 0
        PROVE  Total(Ends) + Total(Verdicts("deny")) + Undelivered = seeds
    <3>1. /\ Finished \in Nat /\ Denials \in Nat /\ Executions \in Nat
          /\ Arrivals \in Nat /\ seeds \in Nat
      BY Numbers DEF DemoInv, RouterInv, SmallInv
    <3>2. Finished + Denials + Executions + Waiting + Underway = seeds + Arrivals
      BY <2>2 DEF DemoInv, DispatchInv
    <3>3. Finished + Denials + (Executions - Arrivals) = seeds
      BY <2>2, <3>1, <3>2, SettledCounts
    <3> QED BY <3>3 DEF Undelivered, Finished, Denials, Executions, Arrivals
  <2> QED BY <2>1, <2>2 DEF OneEnd
<1> QED BY <1>1, DemoInvHolds, PTL

\* With all three agents there, within their limits to begin with, the tms that
\* is registered gets exactly one outcome for every dispatch, also if agents
\* share a name (multi_depot_vehicle.lex:13-55, multi_depot_depot.lex:11-31,
\* multi_depot.rs:42-90).
THEOREM AnsweredHolds == FairSpec => []Answered
<1>1. DemoInv => Answered
  <2> DEFINE tms == registry["tms"]
  <2> SUFFICES ASSUME DemoInv, phase = "settled", early = 0,
                      {"vehicle", "depot", "tms"} \subseteq DOMAIN registry,
                      start.vehicle.soc >= start.vehicle.reserve,
                      start.depot.current <= start.depot.budget + start.depot.pv
               PROVE  Cardinality(Ended(tms)) = seeds
    BY DEF Answered
  <2>1. TypeInv /\ RegistryInv /\ RouteInv /\ ConfirmedInv
    BY DEF DemoInv, RouterInv, SmallInv
  <2>2. built = Len(setup) /\ DOMAIN registry = {setup[j] : j \in 1..Len(setup)}
    BY <2>1 DEF RegistryInv
  <2>3. Members \subseteq {setup[j] : j \in 1..Len(setup)}
    BY <2>2 DEF Members
  <2>4. Denials = 0 /\ Executions = Arrivals
    BY <2>3 DEF DemoInv, SmoothInv, Limits
  <2>5. Finished + Denials + Executions + Waiting + Underway = seeds + Arrivals
    BY DEF DemoInv, DispatchInv
  <2>6. /\ Finished \in Nat /\ Executions \in Nat /\ Arrivals \in Nat /\ seeds \in Nat
    BY <2>1, Numbers
  <2>7. Finished = seeds
    <3>1. Waiting = 0 /\ Underway = 0
      BY SettledCounts
    <3>2. Finished + 0 + Arrivals + 0 + 0 = seeds + Arrivals
      BY <2>4, <2>5, <3>1, Zenon
    <3> QED BY <2>6, <3>2
  <2>8. tms \in 1..Len(setup)
    BY <2>1, <2>2 DEF RegistryInv
  <2> HIDE DEF tms
  <2>9. \A j \in DOMAIN setup \ {tms} : Ends[j] = {}
    BY <2>1, Places DEF RouteInv, tms
  <2>10. tms \in DOMAIN setup /\ Ends[tms] = Ended(tms) /\ IsFiniteSet(Ends[tms])
    BY <2>1, <2>8, Places
  <2>11. Cardinality(Pairs(DOMAIN setup, Ends)) = Cardinality(Ends[tms])
    BY <2>9, <2>10, PairsOfOne
  <2>12. Finished = Cardinality(Pairs(DOMAIN setup, Ends))
    BY Zenon DEF Finished, Total, OfAll, Pairs
  <2> QED BY <2>7, <2>10, <2>11, <2>12
<1> QED BY <1>1, DemoInvHolds, PTL

\* The counts of all runs added up never look like a bypass: each execution has
\* an Allow of its own before it, in its own run (multi_depot.rs:217-237,
\* replay.rs:129-146).
THEOREM RollupCleanHolds == FairSpec => []RollupClean
<1>1. DemoInv => RollupClean
  <2> DEFINE exec == OfAll(Targets("action.executed"))
             allow == OfAll(Verdicts("allow"))
             before == [p \in exec |-> <<p[1], p[2] - 1>>]
  <2> SUFFICES ASSUME DemoInv PROVE ~HasViolation(Rollup)
    BY DEF RollupClean
  <2>1. TypeInv /\ AllowedInv
    BY DEF DemoInv, RouterInv, SmallInv
  <2>2. \A p : p \in exec <=> \E i \in 1..Len(setup) :
                  \E k \in TargetAt(trace[i], "action.executed") : p = <<i, k>>
    BY <2>1, Places DEF OfAll, Targets
  <2>3. \A p : p \in allow <=> \E i \in 1..Len(setup) :
                  \E k \in VerdictAt(trace[i], "allow") : p = <<i, k>>
    BY <2>1, Places DEF OfAll, Verdicts
  <2>4. ASSUME NEW i \in 1..Len(setup), NEW k \in TargetAt(trace[i], "action.executed")
        PROVE  k \in Nat /\ k - 1 \in VerdictAt(trace[i], "allow")
    <3>1. /\ trace[i] \in Seq(Nodes) /\ Justified(trace[i])
      BY <2>1, Places DEF TypeInv, AllowedInv
    <3>2. DOMAIN trace[i] = 1..Len(trace[i]) /\ Len(trace[i]) \in Nat
      BY <3>1, LenProperties
    <3>3. k \in DOMAIN trace[i] /\ k > 1 /\ trace[i][k - 1] = Judged("allow")
      BY <3>1 DEF TargetAt, Justified
    <3>4. k \in Nat /\ k - 1 \in DOMAIN trace[i]
      BY <3>2, <3>3
    <3> QED BY <3>3, <3>4, EventTypes DEF VerdictAt, TargetAt
  <2>5. ASSUME NEW p \in exec PROVE before[p] \in allow
    BY <2>2, <2>3, <2>4
  <2>6. ASSUME NEW p \in exec, NEW q \in exec, before[p] = before[q] PROVE p = q
    <3>1. PICK i \in 1..Len(setup) :
            \E k \in TargetAt(trace[i], "action.executed") : p = <<i, k>>
      BY <2>2
    <3>2. PICK k \in TargetAt(trace[i], "action.executed") : p = <<i, k>>
      BY <3>1
    <3>3. PICK j \in 1..Len(setup) :
            \E h \in TargetAt(trace[j], "action.executed") : q = <<j, h>>
      BY <2>2
    <3>4. PICK h \in TargetAt(trace[j], "action.executed") : q = <<j, h>>
      BY <3>3
    <3>5. k \in Nat /\ h \in Nat
      BY <2>4
    <3>6. before[p] = <<i, k - 1>> /\ before[q] = <<j, h - 1>>
      BY <3>2, <3>4
    <3>7. i = j /\ k - 1 = h - 1
      BY <2>6, <3>6
    <3> QED BY <3>2, <3>4, <3>5, <3>7
  <2> HIDE DEF exec, allow
  <2>7. before \in Injection(exec, allow)
    BY <2>5, <2>6 DEF Injection, IsInjective
  <2> HIDE DEF before
  <2>8. IsFiniteSet(allow)
    BY <2>1, CountTypes DEF allow
  <2>9. Cardinality(exec) <= Cardinality(allow)
    BY <2>7, <2>8, FS_Injection
  <2>10. Cardinality(exec) \in Nat /\ Cardinality(allow) \in Nat
    BY <2>7, <2>8, FS_Injection, FS_CardinalityType
  <2>11. Rollup.executed = Cardinality(exec) /\ Rollup.allowed = Cardinality(allow)
    BY DEF Rollup, Total, exec, allow
  <2> QED BY <2>9, <2>10, <2>11 DEF HasViolation
<1> QED BY <1>1, DemoInvHolds, PTL

-----------------------------------------------------------------------------
(* Why the driver never gives up.                                          *)

\* Of the runners of one name the last is registered.
LastInv ==
  \A j \in 1..built : setup[j] \in DOMAIN registry /\ j <= registry[setup[j]]

Home == registry["vehicle"]

\* The round in which a runner reads what is in its mailbox.
Level(i) == rounds + (IF i < turn THEN 1 ELSE 0)

\* A dispatch is read in the first round.  A request for a session is read in
\* the second only by a depot before the vehicle at home, which then has the
\* answer within that round; so an outcome is read in the third at the latest.
Timely(m, i, level, home) ==
  /\ level <= 2
  /\ m.topic = "Dispatch" => level = 0
  /\ m.topic = "RequestSession" =>
       level = 0 \/ (level = 1 /\ m.from = "vehicle" /\ i < home)
  /\ m.topic \in {"GrantSession", "DenySession"} => level <= 1

AllTimely(box, i, level, home) == \A k \in DOMAIN box : Timely(box[k], i, level, home)

AnswersTimely ==
  pending # NoAction =>
    /\ rounds <= 1
    /\ pending.topic # "Dispatch"
    /\ pending.topic = "RequestSession" =>
         rounds = 0 /\ setup[turn] = "vehicle" /\ pending.to = "depot"
    /\ pending.topic \in {"GrantSession", "DenySession"} =>
         rounds = 0 \/ (pending.to = "vehicle" /\ turn < Home)

BoxesTimely == \A i \in Runners : AllTimely(mailbox[i], i, Level(i), Home)

RoundInv ==
  /\ rounds \in 0..4
  /\ phase = "building" => rounds = 0
  /\ phase = "gave up" => MaxRounds <= 3
  /\ phase \in {"building", "draining"} =>
       /\ rounds <= 3 /\ (moved > 0 => rounds <= 2)
       /\ AnswersTimely /\ BoxesTimely

\* However many dispatches there are and whoever is built in whatever order,
\* three rounds read all the messages and a fourth finds nothing: the driver,
\* who allows for twenty, never reports that the agents did not settle
\* (multi_depot.rs:135-157).
RoundsFew ==
  /\ rounds <= 4
  /\ MaxRounds > 3 => phase # "gave up"

LEMMA TimelyBoxes ==
  ASSUME NEW box \in Seq(Letters), NEW i, NEW level, NEW home,
         AllTimely(box, i, level, home)
  PROVE  /\ \A m \in Letters : Timely(m, i, level, home)
                                 => AllTimely(Append(box, m), i, level, home)
         /\ box # <<>> => /\ Timely(Head(box), i, level, home)
                          /\ AllTimely(Tail(box), i, level, home)
<1>1. DOMAIN box = 1..Len(box) /\ Len(box) \in Nat
  BY LenProperties
<1>2. ASSUME NEW m \in Letters, Timely(m, i, level, home)
      PROVE  AllTimely(Append(box, m), i, level, home)
  <2> DEFINE longer == Append(box, m)
  <2>1. /\ DOMAIN longer = 1..(Len(box) + 1) /\ longer[Len(box) + 1] = m
        /\ \A k \in 1..Len(box) : longer[k] = box[k]
    BY AppendProperties, LenProperties
  <2> HIDE DEF longer
  <2>2. ASSUME NEW k \in DOMAIN longer PROVE Timely(longer[k], i, level, home)
    <3>1. k = Len(box) + 1 \/ k \in 1..Len(box)
      BY <1>1, <2>1
    <3> QED BY <1>1, <1>2, <2>1, <3>1 DEF AllTimely
  <2> QED BY <2>2 DEF AllTimely, longer
<1>3. ASSUME box # <<>>
      PROVE  /\ Timely(Head(box), i, level, home)
             /\ AllTimely(Tail(box), i, level, home)
  <2> DEFINE rest == Tail(box)
  <2>1. /\ Len(box) >= 1 /\ Head(box) = box[1]
        /\ DOMAIN rest = 1..(Len(box) - 1)
        /\ \A k \in 1..(Len(box) - 1) : rest[k] = box[k + 1]
    BY <1>1, <1>3, EmptySeq, HeadTailProperties, LenProperties
  <2> HIDE DEF rest
  <2>2. ASSUME NEW k \in DOMAIN rest PROVE Timely(rest[k], i, level, home)
    <3>1. k + 1 \in DOMAIN box /\ rest[k] = box[k + 1]
      BY <1>1, <2>1
    <3> QED BY <3>1 DEF AllTimely
  <2>3. 1 \in DOMAIN box
    BY <1>1, <2>1
  <2> QED BY <2>1, <2>2, <2>3 DEF AllTimely, rest
<1> QED BY <1>2, <1>3

LEMMA LastStep == TypeInv /\ RegistryInv /\ LastInv /\ [Next]_vars => LastInv'
<1> SUFFICES ASSUME TypeInv, RegistryInv, LastInv, [Next]_vars PROVE LastInv'
  OBVIOUS
<1>1. CASE Build
  <2>1. /\ built' = built + 1 /\ built \in Nat /\ setup' = setup
        /\ registry' = [name \in DOMAIN registry \cup {setup[built']} |->
                          IF name = setup[built'] THEN built' ELSE registry[name]]
    BY <1>1, RunnersOf DEF Build, TypeInv
  <2>2. ASSUME NEW j \in 1..(built + 1)
        PROVE  setup[j] \in DOMAIN registry' /\ j <= registry'[setup[j]]
    <3>1. CASE setup[j] = setup[built + 1]
      BY <2>1, <3>1
    <3>2. CASE setup[j] # setup[built + 1]
      <4>1. j \in 1..built
        BY <2>1, <3>2
      <4> QED BY <2>1, <3>2, <4>1 DEF LastInv
    <3> QED BY <3>1, <3>2
  <2> QED BY <2>1, <2>2 DEF LastInv
<1>2. CASE UNCHANGED world
  BY <1>2 DEF world, LastInv
<1>3. ASSUME NEW i \in 1..Len(setup), Drained(i) PROVE UNCHANGED world
  BY <1>3, DrainedMeans
<1>4. ASSUME NEW i \in 1..Len(setup), Perform(i) PROVE UNCHANGED world
  BY <1>4, PerformCases
<1>5. ASSUME NEW i \in 1..Len(setup),
             SendSeed(i) \/ Take(i) \/ FinalizeEarly(i) \/ Finalize(i)
      PROVE  UNCHANGED world
  BY <1>5 DEF SendSeed, Take, Handled, FinalizeEarly, Finalize, Close
<1>6. CASE StartDraining \/ UNCHANGED vars
  BY <1>2, <1>6 DEF StartDraining, vars
<1> QED BY <1>1, <1>2, <1>3, <1>4, <1>5, <1>6, Steps

\* What a runner sends is read in time.
LEMMA SentTimely ==
  ASSUME TypeInv, RegistryInv, LastInv, AnswersTimely, NEW i \in 1..Len(setup),
         phase = "draining", turn = i, pending # NoAction, rounds \in Nat,
         pending.to \in DOMAIN registry, NEW b, b = registry[pending.to]
  PROVE  Timely(Letter(i), b, Level(b), Home)
<1>1. built = Len(setup) /\ built \in Nat
  BY RunnersOf DEF RegistryInv, TypeInv
<1>2. b \in 1..built /\ setup[b] = pending.to
  BY DEF RegistryInv
<1>3. Letter(i).topic = pending.topic /\ Letter(i).from = setup[i]
  BY DEF Letter
<1>4. rounds <= 1 /\ pending.topic # "Dispatch"
  BY DEF AnswersTimely
<1>5. Level(b) \in {rounds, rounds + 1} /\ (~(b < i) => Level(b) = rounds)
  BY <1>1, <1>2 DEF Level
<1>6. ASSUME pending.topic = "RequestSession"
      PROVE  Level(b) = 0 \/ (Level(b) = 1 /\ Letter(i).from = "vehicle" /\ b < Home)
  <2>1. rounds = 0 /\ setup[i] = "vehicle"
    BY <1>6 DEF AnswersTimely
  <2>2. i <= Home /\ Home \in 1..built
    BY <1>1, <2>1 DEF LastInv, RegistryInv, Home
  <2>3. CASE b < i
    BY <1>1, <1>2, <1>3, <1>5, <2>1, <2>2, <2>3
  <2>4. CASE ~(b < i)
    BY <1>5, <2>1, <2>4
  <2> QED BY <2>3, <2>4
<1>7. ASSUME pending.topic \in {"GrantSession", "DenySession"} PROVE Level(b) <= 1
  <2>1. CASE rounds = 0
    BY <1>5, <2>1
  <2>2. CASE rounds # 0
    <3>1. pending.to = "vehicle" /\ i < Home
      BY <1>7, <2>2 DEF AnswersTimely
    <3>2. ~(b < i)
      BY <1>1, <1>2, <3>1 DEF Home
    <3> QED BY <1>4, <1>5, <3>2
  <2> QED BY <2>1, <2>2
<1>8. Level(b) <= 2
  BY <1>4, <1>5
<1> QED BY <1>3, <1>4, <1>6, <1>7, <1>8 DEF Timely

\* An agent that is asked in time answers in time.
LEMMA AnsweredTimely ==
  ASSUME TypeInv, NEW i \in 1..Len(setup), NEW m \in Letters, Handles(setup[i], m.topic),
         NEW action, action = React(setup[i], start, m.from, m.topic), action # NoAction,
         rounds \in Nat, turn = i, Timely(m, i, rounds, Home)
  PROVE  /\ rounds <= 1
         /\ action.topic # "Dispatch"
         /\ action.topic = "RequestSession" =>
              rounds = 0 /\ setup[turn] = "vehicle" /\ action.to = "depot"
         /\ action.topic \in {"GrantSession", "DenySession"} =>
              rounds = 0 \/ (action.to = "vehicle" /\ turn < Home)
<1>1. /\ setup[i] \in Members /\ m.topic \in Topics
      /\ DemoHandles(setup[i], m.topic)
      /\ action = DemoReact(setup[i], start, m.from, m.topic)
  BY Demo
<1>2. m.topic \notin Outcomes
  BY Reaction
<1>3. CASE setup[i] = "vehicle"
  <2>1. m.topic \in {"Dispatch", "GrantSession", "DenySession"}
    BY <1>1, <1>3 DEF DemoHandles
  <2>2. CASE m.topic = "Dispatch"
    <3>1. rounds = 0
      BY <2>2 DEF Timely
    <3>2. action = To(m.from, "Acknowledge") \/ action = To("depot", "RequestSession")
      BY <1>1, <2>2 DEF DemoReact, OnGrant, Terminate, OnDispatch
    <3> QED BY <1>3, <3>1, <3>2 DEF To
  <2>3. CASE m.topic = "GrantSession"
    BY <1>1, <2>3 DEF DemoReact, OnGrant, Terminate, To, Timely
  <2>4. CASE m.topic = "DenySession"
    BY <1>1, <2>4 DEF DemoReact, OnGrant, Terminate, OnDeny, To, Timely
  <2> QED BY <2>1, <2>2, <2>3, <2>4
<1>4. CASE setup[i] = "depot"
  <2>1. m.topic = "RequestSession"
    BY <1>1, <1>4 DEF DemoHandles
  <2>2. action = To(m.from, "GrantSession") \/ action = To(m.from, "DenySession")
    BY <1>1, <2>1 DEF DemoReact, OnGrant, Terminate, OnRequestSession
  <2>3. rounds = 0 \/ (rounds = 1 /\ m.from = "vehicle" /\ i < Home)
    BY <2>1 DEF Timely
  <2> QED BY <2>2, <2>3 DEF To
<1>5. setup[i] # "tms"
  BY <1>1, <1>2 DEF DemoHandles
<1> QED BY <1>1, <1>3, <1>4, <1>5 DEF Members

LEMMA RoundInit == Init => RoundInv /\ LastInv
<1>1. ASSUME Init PROVE RoundInv
  <2>1. rounds = 0 /\ phase = "building" /\ pending = NoAction /\ moved = 0
    BY <1>1 DEF Init
  <2>2. \A i \in Runners : mailbox[i] = <<>>
    BY <1>1 DEF Init
  <2>3. DOMAIN <<>> = {}
    OBVIOUS
  <2>4. BoxesTimely
    BY <2>2, <2>3 DEF BoxesTimely, AllTimely
  <2> QED BY <2>1, <2>4 DEF RoundInv, AnswersTimely
<1>2. ASSUME Init PROVE LastInv
  <2>1. 1..0 = {}
    OBVIOUS
  <2> QED BY <1>2, <2>1 DEF Init, LastInv
<1> QED BY <1>1, <1>2

\* A message more in a mailbox, in time, leaves all others as they are.
LEMMA PutTimely ==
  ASSUME TypeInv, BoxesTimely, NEW b \in Runners, NEW m \in Letters,
         Timely(m, b, Level(b), Home), Put(b, m), UNCHANGED <<registry, turn, rounds>>
  PROVE  BoxesTimely'
<1>1. mailbox' = [mailbox EXCEPT ![b] = Append(@, m)] /\ mailbox \in [Runners -> Seq(Letters)]
  BY DEF Put, TypeInv
<1>2. Home' = Home /\ \A j : Level(j)' = Level(j)
  BY DEF Home, Level
<1>3. ASSUME NEW j \in Runners PROVE AllTimely(mailbox'[j], j, Level(j), Home)
  <2>1. mailbox[j] \in Seq(Letters) /\ AllTimely(mailbox[j], j, Level(j), Home)
    BY <1>1 DEF BoxesTimely
  <2>2. CASE j = b
    <3>1. AllTimely(Append(mailbox[j], m), j, Level(j), Home)
      BY <2>1, <2>2, TimelyBoxes
    <3> QED BY <1>1, <2>2, <3>1
  <2>3. CASE j # b
    BY <1>1, <2>1, <2>3
  <2> QED BY <2>2, <2>3
<1> QED BY <1>2, <1>3 DEF BoxesTimely

\* In the driver's next turn the runner drained has nothing to read.
LEMMA DrainedTimely ==
  ASSUME TypeInv, QueueInv, QuietInv, BoxesTimely, rounds \in Nat,
         NEW i \in 1..Len(setup), Drained(i)
  PROVE  BoxesTimely'
<1>1. /\ turn = i /\ mailbox[i] = <<>> /\ UNCHANGED <<registry, mailbox>>
      /\ turn' = IF i < Len(setup) THEN turn + 1 ELSE 1
  BY DrainedMeans DEF At, world
<1>2. rounds' = IF i < Len(setup) THEN rounds ELSE rounds + 1
  BY DEF Drained
<1>3. Len(setup) \in Nat /\ i \in Nat
  BY RunnersOf DEF TypeInv
<1>4. ASSUME NEW j \in Runners PROVE AllTimely(mailbox[j], j, Level(j)', Home)
  <2>1. CASE mailbox[j] = <<>>
    <3>1. DOMAIN <<>> = {}
      OBVIOUS
    <3> QED BY <2>1, <3>1 DEF AllTimely
  <2>2. CASE mailbox[j] # <<>>
    <3>1. j \in 1..Len(setup)
      BY <2>2, OpenRunners DEF QueueInv
    <3>2. j # i /\ j \in Nat /\ j >= 1 /\ j <= Len(setup)
      BY <1>1, <1>3, <2>2, <3>1
    <3>3. Level(j)' = Level(j)
      <4>1. CASE i < Len(setup)
        <5>1. turn' = i + 1 /\ rounds' = rounds
          BY <1>1, <1>2, <4>1
        <5> QED BY <1>1, <1>3, <3>2, <5>1 DEF Level
      <4>2. CASE ~(i < Len(setup))
        <5>1. turn' = 1 /\ rounds' = rounds + 1 /\ j < i
          BY <1>1, <1>2, <1>3, <3>2, <4>2
        <5> QED BY <1>1, <3>2, <5>1 DEF Level
      <4> QED BY <4>1, <4>2
    <3> QED BY <3>3 DEF BoxesTimely
  <2> QED BY <2>1, <2>2
<1>5. Home' = Home
  BY <1>1 DEF Home
<1> QED BY <1>1, <1>4, <1>5 DEF BoxesTimely

LEMMA RoundStep ==
  RouterInv /\ PendingInv /\ RegistryInv /\ LastInv /\ RoundInv /\ [Next]_vars => RoundInv'
<1> SUFFICES ASSUME RouterInv, PendingInv, RegistryInv, LastInv, RoundInv, [Next]_vars
             PROVE  RoundInv'
  OBVIOUS
<1>0. /\ TypeInv /\ QueueInv /\ QuietInv /\ turn \in 1..Len(setup) /\ rounds \in 0..4
      /\ Len(setup) \in Nat /\ 1..Len(setup) \subseteq Runners
  BY RunnersOf DEF RouterInv, QuietInv, TypeInv, RoundInv
<1>1. CASE UNCHANGED vars
  <2>1. UNCHANGED <<setup, registry, mailbox, pending, turn, moved, rounds, phase>>
    BY <1>1 DEF vars, world, progress
  <2> QED BY <2>1 DEF RoundInv, AnswersTimely, BoxesTimely, Level, Home
\* Before the draining every message is on time.
<1>2. ASSUME phase = "building", phase' \in {"building", "draining"},
             UNCHANGED <<pending, turn, moved, rounds>>
      PROVE  RoundInv'
  <2>2. rounds = 0 /\ turn = 1 /\ pending = NoAction
    BY <1>0, <1>2 DEF RoundInv, QuietInv, PendingInv
  <2>3. ASSUME NEW j \in Runners PROVE Level(j)' = 0
    BY <1>2, <2>2, <2>3, RunnersPositive DEF Level
  <2>4. \A box, j, home : AllTimely(box, j, 0, home)
    BY DEF AllTimely, Timely
  <2>5. BoxesTimely'
    BY <2>3, <2>4 DEF BoxesTimely
  <2>6. AnswersTimely'
    BY <1>2, <2>2 DEF AnswersTimely
  <2> QED BY <1>2, <2>2, <2>5, <2>6 DEF RoundInv
<1>3. CASE Build
  BY <1>2, <1>3 DEF Build, progress
<1>4. CASE StartDraining
  BY <1>2, <1>4 DEF StartDraining
<1>5. ASSUME NEW i \in 1..Len(setup), SendSeed(i) PROVE RoundInv'
  BY <1>2, <1>5 DEF SendSeed, progress
<1>6. ASSUME NEW i \in 1..Len(setup), Take(i) PROVE RoundInv'
  <2> DEFINE m == Head(mailbox[i])
  <2>1. /\ phase = "draining" /\ turn = i /\ mailbox[i] # <<>> /\ i \in Runners
        /\ mailbox[i] \in Seq(Letters) /\ BoxesTimely
    BY <1>0, <1>6 DEF Take, At, TypeInv, RoundInv
  <2>2. /\ Handles(setup[i], m.topic)
             => phase' = phase /\ pending' = React(setup[i], start, m.from, m.topic)
        /\ ~Handles(setup[i], m.topic) => phase' = "panicked" /\ pending' = NoAction
        /\ mailbox' = [mailbox EXCEPT ![i] = Tail(@)]
        /\ moved' = moved + 1 /\ UNCHANGED <<setup, registry, turn, rounds>>
    BY <1>6 DEF Take, Handled, world
  <2>3. m \in Letters /\ Level(i) = rounds
    BY <1>0, <2>1, HeadTailProperties DEF Level
  <2>4. Timely(m, i, rounds, Home) /\ AllTimely(Tail(mailbox[i]), i, Level(i), Home)
    BY <2>1, <2>3, TimelyBoxes DEF BoxesTimely
  <2> HIDE DEF m
  <2>5. rounds <= 2
    BY <2>4 DEF Timely
  <2>6. BoxesTimely'
    <3>1. Home' = Home /\ \A j : Level(j)' = Level(j)
      BY <2>2 DEF Home, Level
    <3>2. \A j \in Runners : mailbox'[j] = IF j = i THEN Tail(mailbox[i]) ELSE mailbox[j]
      BY <1>0, <2>2 DEF TypeInv
    <3> QED BY <2>1, <2>4, <3>1, <3>2 DEF BoxesTimely
  <2>7. CASE Handles(setup[i], m.topic)
    <3>1. AnswersTimely'
      <4>1. CASE pending' = NoAction
        BY <4>1 DEF AnswersTimely
      <4>2. CASE pending' # NoAction
        <5>1. /\ rounds <= 1
              /\ pending'.topic # "Dispatch"
              /\ pending'.topic = "RequestSession" =>
                   rounds = 0 /\ setup[turn] = "vehicle" /\ pending'.to = "depot"
              /\ pending'.topic \in {"GrantSession", "DenySession"} =>
                   rounds = 0 \/ (pending'.to = "vehicle" /\ turn < Home)
          BY <1>0, <2>1, <2>2, <2>3, <2>4, <2>7, <4>2, AnsweredTimely
        <5> QED BY <2>2, <5>1 DEF AnswersTimely, Home
      <4> QED BY <4>1, <4>2
    <3> QED BY <1>0, <2>1, <2>2, <2>5, <2>6, <2>7, <3>1 DEF RoundInv
  <2>8. CASE ~Handles(setup[i], m.topic)
    BY <1>0, <2>2, <2>8 DEF RoundInv
  <2> QED BY <2>7, <2>8
<1>7. ASSUME NEW i \in 1..Len(setup), Perform(i) PROVE RoundInv'
  <2>1. /\ phase = "draining" /\ turn = i /\ pending # NoAction /\ pending' = NoAction
        /\ UNCHANGED <<setup, registry, turn, moved, rounds, phase>>
        /\ AnswersTimely /\ BoxesTimely
    BY <1>0, <1>7, PerformCases DEF At, world, progress, RoundInv
  <2>2. BoxesTimely'
    <3>1. CASE UNCHANGED mailbox
      BY <2>1, <3>1 DEF BoxesTimely, Level, Home
    <3>2. CASE ~UNCHANGED mailbox
      <4>1. /\ pending.to \in DOMAIN registry /\ registry[pending.to] \in open
            /\ Put(registry[pending.to], Letter(i))
        BY <1>7, <3>2 DEF Perform, Execute
      <4>2. Letter(i) \in Letters
        BY <1>0, <2>1, LetterType
      <4>3. Timely(Letter(i), registry[pending.to], Level(registry[pending.to]), Home)
        BY <1>0, <2>1, <4>1, SentTimely
      <4>4. registry[pending.to] \in Runners
        BY <1>0, <4>1, OpenRunners
      <4> QED BY <1>0, <2>1, <4>1, <4>2, <4>3, <4>4, PutTimely
    <3> QED BY <3>1, <3>2
  <2>3. AnswersTimely'
    BY <2>1 DEF AnswersTimely
  <2> QED BY <2>1, <2>2, <2>3 DEF RoundInv
<1>8. ASSUME NEW i \in 1..Len(setup), Drained(i) PROVE RoundInv'
  <2>1. /\ phase = "draining" /\ pending' = NoAction /\ BoxesTimely
        /\ rounds <= 3 /\ (moved > 0 => rounds <= 2) /\ moved \in Nat
        /\ moved' = IF i < Len(setup) THEN moved ELSE 0
    BY <1>0, <1>8, DrainedMeans DEF At, RoundInv, TypeInv
  <2>2. BoxesTimely'
    BY <1>0, <1>8, <2>1, DrainedTimely
  <2>3. AnswersTimely'
    BY <2>1 DEF AnswersTimely
  <2>4. rounds' = IF i < Len(setup) THEN rounds ELSE rounds + 1
    BY <1>8, Zenon DEF Drained
  <2>5. phase' = CASE i < Len(setup) -> phase
                   [] i = Len(setup) /\ moved = 0 -> "settled"
                   [] OTHER -> IF rounds' = MaxRounds THEN "gave up" ELSE phase
    BY <1>8, Zenon DEF Drained
  <2>6. CASE i < Len(setup)
    <3>1. phase' = phase
      BY <1>0, <1>8, <2>6, DrainedMeans
    <3> QED BY <1>0, <2>1, <2>2, <2>3, <2>4, <2>6, <3>1 DEF RoundInv
  <2>7. CASE ~(i < Len(setup)) /\ i = Len(setup) /\ moved = 0
    <3>1. phase' = "settled"
      BY <2>5, <2>7, Zenon
    <3> QED BY <1>0, <2>1, <2>4, <2>7, <3>1 DEF RoundInv
  <2>8. CASE ~(i < Len(setup)) /\ moved # 0
    <3>1. phase' = IF rounds' = MaxRounds THEN "gave up" ELSE phase
      BY <2>8, <2>5, Zenon
    <3>2. rounds' \in 0..3 /\ moved' = 0
      BY <1>0, <2>1, <2>4, <2>8
    <3>3. CASE rounds' = MaxRounds
      <4>1. phase' = "gave up"
        BY <3>1, <3>3, Zenon
      <4>2. MaxRounds \in 0..3
        BY <3>2, <3>3, Zenon
      <4>3. MaxRounds <= 3
        BY <4>2
      <4>4. rounds' \in 0..4
        BY <3>2
      <4>5. phase' \notin {"building", "draining"} /\ phase' # "building"
        BY <4>1
      <4> QED BY <4>3, <4>4, <4>5, Zenon DEF RoundInv
    <3>4. CASE rounds' # MaxRounds
      BY <2>1, <2>2, <2>3, <3>1, <3>2, <3>4 DEF RoundInv
    <3> QED BY <3>3, <3>4
  <2>9. i = Len(setup) \/ i < Len(setup)
    BY <1>0
  <2> QED BY <2>6, <2>7, <2>8, <2>9
<1>9. ASSUME NEW i \in 1..Len(setup), Close(i) PROVE RoundInv'
  <2>1. mailbox' = [mailbox EXCEPT ![i] = <<>>]
        /\ UNCHANGED <<setup, registry, pending, turn, moved, rounds, phase>>
    BY <1>9 DEF Close, world, progress
  <2>2. BoxesTimely => BoxesTimely'
    <3>1. Home' = Home /\ \A j : Level(j)' = Level(j)
      BY <2>1 DEF Home, Level
    <3>2. \A j \in Runners : mailbox'[j] = IF j = i THEN <<>> ELSE mailbox[j]
      BY <1>0, <2>1 DEF TypeInv
    <3>3. DOMAIN <<>> = {}
      OBVIOUS
    <3> QED BY <3>1, <3>2, <3>3 DEF BoxesTimely, AllTimely
  <2>3. AnswersTimely => AnswersTimely'
    BY <2>1 DEF AnswersTimely, Home
  <2> QED BY <2>1, <2>2, <2>3 DEF RoundInv
<1> QED
  BY <1>0, <1>1, <1>3, <1>4, <1>5, <1>6, <1>7, <1>8, <1>9, Steps DEF FinalizeEarly, Finalize

\* However many dispatches there are and in whatever order the agents are
\* built, the driver gets its silent round within four, long before the twenty
\* after which it reports that they did not settle (multi_depot.rs:135-157).
THEOREM RoundsFewHolds == FairSpec => []RoundsFew
<1>1. Init => RoundInv /\ LastInv
  BY RoundInit
<1>2. DemoInv /\ RoundInv /\ LastInv /\ [Next]_vars => RoundInv' /\ LastInv'
  BY RoundStep, LastStep DEF DemoInv, RouterInv, SmallInv
<1>3. RoundInv => RoundsFew
  <2>1. MaxRounds \in Nat
    BY RouterAssumption
  <2>2. RoundInv => rounds \in 0..4 /\ (phase = "gave up" => MaxRounds <= 3)
    BY Zenon DEF RoundInv
  <2>3. MaxRounds > 3 => ~(MaxRounds <= 3)
    BY <2>1
  <2>4. rounds \in 0..4 => rounds <= 4
    OBVIOUS
  <2> QED BY <2>2, <2>3, <2>4, Zenon DEF RoundsFew
<1> QED BY <1>1, <1>2, <1>3, DemoInvHolds, PTL DEF FairSpec

-----------------------------------------------------------------------------
(* How many messages a dispatch becomes.  Each message belongs to a         *)
(* generation; a handler answers one of a generation with at most one of    *)
(* the next, and the fourth has no next.                                   *)

Generation(topic) ==
  CASE topic = "Dispatch" -> 1
    [] topic \in {"RequestSession", "Acknowledge"} -> 2
    [] topic \in {"GrantSession", "DenySession"} -> 3
    [] OTHER -> 4

Born(seq, g) == {k \in DOMAIN seq : Generation(seq[k].topic) = g}

\* How many letters of a generation the histories of runners D have.
Tally(D, history, g) == Cardinality(Pairs(D, [i \in D |-> Born(history[i], g)]))
Accepted(g) == Tally(DOMAIN setup, accepted, g)
Read(g) == Tally(DOMAIN setup, received, g)
Unsent(g) == IF pending # NoAction /\ Generation(pending.topic) = g THEN 1 ELSE 0

\* What is read is a beginning of what was accepted, also when the rest is gone.
PrefixInv ==
  \A i \in Runners :
    /\ Len(received[i]) <= Len(accepted[i])
    /\ \A k \in 1..Len(received[i]) : received[i][k] = accepted[i][k]

ChainInv ==
  /\ Accepted(1) <= seeds /\ Unsent(1) = 0
  /\ \A g \in 1..3 : Accepted(g + 1) + Unsent(g + 1) <= Read(g)

Reads == Total([i \in DOMAIN setup |-> DOMAIN received[i]])

\* A dispatch becomes four messages at most, whoever is there and whatever gates
\* and lost sends do to them: so each drain comes to its end, and with RoundsFew
\* all of them together do (multi_depot.rs:135-157, multi_depot_vehicle.lex:13-55,
\* multi_depot_depot.lex:11-31).
ReadFew == Reads <= 4 * seeds

LEMMA BornAppend ==
  ASSUME NEW seq \in Seq(Letters), NEW m \in Letters, NEW g
  PROVE  /\ Len(seq) + 1 \notin Born(seq, g)
         /\ Generation(m.topic) = g =>
              Born(Append(seq, m), g) = Born(seq, g) \cup {Len(seq) + 1}
         /\ Generation(m.topic) # g => Born(Append(seq, m), g) = Born(seq, g)
<1> DEFINE longer == Append(seq, m)
           last == Len(seq) + 1
<1>1. /\ DOMAIN seq = 1..Len(seq) /\ Len(seq) \in Nat
      /\ DOMAIN longer = 1..last /\ longer[last] = m
      /\ \A k \in 1..Len(seq) : longer[k] = seq[k]
  BY AppendProperties, LenProperties
<1>2. /\ DOMAIN longer = DOMAIN seq \cup {last} /\ last \notin DOMAIN seq
      /\ \A k \in DOMAIN seq : longer[k] = seq[k]
  BY <1>1
<1> HIDE DEF longer, last
<1>3. /\ last \notin Born(seq, g)
      /\ Generation(m.topic) = g => Born(longer, g) = Born(seq, g) \cup {last}
      /\ Generation(m.topic) # g => Born(longer, g) = Born(seq, g)
  BY <1>1, <1>2 DEF Born
<1> QED BY <1>3 DEF longer, last

LEMMA BornFinite ==
  ASSUME NEW seq \in Seq(Letters), NEW g
  PROVE  IsFiniteSet(Born(seq, g))
<1>1. Born(seq, g) \in SUBSET DOMAIN seq
  BY DEF Born
<1> QED BY <1>1, PlacesFinite, FS_Subset

LEMMA TallyType ==
  ASSUME NEW D, IsFiniteSet(D), NEW h, \A i \in D : h[i] \in Seq(Letters), NEW g
  PROVE  /\ Tally(D, h, g) \in Nat
         /\ IsFiniteSet(Pairs(D, [i \in D |-> Born(h[i], g)]))
<1> DEFINE f == [i \in D |-> Born(h[i], g)]
<1>1. \A i \in D : IsFiniteSet(f[i])
  BY BornFinite
<1> HIDE DEF f
<1>2. IsFiniteSet(Pairs(D, f)) /\ Cardinality(Pairs(D, f)) \in Nat
  BY <1>1, PairsFinite
<1> QED BY <1>2 DEF f, Tally

LEMMA TallySame ==
  ASSUME NEW D, NEW h, NEW j, \A i \in D : j[i] = h[i], NEW g
  PROVE  Tally(D, j, g) = Tally(D, h, g)
<1>1. [i \in D |-> Born(j[i], g)] = [i \in D |-> Born(h[i], g)]
  OBVIOUS
<1> QED BY <1>1 DEF Tally

History(D, h) == IsFiniteSet(D) /\ \A i \in D : h[i] \in Seq(Letters)
Adds(D, h, j, b, m) == j[b] = Append(h[b], m) /\ \A i \in D : i # b => j[i] = h[i]

\* A letter more with one runner counts for its generation alone.
LEMMA TallyAppend ==
  ASSUME NEW D, NEW h, NEW j, NEW b \in D, NEW m \in Letters,
         History(D, h), Adds(D, h, j, b, m), NEW g
  PROVE  /\ Generation(m.topic) = g => Tally(D, j, g) = Tally(D, h, g) + 1
         /\ Generation(m.topic) # g => Tally(D, j, g) = Tally(D, h, g)
<1> DEFINE e == [i \in D |-> Born(h[i], g)]
           f == [i \in D |-> Born(j[i], g)]
           k == Len(h[b]) + 1
<1>0. /\ IsFiniteSet(D) /\ \A i \in D : h[i] \in Seq(Letters)
      /\ j[b] = Append(h[b], m) /\ \A i \in D : i # b => j[i] = h[i]
  BY DEF History, Adds
<1>1. /\ k \notin e[b]
      /\ Generation(m.topic) = g => f[b] = e[b] \cup {k}
      /\ Generation(m.topic) # g => f[b] = e[b]
  <2>1. e[b] = Born(h[b], g) /\ f[b] = Born(Append(h[b], m), g) /\ h[b] \in Seq(Letters)
    BY <1>0
  <2>2. PICK seq \in Seq(Letters) : seq = h[b]
    BY <2>1
  <2>3. /\ Len(seq) + 1 \notin Born(seq, g)
        /\ Generation(m.topic) = g => Born(Append(seq, m), g) = Born(seq, g) \cup {Len(seq) + 1}
        /\ Generation(m.topic) # g => Born(Append(seq, m), g) = Born(seq, g)
    BY BornAppend
  <2>4. k = Len(seq) + 1
    BY <2>2
  <2> HIDE DEF e, f, k
  <2> QED BY <2>1, <2>2, <2>3, <2>4
<1>2. \A i \in D \ {b} : f[i] = e[i]
  BY <1>0
<1>3. IsFiniteSet(Pairs(D, e))
  BY <1>0, TallyType
<1>4. Tally(D, h, g) = Cardinality(Pairs(D, e)) /\ Tally(D, j, g) = Cardinality(Pairs(D, f))
  BY DEF Tally
<1> HIDE DEF e, f, k
<1>5. CASE Generation(m.topic) = g
  <2>1. f[b] = e[b] \cup {k} /\ k \notin e[b]
    BY <1>1, <1>5
  <2>2. Cardinality(Pairs(D, f)) = Cardinality(Pairs(D, e)) + 1
    BY <1>2, <1>3, <2>1, PairsGrow
  <2> QED BY <1>4, <1>5, <2>2
<1>6. CASE Generation(m.topic) # g
  <2>1. \A i \in D : f[i] = e[i]
    BY <1>1, <1>2, <1>6
  <2> QED BY <1>4, <1>6, <2>1, PairsSame
<1> QED BY <1>5, <1>6

\* The beginning of a history has no more than all of it.
LEMMA TallyPrefix ==
  ASSUME NEW D, IsFiniteSet(D), NEW h, NEW j, NEW g,
         \A i \in D : /\ h[i] \in Seq(Letters) /\ j[i] \in Seq(Letters)
                      /\ Len(h[i]) <= Len(j[i])
                      /\ \A k \in 1..Len(h[i]) : h[i][k] = j[i][k]
  PROVE  Tally(D, h, g) <= Tally(D, j, g)
<1> DEFINE e == [i \in D |-> Born(h[i], g)]
           f == [i \in D |-> Born(j[i], g)]
<1>1. ASSUME NEW i \in D PROVE e[i] \subseteq f[i]
  <2>1. /\ DOMAIN h[i] = 1..Len(h[i]) /\ DOMAIN j[i] = 1..Len(j[i])
        /\ Len(h[i]) \in Nat /\ Len(j[i]) \in Nat
    BY LenProperties
  <2>2. DOMAIN h[i] \subseteq DOMAIN j[i] /\ \A k \in DOMAIN h[i] : h[i][k] = j[i][k]
    BY <2>1
  <2> QED BY <2>2 DEF Born
<1>2. IsFiniteSet(Pairs(D, f))
  BY TallyType
<1> HIDE DEF e, f
<1>3. ASSUME NEW p \in Pairs(D, e) PROVE p \in Pairs(D, f)
  <2>1. PICK i \in D : \E k \in e[i] : p = <<i, k>>
    BY PairsMember
  <2> QED BY <1>1, <2>1, PairsMember
<1>4. Pairs(D, e) \in SUBSET Pairs(D, f)
  BY <1>3
<1>5. Cardinality(Pairs(D, e)) <= Cardinality(Pairs(D, f))
  BY <1>2, <1>4, FS_Subset
<1> QED BY <1>5 DEF Tally, e, f

LEMMA GenerationType == \A topic : Generation(topic) \in 1..4
<1>1. ASSUME NEW topic PROVE Generation(topic) \in 1..4
  <2>1. CASE topic = "Dispatch"
    BY <2>1 DEF Generation
  <2>2. CASE topic \in {"RequestSession", "Acknowledge"}
    BY <2>2 DEF Generation
  <2>3. CASE topic \in {"GrantSession", "DenySession"}
    BY <2>3 DEF Generation
  <2>4. CASE topic \notin {"Dispatch", "RequestSession", "Acknowledge", "GrantSession", "DenySession"}
    BY <2>4 DEF Generation
  <2> QED BY <2>1, <2>2, <2>3, <2>4
<1> QED BY <1>1

\* An answer belongs to the next generation.
LEMMA NextGeneration ==
  ASSUME TypeInv, NEW i \in 1..Len(setup), NEW m \in Letters, Handles(setup[i], m.topic),
         NEW action, action = React(setup[i], start, m.from, m.topic), action # NoAction
  PROVE  Generation(action.topic) = Generation(m.topic) + 1
<1>1. /\ setup[i] \in Members /\ DemoHandles(setup[i], m.topic)
      /\ action = DemoReact(setup[i], start, m.from, m.topic)
  BY Demo
<1>2. m.topic \notin Outcomes
  BY Reaction
<1>3. m.topic \in {"Dispatch", "RequestSession", "GrantSession", "DenySession"}
  BY <1>1, <1>2 DEF DemoHandles, Members
<1>4. /\ Generation("Dispatch") = 1
      /\ Generation("RequestSession") = 2 /\ Generation("Acknowledge") = 2
      /\ Generation("GrantSession") = 3 /\ Generation("DenySession") = 3
      /\ Generation("Complete") = 4 /\ Generation("Failed") = 4
  BY DEF Generation
<1>5. CASE m.topic = "Dispatch"
  <2>1. action = To(m.from, "Acknowledge") \/ action = To("depot", "RequestSession")
    BY <1>1, <1>5 DEF DemoReact, OnGrant, Terminate, OnDispatch
  <2>2. action.topic \in {"Acknowledge", "RequestSession"}
    BY <2>1 DEF To
  <2> QED BY <1>4, <1>5, <2>2
<1>6. CASE m.topic = "RequestSession"
  <2>1. action = To(m.from, "GrantSession") \/ action = To(m.from, "DenySession")
    BY <1>1, <1>6 DEF DemoReact, OnGrant, Terminate, OnRequestSession
  <2>2. action.topic \in {"GrantSession", "DenySession"}
    BY <2>1 DEF To
  <2> QED BY <1>4, <1>6, <2>2
<1>7. CASE m.topic \in {"GrantSession", "DenySession"}
  <2>1. action = To("tms", "Complete") \/ action = To("tms", "Failed")
    BY <1>1, <1>7 DEF DemoReact, OnGrant, Terminate, OnDeny
  <2>2. action.topic \in {"Complete", "Failed"}
    BY <2>1 DEF To
  <2> QED BY <1>4, <1>7, <2>2
<1> QED BY <1>3, <1>5, <1>6, <1>7

LEMMA Runs ==
  ASSUME TypeInv
  PROVE  /\ DOMAIN setup = 1..Len(setup) /\ IsFiniteSet(DOMAIN setup)
         /\ \A i \in DOMAIN setup :
              i \in Runners /\ accepted[i] \in Seq(Letters) /\ received[i] \in Seq(Letters)
BY Places DEF TypeInv

LEMMA HistoryTypes ==
  ASSUME TypeInv, NEW g
  PROVE  Accepted(g) \in Nat /\ Read(g) \in Nat
<1>1. IsFiniteSet(DOMAIN setup)
  BY Runs
<1>2. \A i \in DOMAIN setup : accepted[i] \in Seq(Letters)
  BY Runs
<1>3. \A i \in DOMAIN setup : received[i] \in Seq(Letters)
  BY Runs
<1> QED BY <1>1, <1>2, <1>3, TallyType DEF Accepted, Read

LEMMA HistoriesKept ==
  ASSUME NEW g, setup' = setup
  PROVE  /\ accepted' = accepted => Accepted(g)' = Accepted(g)
         /\ received' = received => Read(g)' = Read(g)
BY DEF Accepted, Read, Tally

LEMMA PutAccepted ==
  ASSUME TypeInv, NEW b \in 1..Len(setup), NEW m \in Letters, Put(b, m), setup' = setup,
         NEW g
  PROVE  /\ Read(g)' = Read(g)
         /\ Generation(m.topic) = g => Accepted(g)' = Accepted(g) + 1
         /\ Generation(m.topic) # g => Accepted(g)' = Accepted(g)
<1> DEFINE D == DOMAIN setup
<1>1. IsFiniteSet(D) /\ b \in D /\ \A i \in D : i \in Runners /\ accepted[i] \in Seq(Letters)
  BY Runs
<1>2. accepted' = [accepted EXCEPT ![b] = Append(accepted[b], m)] /\ received' = received
  BY DEF Put
<1>3. accepted'[b] = Append(accepted[b], m) /\ \A i \in D : i # b => accepted'[i] = accepted[i]
  BY <1>1, <1>2 DEF TypeInv
<1> HIDE DEF D
<1>4. /\ Generation(m.topic) = g => Tally(D, accepted', g) = Tally(D, accepted, g) + 1
      /\ Generation(m.topic) # g => Tally(D, accepted', g) = Tally(D, accepted, g)
  <2>1. History(D, accepted) /\ Adds(D, accepted, accepted', b, m)
    BY <1>1, <1>3 DEF History, Adds
  <2> QED BY <1>1, <2>1, TallyAppend
<1>5. Accepted(g) = Tally(D, accepted, g) /\ Accepted(g)' = Tally(D, accepted', g)
  BY DEF Accepted, D, Tally
<1> QED BY <1>2, <1>4, <1>5, HistoriesKept

LEMMA TakeRead ==
  ASSUME TypeInv, NEW i \in 1..Len(setup), Take(i), NEW g
  PROVE  /\ Accepted(g)' = Accepted(g)
         /\ Generation(Head(mailbox[i]).topic) = g => Read(g)' = Read(g) + 1
         /\ Generation(Head(mailbox[i]).topic) # g => Read(g)' = Read(g)
<1> DEFINE D == DOMAIN setup
           m == Head(mailbox[i])
<1>1. IsFiniteSet(D) /\ i \in D /\ \A j \in D : j \in Runners /\ received[j] \in Seq(Letters)
  BY Runs
<1>2. m \in Letters
  BY Places, HeadTailProperties DEF TypeInv, Take
<1>3. /\ received' = [received EXCEPT ![i] = Append(received[i], m)]
      /\ accepted' = accepted /\ setup' = setup
  BY DEF Take, Handled, world
<1>4. received'[i] = Append(received[i], m) /\ \A j \in D : j # i => received'[j] = received[j]
  BY <1>1, <1>3 DEF TypeInv
<1> HIDE DEF D, m
<1>5. /\ Generation(m.topic) = g => Tally(D, received', g) = Tally(D, received, g) + 1
      /\ Generation(m.topic) # g => Tally(D, received', g) = Tally(D, received, g)
  <2>1. History(D, received) /\ Adds(D, received, received', i, m)
    BY <1>1, <1>4 DEF History, Adds
  <2> QED BY <1>1, <1>2, <2>1, TallyAppend
<1>6. Read(g) = Tally(D, received, g) /\ Read(g)' = Tally(D, received', g)
  BY <1>3 DEF Read, D, Tally
<1> QED BY <1>3, <1>5, <1>6, HistoriesKept DEF m

LEMMA PrefixStep == TypeInv /\ QueueInv /\ PrefixInv /\ [Next]_vars => PrefixInv'
<1> SUFFICES ASSUME TypeInv, QueueInv, PrefixInv, [Next]_vars PROVE PrefixInv'
  OBVIOUS
<1>1. ASSUME UNCHANGED <<accepted, received>> PROVE PrefixInv'
  BY <1>1 DEF PrefixInv
<1>2. ASSUME NEW b \in Runners, NEW m \in Letters, Put(b, m) PROVE PrefixInv'
  <2>1. accepted' = [accepted EXCEPT ![b] = Append(accepted[b], m)] /\ received' = received
    BY <1>2 DEF Put
  <2>2. ASSUME NEW i \in Runners
        PROVE  /\ Len(received[i]) <= Len(accepted'[i])
               /\ \A k \in 1..Len(received[i]) : received[i][k] = accepted'[i][k]
    <3>1. CASE i # b
      BY <2>1, <3>1 DEF PrefixInv, TypeInv
    <3>2. CASE i = b
      <4> DEFINE all == accepted[i]
                 longer == Append(all, m)
      <4>1. /\ all \in Seq(Letters) /\ Len(received[i]) \in Nat /\ accepted'[i] = longer
        BY <2>1, <3>2, LenProperties DEF TypeInv
      <4>2. /\ Len(received[i]) <= Len(all)
            /\ \A k \in 1..Len(received[i]) : received[i][k] = all[k]
        BY DEF PrefixInv
      <4> HIDE DEF all
      <4>3. /\ Len(longer) = Len(all) + 1 /\ Len(all) \in Nat
            /\ \A k \in 1..Len(all) : longer[k] = all[k]
        BY <4>1, AppendProperties, LenProperties
      <4> HIDE DEF longer
      <4> QED BY <4>1, <4>2, <4>3
    <3> QED BY <3>1, <3>2
  <2> QED BY <2>1, <2>2 DEF PrefixInv
<1>3. ASSUME NEW i \in 1..Len(setup), Take(i) PROVE PrefixInv'
  <2> DEFINE m == Head(mailbox[i])
             done == received[i]
             longer == Append(done, m)
             all == accepted[i]
  <2>1. /\ i \in Runners /\ mailbox[i] # <<>> /\ mailbox[i] \in Seq(Letters)
        /\ done \in Seq(Letters) /\ all \in Seq(Letters) /\ m \in Letters
        /\ received' = [received EXCEPT ![i] = longer] /\ accepted' = accepted
    BY <1>3, Places, HeadTailProperties DEF Take, Handled, TypeInv
  <2>2. Len(done) + 1 <= Len(all) /\ m = all[Len(done) + 1]
    <3>1. i \in open
      BY <2>1 DEF QueueInv
    <3>2. Queue(all, done, mailbox[i])
      BY <2>1, <3>1 DEF QueueInv
    <3> HIDE DEF all, done
    <3> QED BY <2>1, <3>2, QueueTake
  <2>3. \A k \in 1..Len(done) : done[k] = all[k]
    BY <2>1 DEF PrefixInv
  <2>4. received'[i] = longer /\ \A j \in Runners : j # i => received'[j] = received[j]
    BY <2>1 DEF TypeInv
  <2> HIDE DEF m, done, all
  <2>5. /\ Len(longer) = Len(done) + 1 /\ longer[Len(done) + 1] = m /\ Len(done) \in Nat
        /\ \A k \in 1..Len(done) : longer[k] = done[k]
    BY <2>1, AppendProperties, LenProperties
  <2> HIDE DEF longer
  <2>6. Len(longer) <= Len(all) /\ \A k \in 1..Len(longer) : longer[k] = all[k]
    BY <2>2, <2>3, <2>5
  <2> QED BY <2>1, <2>4, <2>6 DEF PrefixInv, all
<1>4. ASSUME NEW i \in 1..Len(setup), Perform(i) PROVE PrefixInv'
  <2>1. UNCHANGED histories \/ \E b \in open : Put(b, Letter(i))
    BY <1>4, PerformCases
  <2>2. Letter(i) \in Letters
    BY <1>4, PerformCases, LetterType
  <2> QED BY <1>1, <1>2, <2>1, <2>2, OpenRunners DEF histories
<1>5. ASSUME NEW i \in 1..Len(setup), SendSeed(i) PROVE PrefixInv'
  <2>1. PICK from \in Senders :
          Put(i, [by |-> 0, n |-> seeds + 1, from |-> from, topic |-> Seed.topic])
    BY <1>5 DEF SendSeed
  <2> QED BY <1>2, <2>1, SeedType, Places
<1>6. ASSUME NEW i \in 1..Len(setup), Drained(i) PROVE PrefixInv'
  BY <1>1, <1>6, DrainedMeans DEF histories
<1>7. ASSUME NEW i \in 1..Len(setup), Close(i) PROVE PrefixInv'
  BY <1>1, <1>7 DEF Close, histories
<1>8. CASE Build \/ StartDraining \/ UNCHANGED vars
  BY <1>1, <1>8 DEF Build, StartDraining, vars, histories
<1> QED BY <1>3, <1>4, <1>5, <1>6, <1>7, <1>8, Steps DEF FinalizeEarly, Finalize

LEMMA ReadAccepted ==
  ASSUME TypeInv, PrefixInv, NEW g
  PROVE  Read(g) <= Accepted(g)
<1>1. IsFiniteSet(DOMAIN setup)
  BY Runs
<1>2. \A i \in DOMAIN setup :
        /\ received[i] \in Seq(Letters) /\ accepted[i] \in Seq(Letters)
        /\ Len(received[i]) <= Len(accepted[i])
        /\ \A k \in 1..Len(received[i]) : received[i][k] = accepted[i][k]
  BY Runs DEF PrefixInv
<1> QED BY <1>1, <1>2, TallyPrefix DEF Read, Accepted

LEMMA UnsentType ==
  \A g : /\ Unsent(g) \in {0, 1}
         /\ pending = NoAction => Unsent(g) = 0
         /\ pending # NoAction /\ Generation(pending.topic) = g => Unsent(g) = 1
         /\ pending # NoAction /\ Generation(pending.topic) # g => Unsent(g) = 0
BY DEF Unsent

LEMMA ChainInit == Init => ChainInv /\ PrefixInv
<1> SUFFICES ASSUME Init PROVE ChainInv /\ PrefixInv
  OBVIOUS
<1>1. TypeInv
  BY TypeInit
<1>2. ASSUME NEW g PROVE Accepted(g) = 0 /\ Read(g) = 0 /\ Unsent(g) = 0
  <2>1. /\ \A i \in DOMAIN setup : accepted[i] = <<>> /\ received[i] = <<>>
        /\ pending = NoAction
    BY <1>1, Runs DEF Init
  <2>2. DOMAIN <<>> = {}
    OBVIOUS
  <2>3. Born(<<>>, g) = {}
    BY <2>2 DEF Born
  <2>4. ASSUME NEW f, \A i \in DOMAIN setup : f[i] = {}
        PROVE  Cardinality(Pairs(DOMAIN setup, f)) = 0
    <3>1. Pairs(DOMAIN setup, f) = {}
      BY <2>4, PairsMember
    <3> QED BY <3>1, FS_EmptySet
  <2> QED BY <2>1, <2>3, <2>4 DEF Accepted, Read, Tally, Unsent
<1>3. seeds = 0 /\ \A i \in Runners : received[i] = <<>> /\ accepted[i] = <<>>
  BY DEF Init
<1>4. PrefixInv
  BY <1>3, EmptySeq DEF PrefixInv
<1> QED BY <1>2, <1>3, <1>4 DEF ChainInv

LEMMA ChainStep ==
  TypeInv /\ ChainInv /\ [Next]_vars => ChainInv'
<1> SUFFICES ASSUME TypeInv, ChainInv, [Next]_vars PROVE ChainInv'
  OBVIOUS
<1>0. /\ seeds \in Nat /\ Accepted(1) <= seeds /\ Unsent(1) = 0
      /\ \A g \in 1..3 : Accepted(g + 1) + Unsent(g + 1) <= Read(g)
  BY DEF TypeInv, ChainInv
<1>a. \A g : Accepted(g) \in Nat /\ Read(g) \in Nat /\ Unsent(g) \in {0, 1}
  BY HistoryTypes, UnsentType
<1>1. ASSUME UNCHANGED <<setup, accepted, received, pending, seeds>> PROVE ChainInv'
  <2>1. \A g : Accepted(g)' = Accepted(g) /\ Read(g)' = Read(g)
    BY <1>1, HistoriesKept
  <2>2. \A g : Unsent(g)' = Unsent(g)
    BY <1>1 DEF Unsent
  <2> QED BY <1>1, <2>1, <2>2 DEF ChainInv
<1>2. ASSUME NEW i \in 1..Len(setup), SendSeed(i) PROVE ChainInv'
  <2>1. PICK from \in Senders :
          Put(i, [by |-> 0, n |-> seeds + 1, from |-> from, topic |-> Seed.topic])
    BY <1>2 DEF SendSeed
  <2> DEFINE m == [by |-> 0, n |-> seeds + 1, from |-> from, topic |-> Seed.topic]
  <2>2. seeds' = seeds + 1 /\ setup' = setup /\ pending' = pending
    BY <1>2 DEF SendSeed, world
  <2>3. Generation(m.topic) = 1
    <3>1. Seed.topic = "Dispatch"
      BY Zenon, DemoAssumption
    <3> QED BY <3>1 DEF Generation
  <2>4. m \in Letters
    BY SeedType
  <2> HIDE DEF m
  <2>5. ASSUME NEW g
        PROVE  /\ Read(g)' = Read(g) /\ Unsent(g)' = Unsent(g)
               /\ g = 1 => Accepted(g)' = Accepted(g) + 1
               /\ g # 1 => Accepted(g)' = Accepted(g)
    <3>1. Put(i, m)
      BY <2>1 DEF m
    <3>2. Unsent(g)' = Unsent(g)
      BY <2>2 DEF Unsent
    <3> QED BY <2>2, <2>3, <2>4, <3>1, <3>2, PutAccepted
  <2>6. Accepted(1)' <= seeds' /\ Unsent(1)' = 0
    BY <1>0, <1>a, <2>2, <2>5
  <2>7. ASSUME NEW g \in 1..3 PROVE Accepted(g + 1)' + Unsent(g + 1)' <= Read(g)'
    <3>1. g + 1 # 1
      OBVIOUS
    <3>2. Accepted(g + 1)' = Accepted(g + 1)
      BY <2>5, <3>1
    <3> QED BY <1>0, <2>5, <3>2
  <2> QED BY <2>6, <2>7 DEF ChainInv
<1>3. ASSUME NEW i \in 1..Len(setup), Take(i) PROVE ChainInv'
  <2> DEFINE m == Head(mailbox[i])
             q == Generation(m.topic)
  <2>1. /\ pending = NoAction /\ seeds' = seeds
        /\ Handles(setup[i], m.topic) => pending' = React(setup[i], start, m.from, m.topic)
        /\ ~Handles(setup[i], m.topic) => pending' = NoAction
    BY <1>3 DEF Take, Handled
  <2>2. m \in Letters
    BY <1>3, Places, HeadTailProperties DEF TypeInv, Take
  <2>3. \A g : /\ Accepted(g)' = Accepted(g)
               /\ q = g => Read(g)' = Read(g) + 1
               /\ q # g => Read(g)' = Read(g)
    BY <1>3, TakeRead
  <2>4. q \in 1..4
    BY GenerationType
  <2>5. pending' # NoAction => Generation(pending'.topic) = q + 1
    <3> HIDE DEF m
    <3> QED BY <2>1, <2>2, NextGeneration
  <2> HIDE DEF m, q
  <2>6. \A g : /\ pending' = NoAction => Unsent(g)' = 0
               /\ pending' # NoAction /\ g = q + 1 => Unsent(g)' = 1
               /\ pending' # NoAction /\ g # q + 1 => Unsent(g)' = 0
    BY <2>5 DEF Unsent
  <2>7. Accepted(1)' <= seeds'
    BY <1>0, <2>1, <2>3
  <2>8. Unsent(1)' = 0
    <3>1. 1 # q + 1
      BY <2>4
    <3> QED BY <2>6, <3>1
  <2>9. ASSUME NEW g \in 1..3 PROVE Accepted(g + 1)' + Unsent(g + 1)' <= Read(g)'
    <3>1. Accepted(g + 1) + Unsent(g + 1) <= Read(g)
      BY <1>0
    <3>2. Accepted(g + 1) \in Nat /\ Read(g) \in Nat /\ Unsent(g + 1) \in {0, 1}
      BY <1>a
    <3>3. Accepted(g + 1) <= Read(g)
      BY <3>1, <3>2
    <3>4. Accepted(g + 1)' = Accepted(g + 1)
      BY <2>3
    <3>5. CASE g = q
      <4>1. Read(g)' = Read(g) + 1
        BY <2>3, <3>5
      <4>2. Unsent(g + 1)' \in {0, 1}
        BY <2>6, <3>5
      <4> QED BY <3>2, <3>3, <3>4, <4>1, <4>2
    <3>6. CASE g # q
      <4>1. Read(g)' = Read(g)
        BY <2>3, <3>6
      <4>2. g + 1 # q + 1
        BY <2>4, <3>6
      <4>3. Unsent(g + 1)' = 0
        BY <2>6, <4>2
      <4> QED BY <3>2, <3>3, <3>4, <4>1, <4>3
    <3> QED BY <3>5, <3>6
  <2> QED BY <2>7, <2>8, <2>9 DEF ChainInv
<1>4. ASSUME NEW i \in 1..Len(setup), Perform(i) PROVE ChainInv'
  <2> DEFINE q == Generation(pending.topic)
  <2>1. /\ pending # NoAction /\ pending' = NoAction /\ seeds' = seeds /\ setup' = setup
        /\ UNCHANGED histories \/ \E b \in open : Put(b, Letter(i))
    BY <1>4, PerformCases DEF world
  <2>2. \A g : Unsent(g)' = 0
    BY <2>1 DEF Unsent
  <2>3. CASE UNCHANGED histories
    <3>1. \A g : Accepted(g)' = Accepted(g) /\ Read(g)' = Read(g)
      BY <2>1, <2>3, HistoriesKept DEF histories
    <3>2. Accepted(1)' <= seeds'
      BY <1>0, <2>1, <3>1
    <3>3. ASSUME NEW g \in 1..3 PROVE Accepted(g + 1)' + Unsent(g + 1)' <= Read(g)'
      <4>1. Accepted(g + 1) + Unsent(g + 1) <= Read(g)
        BY <1>0
      <4>2. Accepted(g + 1) \in Nat /\ Read(g) \in Nat /\ Unsent(g + 1) \in {0, 1}
        BY <1>a
      <4>3. /\ Accepted(g + 1)' = Accepted(g + 1) /\ Unsent(g + 1)' = 0
            /\ Read(g)' = Read(g)
        BY <2>2, <3>1
      <4> QED BY <4>1, <4>2, <4>3
    <3> QED BY <2>2, <3>2, <3>3 DEF ChainInv
  <2>4. ASSUME NEW b \in open, Put(b, Letter(i)) PROVE ChainInv'
    <3>1. Letter(i) \in Letters /\ b \in 1..Len(setup)
      BY <2>1, LetterType, OpenRunners
    <3>2. Generation(Letter(i).topic) = q
      BY DEF Letter
    <3>3. \A g : /\ Read(g)' = Read(g)
                 /\ q = g => Accepted(g)' = Accepted(g) + 1
                 /\ q # g => Accepted(g)' = Accepted(g)
      BY <2>1, <2>4, <3>1, <3>2, PutAccepted
    <3>4. Unsent(q) = 1 /\ q # 1
      BY <1>0, <2>1, UnsentType
    <3> HIDE DEF q
    <3>5. Accepted(1)' <= seeds'
      BY <1>0, <2>1, <3>3, <3>4
    <3>6. ASSUME NEW g \in 1..3 PROVE Accepted(g + 1)' + Unsent(g + 1)' <= Read(g)'
      <4>1. Accepted(g + 1) + Unsent(g + 1) <= Read(g)
        BY <1>0
      <4>2. Accepted(g + 1) \in Nat /\ Read(g) \in Nat /\ Unsent(g + 1) \in {0, 1}
        BY <1>a
      <4>3. Unsent(g + 1)' = 0 /\ Read(g)' = Read(g)
        BY <2>2, <3>3
      <4>4. CASE g + 1 = q
        <5>1. Accepted(g + 1)' = Accepted(g + 1) + 1 /\ Unsent(g + 1) = 1
          BY <3>3, <3>4, <4>4
        <5> QED BY <4>1, <4>2, <4>3, <5>1
      <4>5. CASE g + 1 # q
        <5>1. Accepted(g + 1)' = Accepted(g + 1)
          BY <3>3, <4>5
        <5> QED BY <4>1, <4>2, <4>3, <5>1
      <4> QED BY <4>4, <4>5
    <3> QED BY <2>2, <3>5, <3>6 DEF ChainInv
  <2> QED BY <2>1, <2>3, <2>4
<1>5. ASSUME NEW i \in 1..Len(setup), Drained(i) PROVE ChainInv'
  BY <1>1, <1>5, DrainedMeans DEF histories, world
<1>6. ASSUME NEW i \in 1..Len(setup), Close(i) PROVE ChainInv'
  BY <1>1, <1>6 DEF Close, histories, world
<1>7. CASE Build \/ StartDraining \/ UNCHANGED vars
  BY <1>1, <1>7 DEF Build, StartDraining, vars, histories, world
<1> QED BY <1>2, <1>3, <1>4, <1>5, <1>6, <1>7, Steps DEF FinalizeEarly, Finalize

\* Every message that was read belongs to a generation.
LEMMA ReadsAdd ==
  ASSUME TypeInv
  PROVE  /\ Reads <= Read(1) + Read(2) + Read(3) + Read(4)
         /\ Reads \in Nat /\ \A g : Read(g) \in Nat
<1> DEFINE D == DOMAIN setup
           of(g) == Pairs(D, [i \in D |-> Born(received[i], g)])
           all == Pairs(D, [i \in D |-> DOMAIN received[i]])
<1>1. \A g : IsFiniteSet(of(g))
  <2>1. IsFiniteSet(D) /\ \A i \in D : received[i] \in Seq(Letters)
    BY Runs
  <2> QED BY <2>1, TallyType
<1>2. \A g : Cardinality(of(g)) = Read(g)
  BY DEF Read, Tally
<1>3. Reads = Cardinality(all)
  BY Zenon DEF Reads, Total, OfAll, Pairs
<1>4. all \subseteq of(1) \cup of(2) \cup of(3) \cup of(4)
  <2> SUFFICES ASSUME NEW p \in all PROVE \E g \in 1..4 : p \in of(g)
    OBVIOUS
  <2>1. PICK i \in D : \E k \in DOMAIN received[i] : p = <<i, k>>
    BY PairsMember
  <2>2. PICK k \in DOMAIN received[i] : p = <<i, k>>
    BY <2>1
  <2>3. PICK g \in 1..4 : Generation(received[i][k].topic) = g
    BY GenerationType
  <2>4. k \in Born(received[i], g)
    BY <2>3 DEF Born
  <2> QED BY <2>2, <2>4, PairsMember
<1> HIDE DEF of, all
<1>5. ASSUME NEW S, NEW T, IsFiniteSet(S), IsFiniteSet(T)
      PROVE  /\ IsFiniteSet(S \cup T)
             /\ Cardinality(S \cup T) <= Cardinality(S) + Cardinality(T)
             /\ Cardinality(S) \in Nat /\ Cardinality(T) \in Nat /\ Cardinality(S \cup T) \in Nat
  <2>1. /\ IsFiniteSet(S \cup T)
        /\ Cardinality(S \cup T) = Cardinality(S) + Cardinality(T) - Cardinality(S \cap T)
    BY <1>5, FS_Union
  <2>2. IsFiniteSet(S \cap T)
    BY <1>5, FS_Intersection
  <2>3. /\ Cardinality(S) \in Nat /\ Cardinality(T) \in Nat
        /\ Cardinality(S \cap T) \in Nat /\ Cardinality(S \cup T) \in Nat
    BY <1>5, <2>1, <2>2, FS_CardinalityType
  <2> QED BY <2>1, <2>3
<1>6. /\ IsFiniteSet(of(1) \cup of(2))
      /\ Cardinality(of(1) \cup of(2)) <= Read(1) + Read(2)
  BY <1>1, <1>2, <1>5
<1>7. /\ IsFiniteSet(of(1) \cup of(2) \cup of(3))
      /\ Cardinality(of(1) \cup of(2) \cup of(3)) <= Cardinality(of(1) \cup of(2)) + Read(3)
  BY <1>1, <1>2, <1>5, <1>6
<1>8. /\ IsFiniteSet(of(1) \cup of(2) \cup of(3) \cup of(4))
      /\ Cardinality(of(1) \cup of(2) \cup of(3) \cup of(4))
           <= Cardinality(of(1) \cup of(2) \cup of(3)) + Read(4)
  BY <1>1, <1>2, <1>5, <1>7
<1>9. /\ Cardinality(all) <= Cardinality(of(1) \cup of(2) \cup of(3) \cup of(4))
      /\ IsFiniteSet(all)
  BY <1>4, <1>8, FS_Subset
<1>10. \A g : Read(g) \in Nat
  BY HistoryTypes
<1>11. /\ Cardinality(all) \in Nat /\ Cardinality(of(1) \cup of(2)) \in Nat
       /\ Cardinality(of(1) \cup of(2) \cup of(3)) \in Nat
       /\ Cardinality(of(1) \cup of(2) \cup of(3) \cup of(4)) \in Nat
  BY <1>6, <1>7, <1>8, <1>9, FS_CardinalityType
<1> QED BY <1>3, <1>6, <1>7, <1>8, <1>9, <1>10, <1>11

\* A dispatch becomes four messages at most, so that no drain of a runner goes
\* on for ever, for any number of dispatches and whoever is there
\* (multi_depot_vehicle.lex:13-55, multi_depot_depot.lex:11-31).
THEOREM ReadFewHolds == FairSpec => []ReadFew
<1>1. Init => ChainInv /\ PrefixInv
  BY ChainInit
<1>2. RouterInv /\ ChainInv /\ PrefixInv /\ [Next]_vars => ChainInv' /\ PrefixInv'
  BY ChainStep, PrefixStep DEF RouterInv
<1>3. TypeInv /\ ChainInv /\ PrefixInv => ReadFew
  <2> SUFFICES ASSUME TypeInv, ChainInv, PrefixInv PROVE Reads <= 4 * seeds
    BY DEF ReadFew
  <2>1. \A g : /\ Read(g) <= Accepted(g) /\ Accepted(g) \in Nat /\ Read(g) \in Nat
               /\ Unsent(g) \in {0, 1}
    BY ReadAccepted, HistoryTypes, UnsentType
  <2>2. Accepted(1) <= seeds /\ seeds \in Nat
    BY DEF ChainInv, TypeInv
  <2>3. ASSUME NEW g \in 1..3 PROVE Read(g + 1) <= Read(g)
    <3>1. Accepted(g + 1) + Unsent(g + 1) <= Read(g)
      BY DEF ChainInv
    <3>2. /\ Read(g + 1) <= Accepted(g + 1) /\ Accepted(g + 1) \in Nat /\ Read(g + 1) \in Nat
          /\ Read(g) \in Nat /\ Unsent(g + 1) \in {0, 1}
      BY <2>1
    <3> QED BY <3>1, <3>2
  <2>4. Read(2) <= Read(1) /\ Read(3) <= Read(2) /\ Read(4) <= Read(3)
    <3>1. 1 + 1 = 2 /\ 2 + 1 = 3 /\ 3 + 1 = 4 /\ 1 \in 1..3 /\ 2 \in 1..3 /\ 3 \in 1..3
      OBVIOUS
    <3> QED BY <2>3, <3>1
  <2>5. Read(1) <= seeds
    <3>1. Read(1) <= Accepted(1) /\ Accepted(1) \in Nat /\ Read(1) \in Nat
      BY <2>1
    <3> QED BY <2>2, <3>1
  <2>6. Read(1) \in Nat /\ Read(2) \in Nat /\ Read(3) \in Nat /\ Read(4) \in Nat
    BY <2>1
  <2>7. Reads <= Read(1) + Read(2) + Read(3) + Read(4) /\ Reads \in Nat
    BY ReadsAdd
  <2> QED BY <2>2, <2>4, <2>5, <2>6, <2>7
<1>4. RouterInv => TypeInv
  BY DEF RouterInv
<1> QED BY <1>1, <1>2, <1>3, <1>4, RouterInvHolds, PTL DEF FairSpec
=============================================================================

----------------------------- MODULE FleetProofs -----------------------------
(***************************************************************************)
(* What the gate of a depot guarantees, and what becomes of a dispatch, for *)
(* any number of messages, faults and ticks, any starts of the agents and   *)
(* any of them gated.                                                      *)
(***************************************************************************)
EXTENDS Fleet, Counting

CountInv == performed \in [Talk -> Nat]

Grant(d) == <<d, "vehicle", "GrantSession">>

-----------------------------------------------------------------------------
\* A count goes up by one, and no other count changes.
LEMMA CountAddsOne ==
  ASSUME NEW f \in [Talk -> Nat], NEW a, NEW action
  PROVE  /\ Count(f, a, action) \in [Talk -> Nat]
         /\ \A t \in Talk : Count(f, a, action)[t] =
              f[t] + (IF t = <<a, action.peer, action.topic>> THEN 1 ELSE 0)
<1> DEFINE k == <<a, action.peer, action.topic>>
<1>1. Count(f, a, action) = [f EXCEPT ![k] = f[k] + 1]
  BY DEF Count
<1>2. Count(f, a, action) = [t \in Talk |-> IF t = k THEN f[k] + 1 ELSE f[t]]
  <2> HIDE DEF k
  <2> QED BY <1>1
<1> HIDE DEF k
<1>3. ASSUME NEW t \in Talk PROVE (IF t = k THEN f[k] + 1 ELSE f[t]) \in Nat
  BY <1>3
<1>4. \A t \in Talk : Count(f, a, action)[t] = f[t] + (IF t = k THEN 1 ELSE 0)
  BY <1>2
<1>5. Count(f, a, action) \in [Talk -> Nat]
  BY <1>2, <1>3
<1> QED BY <1>4, <1>5 DEF k

\* What Act does to the counts of performed actions.
LEMMA ActCounts ==
  ASSUME CountInv, NEW a, NEW action, NEW passes \in BOOLEAN, Act(a, action, passes)
  PROVE  /\ CountInv'
         /\ \A t \in Talk : performed'[t] # performed[t]
              => passes /\ t = <<a, action.peer, action.topic>>
<1>1. CASE passes /\ performed' = Count(performed, a, action)
  BY <1>1, CountAddsOne DEF CountInv
<1>2. CASE UNCHANGED performed
  BY <1>2 DEF CountInv
<1> QED BY <1>1, <1>2 DEF Act

LEMMA GrantIsTalk == ASSUME NEW d \in Depots PROVE Grant(d) \in Talk
BY DEF Talk, Grant

\* Every step keeps the counts well typed, and only the depot's own step, past
\* its gate, adds a grant of it.
LEMMA StepCounts ==
  ASSUME CountInv, [Next]_vars
  PROVE  /\ CountInv'
         /\ \A d \in Depots \cap gated :
              performed'[Grant(d)] # performed[Grant(d)]
                => depots[d].current + 50 <= depots[d].budget + depots[d].pv
<1> DEFINE Goal ==
      /\ CountInv'
      /\ \A d \in Depots \cap gated :
           performed'[Grant(d)] # performed[Grant(d)]
             => depots[d].current + 50 <= depots[d].budget + depots[d].pv
<1>1. ASSUME UNCHANGED performed PROVE Goal
  BY <1>1 DEF CountInv
<1>2. ASSUME VehicleStep PROVE Goal
  <2> DEFINE r == Reaction(Head(mailbox["vehicle"]))
             ok == ("vehicle" \in gated => VehicleSpec(r.state))
  <2>1. Act("vehicle", r.action, ok) /\ ok \in BOOLEAN
    BY <1>2 DEF VehicleStep
  <2>2. /\ CountInv'
        /\ \A t \in Talk : performed'[t] # performed[t]
             => t = <<"vehicle", r.action.peer, r.action.topic>>
    <3> HIDE DEF r, ok
    <3> QED BY <2>1, ActCounts
  <2>3. \A d \in Depots : Grant(d)[1] # "vehicle"
    BY FleetAssumption DEF Grant
  <2> HIDE DEF r
  <2> QED BY <2>2, <2>3, GrantIsTalk DEF Grant
<1>3. ASSUME PvStep PROVE Goal
  <2>1. Act("pv", Say("depot", "PvUpdate"), TRUE)
    BY <1>3 DEF PvStep
  <2>2. /\ CountInv'
        /\ \A t \in Talk : performed'[t] # performed[t]
             => t = <<"pv", Say("depot", "PvUpdate").peer, Say("depot", "PvUpdate").topic>>
    BY <2>1, ActCounts
  <2>3. \A d \in Depots : Grant(d)[1] # "pv"
    BY FleetAssumption DEF Grant
  <2> QED BY <2>2, <2>3, GrantIsTalk DEF Grant
<1>4. ASSUME NEW e \in Depots, Request(e) PROVE Goal
  <2> DEFINE action == OnRequestSession(depots[e], Head(mailbox[e]))
             ok == (e \in gated => DepotSpec(depots[e], action))
  <2>1. Act(e, action, ok) /\ ok \in BOOLEAN
    BY <1>4 DEF Request
  <2>2. /\ CountInv'
        /\ \A t \in Talk : performed'[t] # performed[t]
             => ok /\ t = <<e, action.peer, action.topic>>
    <3> HIDE DEF action, ok
    <3> QED BY <2>1, ActCounts
  <2>3. ASSUME action.topic = "GrantSession", ok, e \in gated
        PROVE  depots[e].current + 50 <= depots[e].budget + depots[e].pv
    <3>1. action = Offer(Head(mailbox[e]).from, "GrantSession")
      BY <2>3 DEF OnRequestSession, Say, Offer
    <3>2. action.payload.power_kw = 50
      BY <3>1 DEF Offer
    <3> QED BY <2>3, <3>2 DEF DepotSpec
  <2>4. ASSUME NEW d \in Depots \cap gated, performed'[Grant(d)] # performed[Grant(d)]
        PROVE  depots[d].current + 50 <= depots[d].budget + depots[d].pv
    <3>1. ok /\ Grant(d) = <<e, action.peer, action.topic>>
      BY <2>2, <2>4, GrantIsTalk
    <3>2. d = e /\ action.topic = "GrantSession"
      <4> HIDE DEF action
      <4> QED BY <3>1 DEF Grant
    <3> QED BY <2>3, <2>4, <3>1, <3>2
  <2> QED BY <2>2, <2>4
<1>5. ASSUME NEW e \in Depots, PvUpdate(e) PROVE Goal
  BY <1>1, <1>5 DEF PvUpdate
<1>6. ASSUME TmsStep \/ Post \/ Tick \/ \E a \in Agents : Restart(a) PROVE Goal
  BY <1>1, <1>6 DEF TmsStep, Post, Tick, Restart, counts
<1>7. ASSUME UNCHANGED vars PROVE Goal
  BY <1>1, <1>7 DEF vars
<1> QED BY <1>2, <1>3, <1>4, <1>5, <1>6, <1>7 DEF Next, DepotStep

-----------------------------------------------------------------------------
(* Mail: who may have written to whom.                                     *)

VehicleMail ==
  [topic : {"Dispatch"}, from : {"tms", "tester"}]
    \cup [topic : {"GrantSession", "DenySession"}, from : Depots]
DepotMail ==
  [topic : {"RequestSession"}, from : {"vehicle"}]
    \cup [topic : {"PvUpdate"}, from : {"pv"}]
TmsMail == [topic : {"Acknowledge", "Complete", "Failed"}, from : {"vehicle"}]
PvMail == [topic : {"Tick"}, from : {"self"}]

Mailed(boxes) ==
  /\ boxes \in [Agents -> Seq(Letters)]
  /\ boxes["vehicle"] \in Seq(VehicleMail)
  /\ \A d \in Depots : boxes[d] \in Seq(DepotMail)
  /\ boxes["tms"] \in Seq(TmsMail)
  /\ boxes["pv"] \in Seq(PvMail)

MailInv == Mailed(mailbox)

\* The letter that an action of agent a becomes, where it may go.
LetterOf(a, action) == [topic |-> action.topic, from |-> a]

Welcome(letter, to) ==
  /\ letter \in Letters
  /\ to = "vehicle" => letter \in VehicleMail
  /\ to \in Depots => letter \in DepotMail
  /\ to = "tms" => letter \in TmsMail
  /\ to = "pv" => letter \in PvMail

\* How many messages of a kind wait for an agent.
Wait(boxes, a, S) == IF a \in Agents THEN Hits(boxes[a], S) ELSE 0

LEMMA Apart ==
  /\ {"depot", "vehicle", "tms", "pv"} \subseteq Agents
  /\ Depots \subseteq Agents
  /\ \A d \in Depots : d \notin {"vehicle", "tms", "pv", "tester"}
  /\ \A a \in Agents : a \in Depots \/ a \in {"vehicle", "tms", "pv"}
BY FleetAssumption DEF Agents

LEMMA WaitType ==
  ASSUME NEW boxes, Mailed(boxes), NEW a, NEW S
  PROVE  Wait(boxes, a, S) \in Nat
<1>1. CASE a \in Agents
  <2>1. boxes[a] \in Seq(Letters)
    BY <1>1 DEF Mailed
  <2> QED BY <1>1, <2>1, HitsFinite DEF Wait
<1> QED BY <1>1 DEF Wait

\* A letter that is welcome at its addressee.
With(boxes, to, letter) == [boxes EXCEPT ![to] = Append(@, letter)]

LEMMA Delivered ==
  ASSUME NEW boxes, Mailed(boxes), NEW to \in Agents, NEW letter, Welcome(letter, to)
  PROVE  /\ Mailed(With(boxes, to, letter))
         /\ \A b, S : Wait(With(boxes, to, letter), b, S) =
              Wait(boxes, b, S) + (IF b = to /\ letter \in S THEN 1 ELSE 0)
<1> DEFINE after == With(boxes, to, letter)
<1>0. ASSUME NEW T, boxes[to] \in Seq(T), letter \in T
      PROVE  Append(boxes[to], letter) \in Seq(T)
  BY <1>0, AppendProperties
<1>1. /\ boxes \in [Agents -> Seq(Letters)] /\ letter \in Letters
      /\ Append(boxes[to], letter) \in Seq(Letters)
  BY <1>0 DEF Mailed, Welcome
<1>2. /\ after \in [Agents -> Seq(Letters)]
      /\ \A b \in Agents : after[b] = IF b = to THEN Append(boxes[to], letter) ELSE boxes[b]
  BY <1>1 DEF With
<1> HIDE DEF after
<1>3. after["vehicle"] \in Seq(VehicleMail)
  BY <1>0, <1>2, Apart DEF Mailed, Welcome
<1>4. ASSUME NEW d \in Depots PROVE after[d] \in Seq(DepotMail)
  BY <1>0, <1>2, Apart DEF Mailed, Welcome
<1>5. after["tms"] \in Seq(TmsMail)
  BY <1>0, <1>2, Apart DEF Mailed, Welcome
<1>6. after["pv"] \in Seq(PvMail)
  BY <1>0, <1>2, Apart DEF Mailed, Welcome
<1>7. Mailed(after)
  BY <1>2, <1>3, <1>4, <1>5, <1>6 DEF Mailed
<1>8. ASSUME NEW b, NEW S
      PROVE  Wait(after, b, S) =
               Wait(boxes, b, S) + (IF b = to /\ letter \in S THEN 1 ELSE 0)
  <2>1. CASE b = to
    <3>1. Hits(Append(boxes[to], letter), S) =
            Hits(boxes[to], S) + (IF letter \in S THEN 1 ELSE 0)
      BY <1>1, HitsAppend
    <3> QED BY <2>1, <3>1, <1>2 DEF Wait
  <2>2. CASE b # to
    <3>1. Wait(after, b, S) = Wait(boxes, b, S)
      BY <2>2, <1>2 DEF Wait
    <3> QED BY <2>2, <3>1, WaitType
  <2> QED BY <2>1, <2>2
<1> QED BY <1>7, <1>8 DEF after

\* A message that is taken.
LEMMA Taken ==
  ASSUME MailInv, NEW a \in Agents, mailbox[a] # <<>>
  PROVE  /\ Mailed(Take(a))
         /\ Head(mailbox[a]) \in Letters
         /\ a = "vehicle" => Head(mailbox[a]) \in VehicleMail
         /\ a \in Depots => Head(mailbox[a]) \in DepotMail
         /\ \A b, S : Wait(Take(a), b, S) =
              Wait(mailbox, b, S) - (IF b = a /\ Head(mailbox[a]) \in S THEN 1 ELSE 0)
<1> DEFINE after == Take(a)
<1>0. ASSUME NEW T, mailbox[a] \in Seq(T)
      PROVE  Head(mailbox[a]) \in T /\ Tail(mailbox[a]) \in Seq(T)
  BY <1>0, HeadTailProperties
<1>1. /\ mailbox \in [Agents -> Seq(Letters)]
      /\ Head(mailbox[a]) \in Letters /\ Tail(mailbox[a]) \in Seq(Letters)
  BY <1>0 DEF MailInv, Mailed
<1>2. /\ after \in [Agents -> Seq(Letters)]
      /\ \A b \in Agents : after[b] = IF b = a THEN Tail(mailbox[a]) ELSE mailbox[b]
  BY <1>1 DEF Take
<1> HIDE DEF after
<1>3. /\ after["vehicle"] \in Seq(VehicleMail)
      /\ a = "vehicle" => Head(mailbox[a]) \in VehicleMail
  BY <1>0, <1>2, Apart DEF MailInv, Mailed
<1>4. ASSUME NEW d \in Depots
      PROVE  after[d] \in Seq(DepotMail) /\ (a = d => Head(mailbox[a]) \in DepotMail)
  BY <1>0, <1>2, Apart DEF MailInv, Mailed
<1>5. after["tms"] \in Seq(TmsMail)
  BY <1>0, <1>2, Apart DEF MailInv, Mailed
<1>6. after["pv"] \in Seq(PvMail)
  BY <1>0, <1>2, Apart DEF MailInv, Mailed
<1>7. Mailed(after)
  BY <1>2, <1>3, <1>4, <1>5, <1>6 DEF Mailed
<1>8. ASSUME NEW b, NEW S
      PROVE  Wait(after, b, S) =
               Wait(mailbox, b, S) - (IF b = a /\ Head(mailbox[a]) \in S THEN 1 ELSE 0)
  <2>1. CASE b = a
    <3>1. Hits(mailbox[a], S) =
            Hits(Tail(mailbox[a]), S) + (IF Head(mailbox[a]) \in S THEN 1 ELSE 0)
      BY <1>1, HitsTail
    <3>2. Hits(Tail(mailbox[a]), S) \in Nat
      BY <1>1, HitsFinite
    <3>3. Wait(after, b, S) = Hits(Tail(mailbox[a]), S) /\ Wait(mailbox, b, S) = Hits(mailbox[a], S)
      BY <2>1, <1>2 DEF Wait
    <3> QED BY <2>1, <3>1, <3>2, <3>3
  <2>2. CASE b # a
    <3>1. Wait(after, b, S) = Wait(mailbox, b, S)
      BY <2>2, <1>2 DEF Wait
    <3> QED BY <2>2, <3>1, WaitType DEF MailInv
  <2> QED BY <2>1, <2>2
<1> QED BY <1>1, <1>3, <1>4, <1>7, <1>8 DEF after

\* What an action puts into the mailboxes.
LEMMA PutMail ==
  ASSUME NEW boxes, Mailed(boxes), NEW a, NEW action,
         Url(action.peer) \in Agents => Welcome(LetterOf(a, action), Url(action.peer))
  PROVE  /\ Mailed(Put(boxes, a, action))
         /\ \A b, S : Wait(Put(boxes, a, action), b, S) =
              Wait(boxes, b, S)
                + (IF b \in Agents /\ b = Url(action.peer) /\ LetterOf(a, action) \in S
                   THEN 1 ELSE 0)
<1>1. DOMAIN boxes = Agents
  BY DEF Mailed
<1>2. CASE Url(action.peer) \in Agents
  <2> DEFINE to == Url(action.peer)
             after == With(boxes, to, LetterOf(a, action))
  <2>1. Put(boxes, a, action) = after
    BY <1>1, <1>2 DEF Put, LetterOf, With
  <2>2. /\ Mailed(after)
        /\ \A b, S : Wait(after, b, S) =
             Wait(boxes, b, S) + (IF b = to /\ LetterOf(a, action) \in S THEN 1 ELSE 0)
    <3>1. to \in Agents /\ Welcome(LetterOf(a, action), to)
      BY <1>2
    <3> HIDE DEF to
    <3> QED BY <3>1, Delivered
  <2> HIDE DEF after
  <2> QED BY <2>1, <2>2, <1>2
<1>3. CASE Url(action.peer) \notin Agents
  <2>1. Put(boxes, a, action) = boxes
    BY <1>1, <1>3 DEF Put
  <2> QED BY <2>1, <1>3, WaitType
<1> QED BY <1>2, <1>3

-----------------------------------------------------------------------------
(* What a step of an agent does to mail and counts.                        *)

\* The links on which outcomes and words of depots travel.
Links == {<<"vehicle", "tms">>, <<"vehicle", "tester">>,
          <<"depot", "vehicle">>, <<"depot2", "vehicle">>}

LEMMA PerformedType == ASSUME CountInv, NEW topic PROVE Performed(topic) \in Nat
BY DEF CountInv, Performed, Times

LEMMA PerformedMore ==
  ASSUME CountInv, NEW a, NEW action, <<a, action.peer, action.topic>> \in Talk,
         performed' = Count(performed, a, action), NEW topic
  PROVE  Performed(topic)' = Performed(topic)
           + (IF action.topic = topic /\ <<a, action.peer>> \in Links THEN 1 ELSE 0)
<1> DEFINE k == <<a, action.peer, action.topic>>
           add(from, peer) == IF k = <<from, peer, topic>> THEN 1 ELSE 0
<1>1. ASSUME NEW t \in Talk
      PROVE  performed'[t] = performed[t] + (IF t = k THEN 1 ELSE 0)
  BY <1>1, CountAddsOne DEF CountInv
<1>2. ASSUME NEW from, NEW peer
      PROVE  /\ Times(from, peer, topic)' = Times(from, peer, topic) + add(from, peer)
             /\ Times(from, peer, topic) \in Nat
  <2> HIDE DEF k
  <2>1. CASE <<from, peer, topic>> \in Talk
    BY <2>1, <1>1 DEF Times, CountInv
  <2>2. CASE <<from, peer, topic>> \notin Talk
    BY <2>2 DEF Times, k
  <2> QED BY <2>1, <2>2
<1>3. add("vehicle", "tms") + add("vehicle", "tester") + add("depot", "vehicle")
        + add("depot2", "vehicle")
        = IF action.topic = topic /\ <<a, action.peer>> \in Links THEN 1 ELSE 0
  BY DEF Links
<1> HIDE DEF add, k
<1>4. /\ add("vehicle", "tms") \in Nat /\ add("vehicle", "tester") \in Nat
      /\ add("depot", "vehicle") \in Nat /\ add("depot2", "vehicle") \in Nat
  BY DEF add
<1> QED BY <1>2, <1>3, <1>4 DEF Performed

Adds(a, action, topic) ==
  IF action.topic = topic /\ <<a, action.peer>> \in Links THEN 1 ELSE 0
Takes(a, b, S) == IF b = a /\ Head(mailbox[a]) \in S THEN 1 ELSE 0
Puts(a, action, b, S) ==
  IF b \in Agents /\ b = Url(action.peer) /\ LetterOf(a, action) \in S THEN 1 ELSE 0

\* An action that is performed and arrives, is lost, or is refused.
Sent(a, action) ==
  /\ faults' = faults
  /\ \A topic : Performed(topic)' = Performed(topic) + Adds(a, action, topic)
  /\ \A b, S : Wait(mailbox', b, S)
                 = Wait(mailbox, b, S) - Takes(a, b, S) + Puts(a, action, b, S)
Lost(a, action) ==
  /\ faults' = faults + 1
  /\ \A topic : Performed(topic)' = Performed(topic) + Adds(a, action, topic)
  /\ \A b, S : Wait(mailbox', b, S) = Wait(mailbox, b, S) - Takes(a, b, S)
Refused(a) ==
  /\ faults' = faults
  /\ \A topic : Performed(topic)' = Performed(topic)
  /\ \A b, S : Wait(mailbox', b, S) = Wait(mailbox, b, S) - Takes(a, b, S)

LEMMA ActEffect ==
  ASSUME CountInv, MailInv, NEW a \in Agents, mailbox[a] # <<>>,
         NEW action, <<a, action.peer, action.topic>> \in Talk,
         Url(action.peer) \in Agents => Welcome(LetterOf(a, action), Url(action.peer)),
         NEW passes \in BOOLEAN, Act(a, action, passes)
  PROVE  /\ MailInv'
         /\ \/ passes /\ Sent(a, action)
            \/ passes /\ Lost(a, action)
            \/ ~passes /\ Refused(a)
<1>1. /\ Mailed(Take(a))
      /\ \A b, S : Wait(Take(a), b, S) = Wait(mailbox, b, S) - Takes(a, b, S)
  BY Taken DEF Takes
<1>2. /\ Mailed(Put(Take(a), a, action))
      /\ \A b, S : Wait(Put(Take(a), a, action), b, S)
                     = Wait(mailbox, b, S) - Takes(a, b, S) + Puts(a, action, b, S)
  <2>1. /\ Mailed(Put(Take(a), a, action))
        /\ \A b, S : Wait(Put(Take(a), a, action), b, S)
                       = Wait(Take(a), b, S) + Puts(a, action, b, S)
    BY <1>1, PutMail DEF Puts
  <2> QED BY <1>1, <2>1
<1>3. ASSUME performed' = Count(performed, a, action), NEW topic
      PROVE  Performed(topic)' = Performed(topic) + Adds(a, action, topic)
  BY <1>3, PerformedMore DEF Adds
<1>4. ASSUME performed' = performed, NEW topic
      PROVE  Performed(topic)' = Performed(topic)
  BY <1>4 DEF Performed, Times
<1>5. CASE /\ passes /\ performed' = Count(performed, a, action)
           /\ mailbox' = Put(Take(a), a, action) /\ faults' = faults
  <2>1. MailInv'
    BY <1>2, <1>5 DEF MailInv
  <2>2. Sent(a, action)
    BY <1>2, <1>3, <1>5 DEF Sent
  <2> QED BY <1>5, <2>1, <2>2
<1>6. CASE /\ passes /\ performed' = Count(performed, a, action)
           /\ mailbox' = Take(a) /\ faults' = faults + 1
  <2>1. MailInv'
    BY <1>1, <1>6 DEF MailInv
  <2>2. Lost(a, action)
    BY <1>1, <1>3, <1>6 DEF Lost
  <2> QED BY <1>6, <2>1, <2>2
<1>7. CASE ~passes /\ mailbox' = Take(a) /\ performed' = performed /\ faults' = faults
  <2>1. MailInv'
    BY <1>1, <1>7 DEF MailInv
  <2>2. Refused(a)
    BY SMTT(40), <1>1, <1>4, <1>7 DEF Refused
  <2> QED BY <1>7, <2>1, <2>2
<1> QED BY <1>5, <1>6, <1>7 DEF Act

VehicleStates == [soc : Int, reserve : Int, energy : Int, tried : 0..2]
Outcome == {"Acknowledge", "Complete", "Failed"}

\* What the vehicle makes of a message.
LEMMA VehicleActs ==
  ASSUME MailInv, vehicle \in VehicleStates, mailbox["vehicle"] # <<>>,
         NEW m, m = Head(mailbox["vehicle"]), NEW r, r = Reaction(m)
  PROVE  /\ m \in Open
         /\ r.state \in VehicleStates
         /\ \/ r.action.topic \in Outcome /\ r.action.peer \in {"tms", "tester"}
            \/ r.action.topic = "RequestSession" /\ r.action.peer \in {"depot", "depot2"}
         /\ r.action.topic = "Complete" => m.topic = "GrantSession"
         /\ r.action.topic = "Failed" => m.topic = "DenySession" /\ vehicle.tried = 2
         /\ r.state.tried = 2 => m.topic = "DenySession" \/ vehicle.tried = 2
         /\ <<"vehicle", r.action.peer, r.action.topic>> \in Talk
         /\ Url(r.action.peer) \in Agents
              => Welcome(LetterOf("vehicle", r.action), Url(r.action.peer))
<1>1. m \in VehicleMail /\ m \in Letters
  BY Taken, Apart
<1>2. m \in Open
  BY <1>1 DEF VehicleMail, Open
<1>3. vehicle.tried \in 0..2
  BY DEF VehicleStates
<1>4. ASSUME m.topic = "Dispatch", vehicle.soc - vehicle.energy >= vehicle.reserve
      PROVE  r = [state |-> [vehicle EXCEPT !.tried = 0], action |-> Say(m.from, "Acknowledge")]
  BY Zenon, <1>4 DEF Reaction, OnDispatch
<1>5. ASSUME m.topic = "Dispatch", ~(vehicle.soc - vehicle.energy >= vehicle.reserve)
      PROVE  r = [state |-> [vehicle EXCEPT !.tried = 1],
                  action |-> Offer("depot", "RequestSession")]
  BY Zenon, <1>5 DEF Reaction, OnDispatch
<1>6. ASSUME m.topic = "GrantSession"
      PROVE  r = [state |-> vehicle, action |-> Say("tms", "Complete")]
  BY Zenon, <1>6 DEF Reaction, OnGrant
<1>7. ASSUME m.topic = "DenySession", vehicle.tried >= 2
      PROVE  r = [state |-> vehicle, action |-> Say("tms", "Failed")]
  BY Zenon, <1>7 DEF Reaction, OnDeny
<1>8. ASSUME m.topic = "DenySession", ~(vehicle.tried >= 2)
      PROVE  r = [state |-> [vehicle EXCEPT !.tried = @ + 1],
                  action |-> Offer("depot2", "RequestSession")]
  BY Zenon, <1>8 DEF Reaction, OnDeny
<1>9. /\ m.topic = "Dispatch" /\ m.from \in {"tms", "tester"}
      \/ m.topic \in {"GrantSession", "DenySession"}
  BY <1>1 DEF VehicleMail
<1>10. ASSUME r.action.topic \in Outcome, r.action.peer \in {"tms", "tester"},
              r.action.topic # "Acknowledge" => r.action.peer = "tms"
       PROVE  /\ <<"vehicle", r.action.peer, r.action.topic>> \in Talk
              /\ Url(r.action.peer) \in Agents
                   => Welcome(LetterOf("vehicle", r.action), Url(r.action.peer))
  <2>1. <<"vehicle", r.action.peer, r.action.topic>> \in Talk
    BY <1>10 DEF Talk, Outcome
  <2>2. Url(r.action.peer) = r.action.peer
    BY <1>10 DEF Url
  <2>3. LetterOf("vehicle", r.action) \in TmsMail /\ LetterOf("vehicle", r.action) \in Letters
    BY <1>10, Apart DEF LetterOf, TmsMail, Letters, Outcome
  <2>4. r.action.peer \in Agents => r.action.peer = "tms"
    BY <1>10, Apart
  <2> QED BY <2>1, <2>2, <2>3, <2>4, Apart DEF Welcome
<1>11. ASSUME r.action.topic = "RequestSession", r.action.peer \in {"depot", "depot2"}
       PROVE  /\ <<"vehicle", r.action.peer, r.action.topic>> \in Talk
              /\ Url(r.action.peer) \in Agents
                   => Welcome(LetterOf("vehicle", r.action), Url(r.action.peer))
  <2>1. <<"vehicle", r.action.peer, r.action.topic>> \in Talk
    BY <1>11 DEF Talk
  <2>2. Url(r.action.peer) \in Depots
    BY <1>11, FleetAssumption DEF Url
  <2>3. LetterOf("vehicle", r.action) \in DepotMail /\ LetterOf("vehicle", r.action) \in Letters
    BY <1>11, Apart DEF LetterOf, DepotMail, Letters
  <2> QED BY <2>1, <2>2, <2>3, Apart DEF Welcome
<1>12. CASE m.topic = "Dispatch" /\ vehicle.soc - vehicle.energy >= vehicle.reserve
  <2>1. /\ r.action.topic = "Acknowledge" /\ r.action.peer = m.from
        /\ r.state = [vehicle EXCEPT !.tried = 0]
    BY <1>4, <1>12 DEF Say
  <2>2. r.state \in VehicleStates /\ r.state.tried = 0
    BY <2>1 DEF VehicleStates
  <2> QED BY <1>2, <1>9, <1>10, <1>12, <2>1, <2>2 DEF Outcome
<1>13. CASE m.topic = "Dispatch" /\ ~(vehicle.soc - vehicle.energy >= vehicle.reserve)
  <2>1. /\ r.action.topic = "RequestSession" /\ r.action.peer = "depot"
        /\ r.state = [vehicle EXCEPT !.tried = 1]
    BY <1>5, <1>13 DEF Offer
  <2>2. r.state \in VehicleStates /\ r.state.tried = 1
    BY <2>1 DEF VehicleStates
  <2> QED BY <1>2, <1>11, <2>1, <2>2 DEF Outcome
<1>14. CASE m.topic = "GrantSession"
  <2>1. /\ r.action.topic = "Complete" /\ r.action.peer = "tms" /\ r.state = vehicle
    BY <1>6, <1>14 DEF Say
  <2> QED BY <1>2, <1>10, <1>14, <2>1 DEF Outcome
<1>15. CASE m.topic = "DenySession" /\ vehicle.tried >= 2
  <2>1. /\ r.action.topic = "Failed" /\ r.action.peer = "tms" /\ r.state = vehicle
    BY <1>7, <1>15 DEF Say
  <2>2. vehicle.tried = 2
    BY <1>3, <1>15
  <2> QED BY <1>2, <1>10, <1>15, <2>1, <2>2 DEF Outcome
<1>16. CASE m.topic = "DenySession" /\ ~(vehicle.tried >= 2)
  <2>1. /\ r.action.topic = "RequestSession" /\ r.action.peer = "depot2"
        /\ r.state = [vehicle EXCEPT !.tried = @ + 1]
    BY <1>8, <1>16 DEF Offer
  <2>2. r.state \in VehicleStates
    BY <1>3, <1>16, <2>1 DEF VehicleStates
  <2> QED BY <1>2, <1>11, <1>16, <2>1, <2>2 DEF Outcome
<1> QED BY <1>9, <1>12, <1>13, <1>14, <1>15, <1>16

\* What a depot makes of a request.
LEMMA DepotActs ==
  ASSUME MailInv, NEW d \in Depots, mailbox[d] # <<>>,
         Head(mailbox[d]).topic = "RequestSession",
         NEW action, action = OnRequestSession(depots[d], Head(mailbox[d]))
  PROVE  /\ Head(mailbox[d]) \in Open
         /\ action.topic \in {"GrantSession", "DenySession"}
         /\ action.peer = "vehicle"
         /\ <<d, action.peer, action.topic>> \in Talk
         /\ LetterOf(d, action) \in Open
         /\ Welcome(LetterOf(d, action), "vehicle")
<1>1. Head(mailbox[d]) \in DepotMail /\ Head(mailbox[d]) \in Letters
  BY Taken, Apart
<1>2. Head(mailbox[d]).from = "vehicle" /\ Head(mailbox[d]) \in Open
  BY <1>1 DEF DepotMail, Open
<1>3. action.topic \in {"GrantSession", "DenySession"} /\ action.peer = "vehicle"
  BY <1>2 DEF OnRequestSession, Offer, Say
<1>4. LetterOf(d, action) \in VehicleMail /\ LetterOf(d, action) \in Letters
  BY <1>3, Apart DEF LetterOf, VehicleMail, Letters
<1>5. LetterOf(d, action) \in Open
  BY <1>3, <1>4 DEF Open, LetterOf
<1>6. <<d, action.peer, action.topic>> \in Talk
  BY <1>3 DEF Talk
<1> QED BY <1>2, <1>3, <1>4, <1>5, <1>6, Apart DEF Welcome

-----------------------------------------------------------------------------
(* Types.                                                                  *)

LEMMA ActTypes ==
  ASSUME TypeOK, NEW a, NEW action, NEW passes, Act(a, action, passes)
  PROVE  /\ proposed' \in [Talk -> Nat] /\ performed' \in [Talk -> Nat]
         /\ \A t \in Talk : performed'[t] <= proposed'[t]
         /\ faults' \in 0..MaxFaults
<1> DEFINE k == <<a, action.peer, action.topic>>
           one(t) == IF t = k THEN 1 ELSE 0
<1>1. /\ proposed \in [Talk -> Nat] /\ performed \in [Talk -> Nat]
      /\ \A t \in Talk : performed[t] <= proposed[t]
      /\ faults \in 0..MaxFaults /\ MaxFaults \in Nat
  BY FleetAssumption DEF TypeOK
<1>2. proposed' \in [Talk -> Nat] /\ \A t \in Talk : proposed'[t] = proposed[t] + one(t)
  BY <1>1, CountAddsOne DEF Act
<1>3. CASE performed' = Count(performed, a, action)
  <2>1. /\ performed' \in [Talk -> Nat]
        /\ \A t \in Talk : performed'[t] = performed[t] + one(t)
    BY <1>1, <1>3, CountAddsOne
  <2> HIDE DEF one
  <2>2. ASSUME NEW t \in Talk PROVE performed'[t] <= proposed'[t]
    <3>1. one(t) \in Nat
      BY DEF one
    <3> QED BY <1>1, <1>2, <2>1, <3>1
  <2>3. faults' \in 0..MaxFaults
    BY <1>1 DEF Act
  <2> QED BY <1>2, <2>1, <2>2, <2>3
<1>4. CASE performed' = performed
  <2>1. ASSUME NEW t \in Talk PROVE performed'[t] <= proposed'[t]
    <3>1. one(t) \in Nat
      OBVIOUS
    <3> HIDE DEF one
    <3> QED BY <1>1, <1>2, <1>4, <3>1
  <2>2. faults' \in 0..MaxFaults
    BY <1>1 DEF Act
  <2> QED BY <1>1, <1>2, <1>4, <2>1, <2>2
<1> QED BY <1>3, <1>4 DEF Act

DepotStates == [current : Nat, budget : Nat, pv : Nat, requested : Nat]

LEMMA TypeStep ==
  ASSUME TypeOK, MailInv, MailInv', [Next]_vars
  PROVE  TypeOK'
<1> DEFINE Counted ==
      /\ proposed \in [Talk -> Nat] /\ performed \in [Talk -> Nat]
      /\ \A t \in Talk : performed[t] <= proposed[t]
<1>1. /\ gated \in Gatings /\ vehicle \in VehicleStates /\ depots \in [Depots -> DepotStates]
      /\ Counted
      /\ posts \in 0..MaxPosts /\ ticks \in 0..MaxTicks /\ faults \in 0..MaxFaults
      /\ MaxPosts \in Nat /\ MaxTicks \in Nat /\ MaxFaults \in Nat
  BY FleetAssumption DEF TypeOK, VehicleStates, DepotStates
<1>2. mailbox' \in [Agents -> Seq(Letters)]
  BY DEF MailInv, Mailed
<1> HIDE DEF Counted
<1>3. SUFFICES /\ gated' \in Gatings /\ vehicle' \in VehicleStates
               /\ depots' \in [Depots -> DepotStates]
               /\ Counted'
               /\ posts' \in 0..MaxPosts /\ ticks' \in 0..MaxTicks /\ faults' \in 0..MaxFaults
  BY <1>2 DEF TypeOK, VehicleStates, DepotStates, Counted
<1>4. ASSUME NEW a, NEW action, NEW passes, Act(a, action, passes)
      PROVE  Counted' /\ faults' \in 0..MaxFaults
  BY <1>4, ActTypes DEF Counted
<1>5. CASE VehicleStep
  <2> DEFINE r == Reaction(Head(mailbox["vehicle"]))
  <2>1. vehicle' = r.state /\ r.state \in VehicleStates
    <3>1. mailbox["vehicle"] # <<>> /\ vehicle' = r.state
      BY <1>5 DEF VehicleStep
    <3>2. r.state \in VehicleStates
      BY <1>1, <3>1, VehicleActs
    <3> QED BY <3>1, <3>2
  <2>2. Counted' /\ faults' \in 0..MaxFaults
    BY <1>4, <1>5 DEF VehicleStep
  <2> QED BY <1>1, <1>5, <2>1, <2>2 DEF VehicleStep
<1>6. CASE PvStep
  <2>1. Counted' /\ faults' \in 0..MaxFaults
    BY <1>4, <1>6 DEF PvStep
  <2> QED BY <1>1, <1>6, <2>1 DEF PvStep
<1>7. ASSUME NEW d \in Depots, Request(d) PROVE <1>3!1
  <2>1. Counted' /\ faults' \in 0..MaxFaults
    BY <1>4, <1>7 DEF Request
  <2> QED BY <1>1, <1>7, <2>1 DEF Request
<1>8. ASSUME NEW d \in Depots, PvUpdate(d) PROVE <1>3!1
  <2>1. depots' = [depots EXCEPT ![d].pv = @ + 5]
    BY <1>8 DEF PvUpdate
  <2>2. depots' \in [Depots -> DepotStates]
    BY <1>1, <2>1 DEF DepotStates
  <2> QED BY <1>1, <1>8, <2>2 DEF PvUpdate, Counted
<1>9. ASSUME TmsStep \/ Post \/ Tick PROVE <1>3!1
  BY <1>1, <1>9 DEF TmsStep, Post, Tick, counts, Counted
<1>10. ASSUME NEW a \in Agents, Restart(a) PROVE <1>3!1
  <2>1. vehicle' \in VehicleStates
    <3>1. [vehicle EXCEPT !.tried = 0] \in VehicleStates
      BY <1>1 DEF VehicleStates
    <3> QED BY <1>1, <1>10, <3>1 DEF Restart
  <2>2. depots' \in [Depots -> DepotStates]
    <3>1. ASSUME NEW d \in Depots
          PROVE  (IF a = d THEN [depots[d] EXCEPT !.pv = 0] ELSE depots[d]) \in DepotStates
      BY <1>1 DEF DepotStates
    <3> QED BY <1>10, <3>1 DEF Restart
  <2> QED BY <1>1, <1>10, <2>1, <2>2 DEF Restart, counts, Counted
<1>11. CASE UNCHANGED vars
  BY <1>1, <1>11 DEF vars, Counted
<1> QED BY <1>5, <1>6, <1>7, <1>8, <1>9, <1>10, <1>11 DEF Next, DepotStep

-----------------------------------------------------------------------------
(* Outcomes.                                                               *)

Denies == {m \in Letters : m.topic = "DenySession"}
Grants == {m \in Letters : m.topic = "GrantSession"}

\* Denials and grants that the vehicle has yet to read cannot have led to an
\* outcome; a vehicle that will say Failed next has read one denial more than
\* it said Failed.
EarnedInv ==
  LET unread(S) == Wait(mailbox, "vehicle", S)
  IN  /\ Performed("Complete") + unread(Grants) <= Performed("GrantSession")
      /\ Performed("Failed") + unread(Denies) <= Performed("DenySession")
      /\ vehicle.tried = 2 \/ Performed("Failed") > 0
           => Performed("Failed") + unread(Denies) < Performed("DenySession")

FleetInv == TypeOK /\ MailInv /\ OutcomeOnce /\ EarnedInv

Flight(boxes) ==
  Wait(boxes, "vehicle", Open) + Wait(boxes, "depot", Open) + Wait(boxes, "depot2", Open)

LEMMA FlightMeans == InFlight = Flight(mailbox) /\ InFlight' = Flight(mailbox')
<1>1. ASSUME NEW a
      PROVE  Waiting(a) = Wait(mailbox, a, Open) /\ Waiting(a)' = Wait(mailbox', a, Open)
  BY DEF Waiting, Wait, Hits
<1> QED BY <1>1 DEF InFlight, Flight

OpenTaken(a) == Takes(a, "vehicle", Open) + Takes(a, "depot", Open) + Takes(a, "depot2", Open)
OpenPut(a, action) ==
  Puts(a, action, "vehicle", Open) + Puts(a, action, "depot", Open)
    + Puts(a, action, "depot2", Open)
OutcomeAdded(a, action) ==
  Adds(a, action, "Acknowledge") + Adds(a, action, "Complete") + Adds(a, action, "Failed")

\* A step that turns each open message into one open message or one outcome.
LEMMA OnceAct ==
  ASSUME TypeOK, MailInv, OutcomeOnce, UNCHANGED <<gated, posts>>,
         NEW a, NEW action, NEW passes,
         \/ passes /\ Sent(a, action)
         \/ passes /\ Lost(a, action)
         \/ ~passes /\ Refused(a),
         ~passes => gated # {},
         OpenTaken(a) = OpenPut(a, action) + OutcomeAdded(a, action)
  PROVE  OutcomeOnce'
<1> DEFINE Known(topic) == Performed(topic) \in Nat /\ Adds(a, action, topic) \in Nat
           Counted(b) == /\ Wait(mailbox, b, Open) \in Nat
                         /\ Takes(a, b, Open) \in Nat /\ Puts(a, action, b, Open) \in Nat
<1>1. ASSUME NEW topic PROVE Known(topic)
  BY PerformedType DEF TypeOK, CountInv, Adds
<1>2. ASSUME NEW b PROVE Counted(b)
  BY WaitType DEF MailInv, Takes, Puts
<1>3. Known("Acknowledge") /\ Known("Complete") /\ Known("Failed")
  BY <1>1
<1>4. Counted("vehicle") /\ Counted("depot") /\ Counted("depot2")
  BY <1>2
<1>5. Outcomes \in Nat /\ Flight(mailbox) \in Nat
  BY <1>3, <1>4 DEF Outcomes, Flight
<1>6. /\ OpenTaken(a) \in Nat /\ OpenPut(a, action) \in Nat /\ OutcomeAdded(a, action) \in Nat
  BY <1>3, <1>4 DEF OpenTaken, OpenPut, OutcomeAdded
<1>7. faults \in Nat /\ posts \in Nat
  BY FleetAssumption DEF TypeOK
<1>8. /\ Outcomes + Flight(mailbox) <= posts
      /\ gated = {} /\ faults = 0 => Outcomes + Flight(mailbox) = posts
  BY FlightMeans DEF OutcomeOnce
<1>9. SUFFICES /\ Outcomes' + Flight(mailbox') <= posts
               /\ gated = {} /\ faults' = 0 => Outcomes' + Flight(mailbox') = posts
  BY FlightMeans DEF OutcomeOnce
<1>10. ASSUME \A topic : Performed(topic)' = Performed(topic) + Adds(a, action, topic)
       PROVE  Outcomes' = Outcomes + OutcomeAdded(a, action)
  BY <1>3, <1>10 DEF Outcomes, OutcomeAdded
<1>11. ASSUME \A topic : Performed(topic)' = Performed(topic)
       PROVE  Outcomes' = Outcomes
  BY <1>11 DEF Outcomes
<1>12. ASSUME \A b, S : Wait(mailbox', b, S) = Wait(mailbox, b, S) - Takes(a, b, S)
       PROVE  Flight(mailbox') = Flight(mailbox) - OpenTaken(a)
  BY <1>4, <1>12 DEF Flight, OpenTaken
<1>13. CASE passes /\ Sent(a, action)
  <2>1. Flight(mailbox') = Flight(mailbox) - OpenTaken(a) + OpenPut(a, action)
    BY <1>4, <1>13 DEF Flight, OpenTaken, OpenPut, Sent
  <2>2. Outcomes' = Outcomes + OutcomeAdded(a, action) /\ faults' = faults
    BY <1>10, <1>13 DEF Sent
  <2> QED BY <1>5, <1>6, <1>7, <1>8, <2>1, <2>2
<1>14. CASE passes /\ Lost(a, action)
  <2>1. /\ Flight(mailbox') = Flight(mailbox) - OpenTaken(a)
        /\ Outcomes' = Outcomes + OutcomeAdded(a, action)
        /\ faults' = faults + 1
    BY <1>10, <1>12, <1>14 DEF Lost
  <2> QED BY <1>5, <1>6, <1>7, <1>8, <2>1
<1>15. CASE ~passes /\ Refused(a)
  <2>1. /\ Flight(mailbox') = Flight(mailbox) - OpenTaken(a)
        /\ Outcomes' = Outcomes
        /\ gated # {}
    BY <1>11, <1>12, <1>15 DEF Refused
  <2> QED BY <1>5, <1>6, <1>7, <1>8, <2>1
<1> QED BY <1>13, <1>14, <1>15

\* A step that turns a grant into at most one Complete, and a denial into at
\* most one Failed, and that only when two depots were asked.
LEMMA EarnedAct ==
  ASSUME TypeOK, MailInv, EarnedInv,
         NEW a, NEW action, NEW passes,
         \/ passes /\ Sent(a, action)
         \/ passes /\ Lost(a, action)
         \/ ~passes /\ Refused(a),
         Puts(a, action, "vehicle", Denies) <= Adds(a, action, "DenySession"),
         Puts(a, action, "vehicle", Grants) <= Adds(a, action, "GrantSession"),
         Adds(a, action, "Complete") <= Takes(a, "vehicle", Grants),
         Adds(a, action, "Failed") <= Takes(a, "vehicle", Denies),
         Adds(a, action, "Failed") = 1 => vehicle.tried = 2,
         vehicle'.tried = 2 => vehicle.tried = 2 \/ Takes(a, "vehicle", Denies) = 1
  PROVE  EarnedInv'
<1>1. ASSUME NEW topic PROVE Performed(topic) \in Nat /\ Adds(a, action, topic) \in {0, 1}
  BY PerformedType DEF TypeOK, CountInv, Adds
<1>2. /\ Performed("Complete") \in Nat /\ Performed("Failed") \in Nat
      /\ Performed("GrantSession") \in Nat /\ Performed("DenySession") \in Nat
      /\ Adds(a, action, "Complete") \in {0, 1} /\ Adds(a, action, "Failed") \in {0, 1}
      /\ Adds(a, action, "GrantSession") \in {0, 1}
      /\ Adds(a, action, "DenySession") \in {0, 1}
  BY <1>1
<1>3. /\ Wait(mailbox, "vehicle", Denies) \in Nat /\ Wait(mailbox, "vehicle", Grants) \in Nat
      /\ Takes(a, "vehicle", Denies) \in {0, 1} /\ Takes(a, "vehicle", Grants) \in {0, 1}
      /\ Puts(a, action, "vehicle", Denies) \in {0, 1}
      /\ Puts(a, action, "vehicle", Grants) \in {0, 1}
  BY WaitType DEF MailInv, Takes, Puts
<1>4. CASE passes /\ Sent(a, action)
  <2>1. /\ Performed("Complete")' = Performed("Complete") + Adds(a, action, "Complete")
        /\ Performed("Failed")' = Performed("Failed") + Adds(a, action, "Failed")
        /\ Performed("GrantSession")'
             = Performed("GrantSession") + Adds(a, action, "GrantSession")
        /\ Performed("DenySession")'
             = Performed("DenySession") + Adds(a, action, "DenySession")
    BY <1>4 DEF Sent
  <2>2. /\ Wait(mailbox', "vehicle", Grants) = Wait(mailbox, "vehicle", Grants)
             - Takes(a, "vehicle", Grants) + Puts(a, action, "vehicle", Grants)
        /\ Wait(mailbox', "vehicle", Denies) = Wait(mailbox, "vehicle", Denies)
             - Takes(a, "vehicle", Denies) + Puts(a, action, "vehicle", Denies)
    BY <1>4 DEF Sent
  <2> QED BY <1>2, <1>3, <2>1, <2>2 DEF EarnedInv
<1>5. CASE passes /\ Lost(a, action)
  <2>1. /\ Performed("Complete")' = Performed("Complete") + Adds(a, action, "Complete")
        /\ Performed("Failed")' = Performed("Failed") + Adds(a, action, "Failed")
        /\ Performed("GrantSession")'
             = Performed("GrantSession") + Adds(a, action, "GrantSession")
        /\ Performed("DenySession")'
             = Performed("DenySession") + Adds(a, action, "DenySession")
    BY <1>5 DEF Lost
  <2>2. /\ Wait(mailbox', "vehicle", Grants)
             = Wait(mailbox, "vehicle", Grants) - Takes(a, "vehicle", Grants)
        /\ Wait(mailbox', "vehicle", Denies)
             = Wait(mailbox, "vehicle", Denies) - Takes(a, "vehicle", Denies)
    BY <1>5 DEF Lost
  <2> QED BY <1>2, <1>3, <2>1, <2>2 DEF EarnedInv
<1>6. CASE ~passes /\ Refused(a)
  <2>1. /\ Performed("Complete")' = Performed("Complete")
        /\ Performed("Failed")' = Performed("Failed")
        /\ Performed("GrantSession")' = Performed("GrantSession")
        /\ Performed("DenySession")' = Performed("DenySession")
        /\ Wait(mailbox', "vehicle", Grants)
             = Wait(mailbox, "vehicle", Grants) - Takes(a, "vehicle", Grants)
        /\ Wait(mailbox', "vehicle", Denies)
             = Wait(mailbox, "vehicle", Denies) - Takes(a, "vehicle", Denies)
    BY <1>6 DEF Refused
  <2> QED BY <1>2, <1>3, <2>1 DEF EarnedInv
<1> QED BY <1>4, <1>5, <1>6

-----------------------------------------------------------------------------
(* The steps of the fleet.                                                 *)

LEMMA VehicleKeeps ==
  ASSUME TypeOK, MailInv, OutcomeOnce, EarnedInv, VehicleStep
  PROVE  MailInv' /\ OutcomeOnce' /\ EarnedInv'
<1> DEFINE m == Head(mailbox["vehicle"])
           r == Reaction(m)
           ok == ("vehicle" \in gated => VehicleSpec(r.state))
<1>1. /\ mailbox["vehicle"] # <<>> /\ vehicle' = r.state /\ Act("vehicle", r.action, ok)
      /\ ok \in BOOLEAN
      /\ UNCHANGED <<gated, depots, posts, ticks>>
  BY DEF VehicleStep
<1>2. CountInv /\ vehicle \in VehicleStates
  BY DEF TypeOK, CountInv, VehicleStates
<1>3. /\ m \in Open
      /\ \/ r.action.topic \in Outcome /\ r.action.peer \in {"tms", "tester"}
         \/ r.action.topic = "RequestSession" /\ r.action.peer \in {"depot", "depot2"}
      /\ r.action.topic = "Complete" => m.topic = "GrantSession"
      /\ r.action.topic = "Failed" => m.topic = "DenySession" /\ vehicle.tried = 2
      /\ r.state.tried = 2 => m.topic = "DenySession" \/ vehicle.tried = 2
      /\ <<"vehicle", r.action.peer, r.action.topic>> \in Talk
      /\ Url(r.action.peer) \in Agents
           => Welcome(LetterOf("vehicle", r.action), Url(r.action.peer))
  BY <1>1, <1>2, VehicleActs
<1>4. m \in Letters /\ m = Head(mailbox["vehicle"])
  BY <1>3 DEF Open
<1>5. ok \/ gated # {}
  OBVIOUS
<1> HIDE DEF m, r, ok
<1>6. /\ MailInv'
      /\ \/ ok /\ Sent("vehicle", r.action)
         \/ ok /\ Lost("vehicle", r.action)
         \/ ~ok /\ Refused("vehicle")
  BY <1>1, <1>2, <1>3, Apart, ActEffect
<1>7. OpenTaken("vehicle") = 1
  BY <1>3, <1>4 DEF OpenTaken, Takes
<1>8. CASE r.action.topic \in Outcome /\ r.action.peer \in {"tms", "tester"}
  <2>1. Url(r.action.peer) = r.action.peer
    BY <1>8 DEF Url
  <2>2. OpenPut("vehicle", r.action) = 0 /\ Puts("vehicle", r.action, "vehicle", Denies) = 0
        /\ Puts("vehicle", r.action, "vehicle", Grants) = 0
    BY <1>8, <2>1 DEF OpenPut, Puts
  <2>3. <<"vehicle", r.action.peer>> \in Links
    BY <1>8 DEF Links
  <2>4. /\ OutcomeAdded("vehicle", r.action) = 1
        /\ Adds("vehicle", r.action, "DenySession") = 0
        /\ Adds("vehicle", r.action, "GrantSession") = 0
    BY <1>8, <2>3 DEF OutcomeAdded, Adds, Outcome
  <2>5. OutcomeOnce'
    BY <1>1, <1>5, <1>6, <1>7, <2>2, <2>4, OnceAct
  <2>6. /\ Adds("vehicle", r.action, "Complete") <= Takes("vehicle", "vehicle", Grants)
        /\ Adds("vehicle", r.action, "Failed") <= Takes("vehicle", "vehicle", Denies)
        /\ Adds("vehicle", r.action, "Failed") = 1 => vehicle.tried = 2
        /\ vehicle'.tried = 2
             => vehicle.tried = 2 \/ Takes("vehicle", "vehicle", Denies) = 1
    BY <1>1, <1>3, <1>4 DEF Adds, Takes, Grants, Denies
  <2>7. EarnedInv'
    BY <1>6, <2>2, <2>4, <2>6, EarnedAct
  <2> QED BY <1>6, <2>5, <2>7
<1>9. CASE r.action.topic = "RequestSession" /\ r.action.peer \in {"depot", "depot2"}
  <2>1. Url(r.action.peer) \in Depots /\ Depots \subseteq {"depot", "depot2"}
    BY <1>9, FleetAssumption DEF Url
  <2>2. LetterOf("vehicle", r.action) \in Open
    BY <1>3, <1>9, <2>1, Apart DEF Welcome, Open, LetterOf
  <2>3. OpenPut("vehicle", r.action) = 1
    <3>1. CASE Url(r.action.peer) = "depot"
      BY <2>1, <2>2, <3>1, Apart DEF OpenPut, Puts
    <3>2. CASE Url(r.action.peer) = "depot2"
      BY <2>1, <2>2, <3>2, Apart DEF OpenPut, Puts
    <3> QED BY <2>1, <3>1, <3>2
  <2>4. /\ Puts("vehicle", r.action, "vehicle", Denies) = 0
        /\ Puts("vehicle", r.action, "vehicle", Grants) = 0
    BY <2>1, Apart DEF Puts
  <2>5. /\ OutcomeAdded("vehicle", r.action) = 0
        /\ Adds("vehicle", r.action, "DenySession") = 0
        /\ Adds("vehicle", r.action, "GrantSession") = 0
        /\ Adds("vehicle", r.action, "Complete") = 0
        /\ Adds("vehicle", r.action, "Failed") = 0
    BY <1>9 DEF OutcomeAdded, Adds
  <2>6. OutcomeOnce'
    BY <1>1, <1>5, <1>6, <1>7, <2>3, <2>5, OnceAct
  <2>7. /\ Adds("vehicle", r.action, "Complete") <= Takes("vehicle", "vehicle", Grants)
        /\ Adds("vehicle", r.action, "Failed") <= Takes("vehicle", "vehicle", Denies)
        /\ vehicle'.tried = 2
             => vehicle.tried = 2 \/ Takes("vehicle", "vehicle", Denies) = 1
    BY <1>1, <1>3, <1>4, <2>5 DEF Takes, Denies
  <2>8. /\ Puts("vehicle", r.action, "vehicle", Denies)
             <= Adds("vehicle", r.action, "DenySession")
        /\ Puts("vehicle", r.action, "vehicle", Grants)
             <= Adds("vehicle", r.action, "GrantSession")
        /\ Adds("vehicle", r.action, "Failed") = 1 => vehicle.tried = 2
    BY <2>4, <2>5
  <2>9. EarnedInv'
    BY <1>6, <2>7, <2>8, EarnedAct
  <2> QED BY <1>6, <2>6, <2>9
<1> QED BY <1>3, <1>8, <1>9

LEMMA RequestKeeps ==
  ASSUME TypeOK, MailInv, OutcomeOnce, EarnedInv, NEW d \in Depots, Request(d)
  PROVE  MailInv' /\ OutcomeOnce' /\ EarnedInv'
<1> DEFINE m == Head(mailbox[d])
           action == OnRequestSession(depots[d], m)
           ok == (d \in gated => DepotSpec(depots[d], action))
<1>1. /\ mailbox[d] # <<>> /\ m.topic = "RequestSession" /\ Act(d, action, ok)
      /\ ok \in BOOLEAN
      /\ UNCHANGED <<gated, vehicle, depots, posts, ticks>>
  BY DEF Request
<1>2. CountInv
  BY DEF TypeOK, CountInv
<1>3. /\ m \in Open
      /\ action.topic \in {"GrantSession", "DenySession"}
      /\ action.peer = "vehicle"
      /\ <<d, action.peer, action.topic>> \in Talk
      /\ LetterOf(d, action) \in Open
      /\ Welcome(LetterOf(d, action), "vehicle")
  BY <1>1, DepotActs
<1>4. m = Head(mailbox[d])
  OBVIOUS
<1>5. ok \/ gated # {}
  OBVIOUS
<1> HIDE DEF m, action, ok
<1>6. d \in Agents /\ d # "vehicle" /\ d \in {"depot", "depot2"} /\ "vehicle" \in Agents
  BY Apart, FleetAssumption
<1>7. Url(action.peer) = "vehicle"
  BY <1>3 DEF Url
<1>8. /\ MailInv'
      /\ \/ ok /\ Sent(d, action)
         \/ ok /\ Lost(d, action)
         \/ ~ok /\ Refused(d)
  BY <1>1, <1>2, <1>3, <1>6, <1>7, ActEffect
<1>9. OpenTaken(d) = 1
  BY <1>3, <1>4, <1>6 DEF OpenTaken, Takes
<1>10. OpenPut(d, action) = 1
  BY <1>3, <1>6, <1>7 DEF OpenPut, Puts
<1>11. /\ OutcomeAdded(d, action) = 0
       /\ Adds(d, action, "Complete") = 0 /\ Adds(d, action, "Failed") = 0
  BY <1>3 DEF OutcomeAdded, Adds
<1>12. OutcomeOnce'
  BY <1>1, <1>5, <1>8, <1>9, <1>10, <1>11, OnceAct
<1>13. <<d, action.peer>> \in Links
  BY <1>3, <1>6 DEF Links
<1>14. /\ Puts(d, action, "vehicle", Denies) <= Adds(d, action, "DenySession")
       /\ Puts(d, action, "vehicle", Grants) <= Adds(d, action, "GrantSession")
  BY <1>3, <1>13 DEF Puts, Adds, Denies, Grants, LetterOf
<1>15. Takes(d, "vehicle", Grants) = 0 /\ Takes(d, "vehicle", Denies) = 0
  BY <1>6 DEF Takes
<1>16. EarnedInv'
  BY <1>1, <1>8, <1>11, <1>14, <1>15, EarnedAct
<1> QED BY <1>8, <1>12, <1>16

LEMMA PvKeeps ==
  ASSUME TypeOK, MailInv, OutcomeOnce, EarnedInv, PvStep
  PROVE  MailInv' /\ OutcomeOnce' /\ EarnedInv'
<1> DEFINE action == Say("depot", "PvUpdate")
<1>1. /\ mailbox["pv"] # <<>> /\ Act("pv", action, TRUE)
      /\ UNCHANGED <<gated, vehicle, depots, posts, ticks>>
  BY DEF PvStep
<1>2. CountInv
  BY DEF TypeOK, CountInv
<1>3. action.topic = "PvUpdate" /\ action.peer = "depot"
  BY DEF Say
<1> HIDE DEF action
<1>4. /\ "pv" \in Agents /\ "depot" \in Depots
      /\ <<"pv", action.peer, action.topic>> \in Talk /\ Url(action.peer) = "depot"
  BY <1>3, Apart, FleetAssumption DEF Talk, Url
<1>5. /\ Welcome(LetterOf("pv", action), "depot")
      /\ LetterOf("pv", action) \notin Open
      /\ LetterOf("pv", action) \notin Denies /\ LetterOf("pv", action) \notin Grants
  <2>1. LetterOf("pv", action) \in DepotMail /\ LetterOf("pv", action) \in Letters
    BY <1>3, <1>4 DEF LetterOf, DepotMail, Letters
  <2> QED BY <1>3, <2>1 DEF Welcome, LetterOf, Open, Denies, Grants
<1>6. MailInv' /\ (Sent("pv", action) \/ Lost("pv", action))
  BY <1>1, <1>2, <1>4, <1>5, ActEffect
<1>7. /\ OpenTaken("pv") = 0 /\ OpenPut("pv", action) = 0 /\ OutcomeAdded("pv", action) = 0
  BY <1>3, <1>5 DEF OpenTaken, Takes, OpenPut, Puts, OutcomeAdded, Adds
<1>8. OutcomeOnce'
  BY <1>1, <1>6, <1>7, OnceAct
<1>9. /\ Puts("pv", action, "vehicle", Denies) = 0 /\ Puts("pv", action, "vehicle", Grants) = 0
      /\ Takes("pv", "vehicle", Grants) = 0 /\ Takes("pv", "vehicle", Denies) = 0
      /\ Adds("pv", action, "Complete") = 0 /\ Adds("pv", action, "Failed") = 0
      /\ Adds("pv", action, "DenySession") = 0 /\ Adds("pv", action, "GrantSession") = 0
  BY <1>3, <1>5 DEF Puts, Takes, Adds
<1>10. EarnedInv'
  BY <1>1, <1>6, <1>9, EarnedAct
<1> QED BY <1>6, <1>8, <1>10


\* Steps that perform nothing: what they do to the mail decides.
LEMMA QuietKeeps ==
  ASSUME TypeOK, MailInv, OutcomeOnce, EarnedInv, MailInv', UNCHANGED <<gated, performed>>,
         Wait(mailbox', "vehicle", Denies) <= Wait(mailbox, "vehicle", Denies),
         Wait(mailbox', "vehicle", Grants) <= Wait(mailbox, "vehicle", Grants),
         vehicle'.tried = 2 => vehicle.tried = 2,
         posts' \in Nat,
         \/ faults' = faults /\ Flight(mailbox') - Flight(mailbox) = posts' - posts
         \/ faults' = faults + 1 /\ Flight(mailbox') - Flight(mailbox) <= posts' - posts
  PROVE  OutcomeOnce' /\ EarnedInv'
<1>1. ASSUME NEW topic PROVE Performed(topic)' = Performed(topic) /\ Performed(topic) \in Nat
  BY PerformedType DEF Performed, Times, TypeOK, CountInv
<1>2. ASSUME NEW b, NEW S PROVE Wait(mailbox, b, S) \in Nat /\ Wait(mailbox', b, S) \in Nat
  BY WaitType DEF MailInv
<1>3. Flight(mailbox) \in Nat /\ Flight(mailbox') \in Nat
  BY <1>2 DEF Flight
<1>4. Outcomes' = Outcomes /\ Outcomes \in Nat
  BY <1>1 DEF Outcomes
<1>5. faults \in Nat /\ posts \in Nat
  BY FleetAssumption DEF TypeOK
<1>6. OutcomeOnce'
  <2>1. /\ Outcomes + Flight(mailbox) <= posts
        /\ gated = {} /\ faults = 0 => Outcomes + Flight(mailbox) = posts
    BY FlightMeans DEF OutcomeOnce
  <2>2. SUFFICES /\ Outcomes' + Flight(mailbox') <= posts'
                 /\ gated = {} /\ faults' = 0 => Outcomes' + Flight(mailbox') = posts'
    BY FlightMeans DEF OutcomeOnce
  <2> QED BY <1>3, <1>4, <1>5, <2>1
<1>7. EarnedInv'
  <2>1. /\ Performed("Complete")' = Performed("Complete") /\ Performed("Complete") \in Nat
        /\ Performed("Failed")' = Performed("Failed") /\ Performed("Failed") \in Nat
        /\ Performed("GrantSession")' = Performed("GrantSession")
        /\ Performed("GrantSession") \in Nat
        /\ Performed("DenySession")' = Performed("DenySession")
        /\ Performed("DenySession") \in Nat
    BY <1>1
  <2>2. /\ Wait(mailbox, "vehicle", Denies) \in Nat /\ Wait(mailbox', "vehicle", Denies) \in Nat
        /\ Wait(mailbox, "vehicle", Grants) \in Nat /\ Wait(mailbox', "vehicle", Grants) \in Nat
    BY <1>2
  <2> QED BY <2>1, <2>2 DEF EarnedInv
<1> QED BY <1>6, <1>7

\* A message that an agent takes and that asks for nothing.
LEMMA TakenQuietly ==
  ASSUME TypeOK, MailInv, OutcomeOnce, EarnedInv, NEW a \in Agents, mailbox[a] # <<>>,
         a # "vehicle", a \in Depots => Head(mailbox[a]) \notin Open,
         mailbox' = Take(a), UNCHANGED <<gated, performed, vehicle, posts, faults>>
  PROVE  MailInv' /\ OutcomeOnce' /\ EarnedInv'
<1>1. /\ MailInv'
      /\ \A b, S : Wait(mailbox', b, S) =
           Wait(mailbox, b, S) - (IF b = a /\ Head(mailbox[a]) \in S THEN 1 ELSE 0)
  BY Taken DEF MailInv
<1>2. ASSUME NEW b, NEW S PROVE Wait(mailbox, b, S) \in Nat
  BY WaitType DEF MailInv
<1>3. ASSUME NEW S PROVE Wait(mailbox', "vehicle", S) = Wait(mailbox, "vehicle", S)
  BY <1>1, <1>2
<1>4. ASSUME NEW b \in {"vehicle", "depot", "depot2"}
      PROVE  Wait(mailbox', b, Open) = Wait(mailbox, b, Open)
  <2>1. CASE b = a
    <3>1. a \in Depots
      BY <2>1, Apart
    <3> QED BY <1>1, <1>2, <2>1, <3>1
  <2>2. CASE b # a
    BY <1>1, <1>2, <2>2
  <2> QED BY <2>1, <2>2
<1>5. Flight(mailbox') = Flight(mailbox) /\ Flight(mailbox) \in Nat
  BY <1>2, <1>4 DEF Flight
<1>6. posts \in Nat
  BY FleetAssumption DEF TypeOK
<1>7. /\ Wait(mailbox', "vehicle", Denies) <= Wait(mailbox, "vehicle", Denies)
      /\ Wait(mailbox', "vehicle", Grants) <= Wait(mailbox, "vehicle", Grants)
  BY <1>2, <1>3
<1> QED BY <1>1, <1>5, <1>6, <1>7, QuietKeeps

LEMMA PvUpdateKeeps ==
  ASSUME TypeOK, MailInv, OutcomeOnce, EarnedInv, NEW d \in Depots, PvUpdate(d)
  PROVE  MailInv' /\ OutcomeOnce' /\ EarnedInv'
<1>1. d \in Agents /\ d # "vehicle"
  BY Apart
<1>2. Head(mailbox[d]) \notin Open
  BY DEF PvUpdate, Open
<1> QED BY <1>1, <1>2, TakenQuietly DEF PvUpdate

LEMMA TmsKeeps ==
  ASSUME TypeOK, MailInv, OutcomeOnce, EarnedInv, TmsStep
  PROVE  MailInv' /\ OutcomeOnce' /\ EarnedInv'
<1>1. "tms" \in Agents /\ "tms" \notin Depots
  BY Apart
<1> QED BY <1>1, TakenQuietly DEF TmsStep

\* A letter from outside.
LEMMA Arrived ==
  ASSUME TypeOK, MailInv, OutcomeOnce, EarnedInv, NEW to \in Agents, NEW topic, NEW from,
         Arrive(to, topic, from), UNCHANGED <<gated, performed, vehicle, faults>>,
         NEW letter, letter = [topic |-> topic, from |-> from], Welcome(letter, to),
         letter \notin Denies, letter \notin Grants,
         posts' = posts + (IF to \in Depots \cup {"vehicle"} /\ letter \in Open THEN 1 ELSE 0)
  PROVE  MailInv' /\ OutcomeOnce' /\ EarnedInv'
<1> DEFINE one == IF to \in Depots \cup {"vehicle"} /\ letter \in Open THEN 1 ELSE 0
<1>1. mailbox' = With(mailbox, to, letter)
  BY DEF Arrive, With
<1>2. /\ MailInv'
      /\ \A b, S : Wait(mailbox', b, S) =
           Wait(mailbox, b, S) + (IF b = to /\ letter \in S THEN 1 ELSE 0)
  BY <1>1, Delivered DEF MailInv
<1>3. ASSUME NEW b, NEW S PROVE Wait(mailbox, b, S) \in Nat
  BY WaitType DEF MailInv
<1>4. Flight(mailbox') = Flight(mailbox) + one
  <2>1. to \in {"vehicle", "depot", "depot2"} <=> to \in Depots \cup {"vehicle"}
    BY FleetAssumption, Apart
  <2>2. /\ Wait(mailbox, "vehicle", Open) \in Nat /\ Wait(mailbox, "depot", Open) \in Nat
        /\ Wait(mailbox, "depot2", Open) \in Nat
    BY <1>3
  <2>3. ASSUME NEW b
        PROVE  Wait(mailbox', b, Open) =
                 Wait(mailbox, b, Open) + (IF b = to /\ letter \in Open THEN 1 ELSE 0)
    BY <1>2
  <2> QED BY <2>1, <2>2, <2>3 DEF Flight
<1>5. Flight(mailbox) \in Nat /\ posts \in Nat
  <2>1. posts \in Nat
    BY FleetAssumption DEF TypeOK
  <2> QED BY <1>3, <2>1 DEF Flight
<1>6. /\ Wait(mailbox', "vehicle", Denies) <= Wait(mailbox, "vehicle", Denies)
      /\ Wait(mailbox', "vehicle", Grants) <= Wait(mailbox, "vehicle", Grants)
  BY <1>2, <1>3
<1>7. one \in {0, 1} /\ posts' = posts + one
  OBVIOUS
<1> HIDE DEF one
<1>8. posts' \in Nat /\ Flight(mailbox') - Flight(mailbox) = posts' - posts
  BY <1>4, <1>5, <1>7
<1> QED BY <1>2, <1>6, <1>8, QuietKeeps

LEMMA PostKeeps ==
  ASSUME TypeOK, MailInv, OutcomeOnce, EarnedInv, Post
  PROVE  MailInv' /\ OutcomeOnce' /\ EarnedInv'
<1>1. posts' = posts + 1 /\ UNCHANGED <<gated, performed, vehicle, faults>>
  BY DEF Post, counts
<1>2. ASSUME NEW from \in {"tms", "tester"}, Arrive("vehicle", "Dispatch", from)
      PROVE  MailInv' /\ OutcomeOnce' /\ EarnedInv'
  <2> DEFINE letter == [topic |-> "Dispatch", from |-> from]
  <2>1. letter \in VehicleMail /\ letter \in Letters /\ "vehicle" \in Agents
    BY <1>2, Apart DEF VehicleMail, Letters
  <2>2. Welcome(letter, "vehicle") /\ letter \in Open
    BY <2>1, Apart DEF Welcome, Open
  <2>3. letter \notin Denies /\ letter \notin Grants
    BY DEF Denies, Grants
  <2> QED BY <1>1, <1>2, <2>1, <2>2, <2>3, Arrived
<1>3. ASSUME Arrive("depot", "RequestSession", "vehicle")
      PROVE  MailInv' /\ OutcomeOnce' /\ EarnedInv'
  <2> DEFINE letter == [topic |-> "RequestSession", from |-> "vehicle"]
  <2>1. letter \in DepotMail /\ letter \in Letters /\ "depot" \in Agents /\ "depot" \in Depots
    BY FleetAssumption, Apart DEF DepotMail, Letters
  <2>2. Welcome(letter, "depot") /\ letter \in Open
    BY <2>1, Apart DEF Welcome, Open
  <2>3. letter \notin Denies /\ letter \notin Grants
    BY DEF Denies, Grants
  <2> QED BY <1>1, <1>3, <2>1, <2>2, <2>3, Arrived
<1> QED BY <1>2, <1>3 DEF Post

LEMMA TickKeeps ==
  ASSUME TypeOK, MailInv, OutcomeOnce, EarnedInv, Tick
  PROVE  MailInv' /\ OutcomeOnce' /\ EarnedInv'
<1> DEFINE letter == [topic |-> "Tick", from |-> "self"]
<1>1. letter \in PvMail /\ letter \in Letters /\ "pv" \in Agents /\ "pv" \notin Depots
  BY Apart DEF PvMail, Letters
<1>2. Welcome(letter, "pv") /\ letter \notin Denies /\ letter \notin Grants
  BY <1>1 DEF Welcome, Denies, Grants
<1>3. Arrive("pv", "Tick", "self") /\ UNCHANGED <<gated, performed, vehicle, posts, faults>>
  BY DEF Tick, counts
<1>4. posts' = posts + 0
  BY <1>3, FleetAssumption DEF TypeOK
<1> QED BY <1>1, <1>2, <1>3, <1>4, Arrived

LEMMA RestartKeeps ==
  ASSUME TypeOK, MailInv, OutcomeOnce, EarnedInv, NEW a \in Agents, Restart(a)
  PROVE  MailInv' /\ OutcomeOnce' /\ EarnedInv'
<1>1. /\ mailbox' = [mailbox EXCEPT ![a] = <<>>] /\ faults' = faults + 1
      /\ UNCHANGED <<gated, performed, posts>>
  BY DEF Restart, counts
<1>2. ASSUME NEW T PROVE <<>> \in Seq(T)
  BY EmptySeq
<1>3. /\ mailbox' \in [Agents -> Seq(Letters)]
      /\ \A b \in Agents : mailbox'[b] = IF b = a THEN <<>> ELSE mailbox[b]
  BY <1>1, <1>2 DEF MailInv, Mailed
<1>4. MailInv'
  BY <1>2, <1>3, Apart DEF MailInv, Mailed
<1>5. ASSUME NEW b, NEW S PROVE Wait(mailbox, b, S) \in Nat /\ Wait(mailbox', b, S) \in Nat
  BY <1>4, WaitType DEF MailInv
<1>6. ASSUME NEW b, NEW S PROVE Wait(mailbox', b, S) <= Wait(mailbox, b, S)
  <2>1. CASE b = a
    <3>1. Wait(mailbox', b, S) = 0
      BY <1>3, <2>1, HitsEmpty DEF Wait
    <3> QED BY <1>5, <3>1
  <2>2. CASE b # a
    <3>1. Wait(mailbox', b, S) = Wait(mailbox, b, S)
      BY <1>3, <2>2 DEF Wait
    <3> QED BY <1>5, <3>1
  <2> QED BY <2>1, <2>2
<1>7. Flight(mailbox') <= Flight(mailbox) /\ Flight(mailbox') \in Nat /\ Flight(mailbox) \in Nat
  <2>1. /\ Wait(mailbox', "vehicle", Open) <= Wait(mailbox, "vehicle", Open)
        /\ Wait(mailbox', "depot", Open) <= Wait(mailbox, "depot", Open)
        /\ Wait(mailbox', "depot2", Open) <= Wait(mailbox, "depot2", Open)
    BY <1>6
  <2>2. /\ Wait(mailbox, "vehicle", Open) \in Nat /\ Wait(mailbox', "vehicle", Open) \in Nat
        /\ Wait(mailbox, "depot", Open) \in Nat /\ Wait(mailbox', "depot", Open) \in Nat
        /\ Wait(mailbox, "depot2", Open) \in Nat /\ Wait(mailbox', "depot2", Open) \in Nat
    BY <1>5
  <2> QED BY <2>1, <2>2 DEF Flight
<1>8. vehicle'.tried = 2 => vehicle.tried = 2
  <2>1. vehicle \in VehicleStates
    BY DEF TypeOK, VehicleStates
  <2>2. [vehicle EXCEPT !.tried = 0].tried = 0
    BY <2>1 DEF VehicleStates
  <2> QED BY <2>2 DEF Restart
<1>9. posts \in Nat
  BY FleetAssumption DEF TypeOK
<1> QED BY <1>1, <1>4, <1>6, <1>7, <1>8, <1>9, QuietKeeps

-----------------------------------------------------------------------------
LEMMA FleetInit == Init => FleetInv
<1> SUFFICES ASSUME Init PROVE FleetInv
  OBVIOUS
<1>1. ASSUME NEW T PROVE <<>> \in Seq(T)
  BY EmptySeq
<1>2. mailbox = [a \in Agents |-> <<>>]
  BY DEF Init
<1>3. MailInv
  BY <1>1, <1>2, Apart DEF MailInv, Mailed
<1>4. ASSUME NEW b, NEW S PROVE Wait(mailbox, b, S) = 0
  BY <1>2, HitsEmpty DEF Wait
<1>5. ASSUME NEW topic PROVE Performed(topic) = 0
  BY DEF Init, Performed, Times
<1>6. /\ vehicle \in VehicleStates /\ vehicle.tried = 0
      /\ depots \in [Depots -> DepotStates]
  <2>1. vehicle \in [soc : Int, reserve : Int, energy : Int, tried : {0}]
    BY FleetAssumption DEF Init
  <2>2. ASSUME NEW s \in DepotStarts PROVE s \in DepotStates
    <3>1. s \in [current : Nat, budget : Nat, pv : {0}, requested : Nat]
      BY FleetAssumption
    <3> QED BY <3>1 DEF DepotStates
  <2> QED BY <2>1, <2>2 DEF Init, VehicleStates
<1>7. TypeOK
  BY <1>3, <1>6, FleetAssumption DEF TypeOK, Init, MailInv, Mailed, VehicleStates, DepotStates
<1>8. Outcomes = 0 /\ Flight(mailbox) = 0
  BY <1>4, <1>5 DEF Outcomes, Flight
<1>9. OutcomeOnce
  BY <1>8, FlightMeans DEF OutcomeOnce, Init
<1>10. EarnedInv
  BY <1>4, <1>5, <1>6 DEF EarnedInv
<1> QED BY <1>3, <1>7, <1>9, <1>10 DEF FleetInv

LEMMA FleetStep == FleetInv /\ [Next]_vars => FleetInv'
<1> SUFFICES ASSUME TypeOK, MailInv, OutcomeOnce, EarnedInv, [Next]_vars
             PROVE  MailInv' /\ OutcomeOnce' /\ EarnedInv'
  BY TypeStep DEF FleetInv
<1>1. CASE VehicleStep
  BY <1>1, VehicleKeeps
<1>2. CASE PvStep
  BY <1>2, PvKeeps
<1>3. CASE TmsStep
  BY <1>3, TmsKeeps
<1>4. ASSUME NEW d \in Depots, DepotStep(d) PROVE MailInv' /\ OutcomeOnce' /\ EarnedInv'
  BY <1>4, RequestKeeps, PvUpdateKeeps DEF DepotStep
<1>5. CASE Post
  BY <1>5, PostKeeps
<1>6. CASE Tick
  BY <1>6, TickKeeps
<1>7. ASSUME NEW a \in Agents, Restart(a) PROVE MailInv' /\ OutcomeOnce' /\ EarnedInv'
  BY <1>7, RestartKeeps
<1>8. CASE UNCHANGED vars
  <2>1. /\ MailInv' /\ UNCHANGED <<gated, performed, vehicle, posts, faults, mailbox>>
    BY <1>8 DEF MailInv, vars
  <2>2. Flight(mailbox) \in Nat /\ posts \in Nat /\ Wait(mailbox, "vehicle", Denies) \in Nat
        /\ Wait(mailbox, "vehicle", Grants) \in Nat
    <3>1. posts \in Nat
      BY FleetAssumption DEF TypeOK
    <3>2. ASSUME NEW b, NEW S PROVE Wait(mailbox, b, S) \in Nat
      BY WaitType DEF MailInv
    <3> QED BY <3>1, <3>2 DEF Flight
  <2> QED BY <2>1, <2>2, QuietKeeps
<1> QED BY <1>1, <1>2, <1>3, <1>4, <1>5, <1>6, <1>7, <1>8 DEF Next

LEMMA FleetInvariant == FairSpec => []FleetInv
BY FleetInit, FleetStep, PTL DEF FairSpec

\* The types, the count of depots asked and the gate before every effect
\* (vehicle.lex:61-83).
THEOREM FleetTypes == FairSpec => []TypeOK
BY FleetInvariant, PTL DEF FleetInv

\* A dispatch or a request comes to at most one outcome, and without gates and
\* faults to exactly one or is under way, however its messages interleave with
\* those of others, and whatever is lost or restarted
\* (vehicle.lex:26-83, depot.lex:23-40).
THEOREM OutcomeOnceHolds == FairSpec => []OutcomeOnce
BY FleetInvariant, PTL DEF FleetInv

\* The vehicle gives up only after a denial more than it gave up before, and
\* completes only what was granted, though all dispatches share its count of
\* denials and each resets it (vehicle.lex:50-83).
THEOREM OutcomeEarnedHolds == FairSpec => []OutcomeEarned
<1>1. FleetInv => OutcomeEarned
  <2> SUFFICES ASSUME TypeOK, MailInv, EarnedInv PROVE OutcomeEarned
    BY DEF FleetInv
  <2>1. ASSUME NEW topic PROVE Performed(topic) \in Nat
    BY PerformedType DEF TypeOK, CountInv
  <2>2. /\ Wait(mailbox, "vehicle", Denies) \in Nat /\ Wait(mailbox, "vehicle", Grants) \in Nat
    BY WaitType DEF MailInv
  <2>3. /\ Performed("Complete") \in Nat /\ Performed("Failed") \in Nat
        /\ Performed("GrantSession") \in Nat /\ Performed("DenySession") \in Nat
    BY <2>1
  <2> QED BY <2>2, <2>3 DEF EarnedInv, OutcomeEarned
<1> QED BY <1>1, FleetInvariant, PTL

-----------------------------------------------------------------------------
(* Why no chain of messages goes on for ever.  The work that waits is       *)
(* measured by the messages each kind can still become: a dispatch a        *)
(* request, that a word of a depot, that an outcome; besides, a denial can  *)
(* become another request, which costs the vehicle one of the two denials   *)
(* it counts.                                                              *)

Of(topics) == {m \in Letters : m.topic \in topics}
Asks == Of({"Dispatch"})
Words == Of({"GrantSession", "DenySession"})
Requests == Of({"RequestSession"})
Updates == Of({"PvUpdate"})

Load(boxes) ==
  6 * Wait(boxes, "vehicle", Asks) + 2 * Wait(boxes, "vehicle", Words)
    + 3 * Wait(boxes, "depot", Requests) + 3 * Wait(boxes, "depot2", Requests)
    + Wait(boxes, "depot", Updates) + Wait(boxes, "depot2", Updates)
    + Wait(boxes, "tms", Letters) + 2 * Wait(boxes, "pv", Letters)

Patience == 2 - vehicle.tried
Work == Load(mailbox) + 2 * Patience

\* No agent passes work on for ever: each of its steps leaves less to do than
\* there was.  Only a message from outside, a tick and a restart of the vehicle,
\* which forgets the denials it has counted, bring new work, and a bounded
\* amount of it (vehicle.lex:26-83, depot.lex:23-52, pv.lex:20-27).
ChainsShrink ==
  [][/\ VehicleStep \/ PvStep \/ TmsStep \/ (\E d \in Depots : DepotStep(d)) => Work' < Work
     /\ Post => Work' <= Work + 6
     /\ Tick => Work' <= Work + 2
     /\ (\E a \in Agents : Restart(a)) => Work' <= Work + 4]_vars

\* How often the vehicle has asked for power.
Asked == proposed[<<"vehicle", "depot", "RequestSession">>]
           + proposed[<<"vehicle", "depot2", "RequestSession">>]

\* A message from outside makes the vehicle ask for power at most twice, though
\* every dispatch resets the count of denials that the others go by; at its
\* start and at a restart it may ask twice more, for a request that somebody
\* made in its name (vehicle.lex:26-83).
AskedFew == Asked <= 2 * (posts + faults + 1)

\* What the vehicle may still ask for.
AskedInv == Asked + Patience + 2 * Wait(mailbox, "vehicle", Asks) <= 2 * (posts + faults + 1)

LEMMA FleetFacts ==
  ASSUME FleetInv
  PROVE  /\ TypeOK /\ MailInv /\ CountInv
         /\ vehicle \in VehicleStates /\ vehicle.tried \in 0..2
         /\ posts \in Nat /\ faults \in Nat
<1>1. TypeOK /\ MailInv
  BY DEF FleetInv
<1>2. vehicle \in VehicleStates /\ CountInv
  BY <1>1 DEF TypeOK, VehicleStates, CountInv
<1>3. posts \in Nat /\ faults \in Nat
  BY <1>1, FleetAssumption DEF TypeOK
<1> QED BY <1>1, <1>2, <1>3 DEF VehicleStates

LEMMA WorkTypes ==
  ASSUME TypeOK, MailInv
  PROVE  Load(mailbox) \in Nat /\ Patience \in 0..2 /\ Work \in Nat
<1>1. ASSUME NEW b, NEW S PROVE Wait(mailbox, b, S) \in Nat
  BY WaitType DEF MailInv
<1>2. Patience \in 0..2
  BY DEF TypeOK, Patience
<1>3. Load(mailbox) \in Nat
  BY <1>1 DEF Load
<1> QED BY <1>2, <1>3 DEF Work

LoadTaken(a) ==
  6 * Takes(a, "vehicle", Asks) + 2 * Takes(a, "vehicle", Words)
    + 3 * Takes(a, "depot", Requests) + 3 * Takes(a, "depot2", Requests)
    + Takes(a, "depot", Updates) + Takes(a, "depot2", Updates)
    + Takes(a, "tms", Letters) + 2 * Takes(a, "pv", Letters)
LoadPut(a, action) ==
  6 * Puts(a, action, "vehicle", Asks) + 2 * Puts(a, action, "vehicle", Words)
    + 3 * Puts(a, action, "depot", Requests) + 3 * Puts(a, action, "depot2", Requests)
    + Puts(a, action, "depot", Updates) + Puts(a, action, "depot2", Updates)
    + Puts(a, action, "tms", Letters) + 2 * Puts(a, action, "pv", Letters)

\* What a step of agent a does to the load.
LEMMA LoadAct ==
  ASSUME MailInv, MailInv', NEW a, NEW action, NEW passes,
         \/ passes /\ Sent(a, action)
         \/ passes /\ Lost(a, action)
         \/ ~passes /\ Refused(a)
  PROVE  /\ Load(mailbox') <= Load(mailbox) - LoadTaken(a) + LoadPut(a, action)
         /\ Load(mailbox) \in Nat /\ Load(mailbox') \in Nat
         /\ LoadTaken(a) \in Nat /\ LoadPut(a, action) \in Nat
<1> DEFINE Bounded(b, S) ==
      /\ Wait(mailbox, b, S) \in Nat /\ Wait(mailbox', b, S) \in Nat
      /\ Takes(a, b, S) \in Nat /\ Puts(a, action, b, S) \in Nat
      /\ Wait(mailbox', b, S) <= Wait(mailbox, b, S) - Takes(a, b, S) + Puts(a, action, b, S)
<1>1. ASSUME NEW b, NEW S PROVE Bounded(b, S)
  <2>1. Wait(mailbox, b, S) \in Nat /\ Wait(mailbox', b, S) \in Nat
    BY WaitType DEF MailInv
  <2>2. Takes(a, b, S) \in Nat /\ Puts(a, action, b, S) \in Nat
    BY DEF Takes, Puts
  <2>3. \/ Wait(mailbox', b, S) = Wait(mailbox, b, S) - Takes(a, b, S) + Puts(a, action, b, S)
        \/ Wait(mailbox', b, S) = Wait(mailbox, b, S) - Takes(a, b, S)
    BY DEF Sent, Lost, Refused
  <2> QED BY <2>1, <2>2, <2>3
<1>2. /\ Bounded("vehicle", Asks) /\ Bounded("vehicle", Words)
      /\ Bounded("depot", Requests) /\ Bounded("depot2", Requests)
      /\ Bounded("depot", Updates) /\ Bounded("depot2", Updates)
      /\ Bounded("tms", Letters) /\ Bounded("pv", Letters)
  BY <1>1
<1> QED BY <1>2 DEF Load, LoadTaken, LoadPut

LEMMA LoadTook ==
  ASSUME MailInv, NEW a, NEW boxes,
         \A b, S : Wait(boxes, b, S) = Wait(mailbox, b, S) - Takes(a, b, S)
  PROVE  Load(boxes) = Load(mailbox) - LoadTaken(a) /\ Load(mailbox) \in Nat
<1> DEFINE Bounded(b, S) ==
      /\ Wait(mailbox, b, S) \in Nat /\ Takes(a, b, S) \in Nat
      /\ Wait(boxes, b, S) = Wait(mailbox, b, S) - Takes(a, b, S)
<1>1. ASSUME NEW b, NEW S PROVE Bounded(b, S)
  BY WaitType DEF MailInv, Takes
<1>2. /\ Bounded("vehicle", Asks) /\ Bounded("vehicle", Words)
      /\ Bounded("depot", Requests) /\ Bounded("depot2", Requests)
      /\ Bounded("depot", Updates) /\ Bounded("depot2", Updates)
      /\ Bounded("tms", Letters) /\ Bounded("pv", Letters)
  BY <1>1
<1> QED BY <1>2 DEF Load, LoadTaken

\* What a message weighs.
LEMMA TakenWeighs ==
  ASSUME MailInv, NEW a \in Agents, mailbox[a] # <<>>, NEW m, m = Head(mailbox[a])
  PROVE  /\ a = "vehicle" => \/ m \in Asks /\ m \notin Words /\ LoadTaken(a) = 6
                             \/ m \in Words /\ m \notin Asks /\ LoadTaken(a) = 2
         /\ a \in Depots => \/ m \in Requests /\ LoadTaken(a) = 3
                            \/ m \in Updates /\ LoadTaken(a) = 1
         /\ a = "tms" => LoadTaken(a) = 1
         /\ a = "pv" => LoadTaken(a) = 2
<1>1. /\ m \in Letters /\ (a = "vehicle" => m \in VehicleMail)
      /\ (a \in Depots => m \in DepotMail)
  BY Taken
<1>2. CASE a = "vehicle"
  <2>1. \/ m \in Asks /\ m \notin Words
        \/ m \in Words /\ m \notin Asks
    BY <1>1, <1>2 DEF VehicleMail, Asks, Words, Of
  <2>2. /\ Takes(a, "depot", Requests) = 0 /\ Takes(a, "depot2", Requests) = 0
        /\ Takes(a, "depot", Updates) = 0 /\ Takes(a, "depot2", Updates) = 0
        /\ Takes(a, "tms", Letters) = 0 /\ Takes(a, "pv", Letters) = 0
        /\ Takes(a, "vehicle", Asks) = (IF m \in Asks THEN 1 ELSE 0)
        /\ Takes(a, "vehicle", Words) = (IF m \in Words THEN 1 ELSE 0)
    BY <1>2 DEF Takes
  <2> QED BY <1>2, <2>1, <2>2, Apart DEF LoadTaken
<1>3. CASE a \in Depots
  <2>1. a \in {"depot", "depot2"}
    BY <1>3, FleetAssumption
  <2>2. \/ m \in Requests /\ m \notin Updates
        \/ m \in Updates /\ m \notin Requests
    BY <1>1, <1>3 DEF DepotMail, Requests, Updates, Of
  <2>3. /\ Takes(a, "vehicle", Asks) = 0 /\ Takes(a, "vehicle", Words) = 0
        /\ Takes(a, "tms", Letters) = 0 /\ Takes(a, "pv", Letters) = 0
        /\ \A b \in {"depot", "depot2"} :
             /\ Takes(a, b, Requests) = (IF b = a /\ m \in Requests THEN 1 ELSE 0)
             /\ Takes(a, b, Updates) = (IF b = a /\ m \in Updates THEN 1 ELSE 0)
    BY <2>1 DEF Takes
  <2> QED BY <1>3, <2>1, <2>2, <2>3, Apart DEF LoadTaken
<1>4. CASE a \in {"tms", "pv"}
  <2>1. /\ Takes(a, "vehicle", Asks) = 0 /\ Takes(a, "vehicle", Words) = 0
        /\ Takes(a, "depot", Requests) = 0 /\ Takes(a, "depot2", Requests) = 0
        /\ Takes(a, "depot", Updates) = 0 /\ Takes(a, "depot2", Updates) = 0
        /\ Takes(a, "tms", Letters) = (IF a = "tms" THEN 1 ELSE 0)
        /\ Takes(a, "pv", Letters) = (IF a = "pv" THEN 1 ELSE 0)
    BY <1>1, <1>4 DEF Takes
  <2> QED BY <1>4, <2>1, Apart DEF LoadTaken
<1> QED BY <1>2, <1>3, <1>4, Apart

LEMMA PutWeighs ==
  ASSUME NEW a, NEW action, NEW to, to = Url(action.peer)
  PROVE  /\ action.topic \in Outcome \cup {"RequestSession", "PvUpdate"}
              => LetterOf(a, action) \notin Asks \cup Words
         /\ to \in {"tms", "tester"} => LoadPut(a, action) <= 1
         /\ to \in {"depot", "depot2"} =>
              /\ LoadPut(a, action) <= 3
              /\ action.topic = "PvUpdate" => LoadPut(a, action) <= 1
         /\ to = "vehicle" /\ action.topic # "Dispatch" => LoadPut(a, action) <= 2
<1> DEFINE letter == LetterOf(a, action)
<1>0. letter.topic = action.topic
  BY DEF LetterOf
<1>1. /\ \A b, S : Puts(a, action, b, S) \in {0, 1}
      /\ \A b, S : b # to => Puts(a, action, b, S) = 0
      /\ \A b, S : letter \notin S => Puts(a, action, b, S) = 0
  BY DEF Puts
<1>2. /\ letter \in Asks => action.topic = "Dispatch"
      /\ letter \in Words => action.topic \in {"GrantSession", "DenySession"}
      /\ letter \in Requests => action.topic = "RequestSession"
      /\ letter \in Updates => action.topic = "PvUpdate"
  BY <1>0 DEF Asks, Words, Requests, Updates, Of
<1> HIDE DEF letter
<1>3. letter = LetterOf(a, action)
  BY DEF letter
<1>4. action.topic \in Outcome \cup {"RequestSession", "PvUpdate"} => letter \notin Asks \cup Words
  BY <1>2 DEF Outcome
<1>5. ASSUME to \in {"tms", "tester"} PROVE LoadPut(a, action) <= 1
  <2>1. /\ Puts(a, action, "vehicle", Asks) = 0 /\ Puts(a, action, "vehicle", Words) = 0
        /\ Puts(a, action, "depot", Requests) = 0 /\ Puts(a, action, "depot2", Requests) = 0
        /\ Puts(a, action, "depot", Updates) = 0 /\ Puts(a, action, "depot2", Updates) = 0
        /\ Puts(a, action, "tms", Letters) \in {0, 1} /\ Puts(a, action, "pv", Letters) = 0
    BY <1>1, <1>5
  <2> QED BY <2>1 DEF LoadPut
<1>6. ASSUME to \in {"depot", "depot2"}
      PROVE  /\ LoadPut(a, action) <= 3
             /\ action.topic = "PvUpdate" => LoadPut(a, action) <= 1
  <2>1. /\ Puts(a, action, "vehicle", Asks) = 0 /\ Puts(a, action, "vehicle", Words) = 0
        /\ Puts(a, action, "tms", Letters) = 0 /\ Puts(a, action, "pv", Letters) = 0
    BY <1>1, <1>6
  <2>2. /\ Puts(a, action, "depot", Requests) \in {0, 1}
        /\ Puts(a, action, "depot2", Requests) \in {0, 1}
        /\ Puts(a, action, "depot", Updates) \in {0, 1}
        /\ Puts(a, action, "depot2", Updates) \in {0, 1}
        /\ \/ Puts(a, action, "depot", Requests) = 0 /\ Puts(a, action, "depot", Updates) = 0
           \/ Puts(a, action, "depot2", Requests) = 0 /\ Puts(a, action, "depot2", Updates) = 0
    BY <1>1, <1>6
  <2>3. \/ /\ Puts(a, action, "depot", Requests) = 0 /\ Puts(a, action, "depot2", Requests) = 0
        \/ /\ Puts(a, action, "depot", Updates) = 0 /\ Puts(a, action, "depot2", Updates) = 0
           /\ action.topic # "PvUpdate"
    BY <1>1, <1>2
  <2> QED BY <2>1, <2>2, <2>3 DEF LoadPut
<1>7. ASSUME to = "vehicle", action.topic # "Dispatch" PROVE LoadPut(a, action) <= 2
  <2>1. /\ Puts(a, action, "vehicle", Asks) = 0 /\ Puts(a, action, "vehicle", Words) \in {0, 1}
        /\ Puts(a, action, "depot", Requests) = 0 /\ Puts(a, action, "depot2", Requests) = 0
        /\ Puts(a, action, "depot", Updates) = 0 /\ Puts(a, action, "depot2", Updates) = 0
        /\ Puts(a, action, "tms", Letters) = 0 /\ Puts(a, action, "pv", Letters) = 0
    BY <1>1, <1>2, <1>7
  <2> QED BY <2>1 DEF LoadPut
<1> QED BY <1>3, <1>4, <1>5, <1>6, <1>7

\* What a message costs the vehicle's patience.
LEMMA Reacts ==
  ASSUME TypeOK, NEW m, NEW r, r = Reaction(m), m \in Asks \cup Words
  PROVE  /\ r.state.tried \in 0..2
         /\ \/ /\ r.action.topic \in Outcome /\ r.action.peer \in {m.from, "tms"}
               /\ m \in Words => r.state.tried = vehicle.tried
            \/ /\ r.action.topic = "RequestSession" /\ r.action.peer \in {"depot", "depot2"}
               /\ IF m \in Asks THEN r.state.tried = 1
                                ELSE r.state.tried = vehicle.tried + 1
<1>1. vehicle \in VehicleStates /\ vehicle.tried \in 0..2
  BY DEF TypeOK, VehicleStates
<1>2. CASE m \in Asks
  <2>1. m.topic = "Dispatch"
    BY <1>2 DEF Asks, Of
  <2>2. r = OnDispatch(vehicle, m)
    BY Zenon, <2>1 DEF Reaction
  <2>3. CASE vehicle.soc - vehicle.energy >= vehicle.reserve
    <3>1. r = [state |-> [vehicle EXCEPT !.tried = 0], action |-> Say(m.from, "Acknowledge")]
      BY <2>2, <2>3 DEF OnDispatch
    <3>2. m \notin Words
      BY <2>1 DEF Words, Of
    <3> QED BY <1>1, <1>2, <3>1, <3>2 DEF Say, Outcome, VehicleStates
  <2>4. CASE ~(vehicle.soc - vehicle.energy >= vehicle.reserve)
    <3>1. r = [state |-> [vehicle EXCEPT !.tried = 1], action |-> Offer("depot", "RequestSession")]
      BY <2>2, <2>4 DEF OnDispatch
    <3> QED BY <1>1, <1>2, <3>1 DEF Offer, VehicleStates
  <2> QED BY <2>3, <2>4
<1>3. CASE m \in Words /\ m.topic = "GrantSession"
  <2>1. r = [state |-> vehicle, action |-> Say("tms", "Complete")]
    BY Zenon, <1>3 DEF Reaction, OnGrant
  <2> QED BY <1>1, <2>1 DEF Say, Outcome
<1>4. CASE m \in Words /\ m.topic = "DenySession"
  <2>1. r = OnDeny(vehicle) /\ m \notin Asks
    <3>1. r = OnDeny(vehicle)
      BY Zenon, <1>4 DEF Reaction
    <3> QED BY <1>4, <3>1 DEF Asks, Of
  <2>2. CASE vehicle.tried >= 2
    <3>1. r = [state |-> vehicle, action |-> Say("tms", "Failed")]
      BY <2>1, <2>2 DEF OnDeny
    <3> QED BY <1>1, <3>1 DEF Say, Outcome
  <2>3. CASE ~(vehicle.tried >= 2)
    <3>1. r = [state |-> [vehicle EXCEPT !.tried = @ + 1],
               action |-> Offer("depot2", "RequestSession")]
      BY <2>1, <2>3 DEF OnDeny
    <3>2. /\ r.state.tried = vehicle.tried + 1 /\ r.action.topic = "RequestSession"
          /\ r.action.peer = "depot2"
      BY <1>1, <3>1 DEF Offer, VehicleStates
    <3> QED BY <1>1, <2>1, <2>3, <3>2
  <2> QED BY <2>2, <2>3
<1>5. m \in Words => m.topic \in {"GrantSession", "DenySession"}
  BY DEF Words, Of
<1> QED BY <1>2, <1>3, <1>4, <1>5

\* Another agent's step asks for nothing in the vehicle's name.
LEMMA AskedByVehicle ==
  ASSUME TypeOK, NEW a, NEW action, NEW passes, Act(a, action, passes)
  PROVE  /\ Asked \in Nat
         /\ Asked' = Asked + (IF a = "vehicle" /\ action.topic = "RequestSession"
                                  /\ action.peer \in {"depot", "depot2"} THEN 1 ELSE 0)
<1> DEFINE k == <<a, action.peer, action.topic>>
           first == <<"vehicle", "depot", "RequestSession">>
           second == <<"vehicle", "depot2", "RequestSession">>
<1>1. proposed \in [Talk -> Nat] /\ first \in Talk /\ second \in Talk
  BY DEF TypeOK, Talk
<1>2. \A t \in Talk : proposed'[t] = proposed[t] + (IF t = k THEN 1 ELSE 0)
  BY <1>1, CountAddsOne DEF Act
<1>3. /\ proposed'[first] = proposed[first] + (IF first = k THEN 1 ELSE 0)
      /\ proposed'[second] = proposed[second] + (IF second = k THEN 1 ELSE 0)
      /\ proposed[first] \in Nat /\ proposed[second] \in Nat
  <2> HIDE DEF k, first, second
  <2> QED BY <1>1, <1>2
<1> QED BY <1>3 DEF Asked

\* A message of the vehicle's becomes a smaller one, or an outcome, or a
\* request that the vehicle has one denial less to spend on.
LEMMA VehicleShrinks ==
  ASSUME FleetInv, VehicleStep
  PROVE  Work' < Work /\ (AskedInv => AskedInv')
<1> DEFINE m == Head(mailbox["vehicle"])
           r == Reaction(m)
           ok == ("vehicle" \in gated => VehicleSpec(r.state))
<1>1. /\ mailbox["vehicle"] # <<>> /\ vehicle' = r.state /\ Act("vehicle", r.action, ok)
      /\ ok \in BOOLEAN /\ UNCHANGED posts
  BY DEF VehicleStep
<1>2. /\ TypeOK /\ MailInv /\ CountInv /\ vehicle \in VehicleStates /\ vehicle.tried \in 0..2
      /\ posts \in Nat /\ faults \in Nat
  BY FleetFacts
<1>3. m = Head(mailbox["vehicle"]) /\ r = Reaction(m)
  OBVIOUS
<1> HIDE DEF m, r, ok
<1>4. /\ \/ r.action.topic \in Outcome /\ r.action.peer \in {"tms", "tester"}
         \/ r.action.topic = "RequestSession" /\ r.action.peer \in {"depot", "depot2"}
      /\ <<"vehicle", r.action.peer, r.action.topic>> \in Talk
      /\ Url(r.action.peer) \in Agents
           => Welcome(LetterOf("vehicle", r.action), Url(r.action.peer))
  BY <1>1, <1>2, <1>3, VehicleActs
<1>5. /\ MailInv'
      /\ \/ ok /\ Sent("vehicle", r.action)
         \/ ok /\ Lost("vehicle", r.action)
         \/ ~ok /\ Refused("vehicle")
  BY <1>1, <1>2, <1>4, Apart, ActEffect
<1>6. /\ Load(mailbox') <= Load(mailbox) - LoadTaken("vehicle") + LoadPut("vehicle", r.action)
      /\ Load(mailbox) \in Nat /\ Load(mailbox') \in Nat /\ LoadPut("vehicle", r.action) \in Nat
  BY <1>2, <1>5, LoadAct
<1>7. \/ m \in Asks /\ m \notin Words /\ LoadTaken("vehicle") = 6
      \/ m \in Words /\ m \notin Asks /\ LoadTaken("vehicle") = 2
  BY <1>1, <1>2, <1>3, Apart, TakenWeighs
<1>8. /\ r.state.tried \in 0..2
      /\ \/ /\ r.action.topic \in Outcome
            /\ m \in Words => r.state.tried = vehicle.tried
         \/ /\ r.action.topic = "RequestSession"
            /\ IF m \in Asks THEN r.state.tried = 1 ELSE r.state.tried = vehicle.tried + 1
  BY <1>2, <1>3, <1>7, Reacts
<1>9. /\ r.action.topic \in Outcome
           => LoadPut("vehicle", r.action) <= 1 /\ r.action.topic # "RequestSession"
      /\ r.action.topic = "RequestSession"
           => LoadPut("vehicle", r.action) <= 3 /\ r.action.peer \in {"depot", "depot2"}
  <2>1. ASSUME r.action.topic \in Outcome PROVE LoadPut("vehicle", r.action) <= 1
    <3>1. Url(r.action.peer) \in {"tms", "tester"}
      BY <1>4, <2>1 DEF Url, Outcome
    <3> QED BY <3>1, PutWeighs
  <2>2. ASSUME r.action.topic = "RequestSession"
        PROVE  LoadPut("vehicle", r.action) <= 3 /\ r.action.peer \in {"depot", "depot2"}
    <3>1. r.action.peer \in {"depot", "depot2"}
      BY <1>4, <2>2 DEF Outcome
    <3>2. Url(r.action.peer) \in {"depot", "depot2"}
      BY <3>1 DEF Url
    <3> QED BY <3>1, <3>2, PutWeighs
  <2> QED BY <2>1, <2>2 DEF Outcome
<1>10. /\ Patience = 2 - vehicle.tried /\ Patience' = 2 - r.state.tried
       /\ Work' = Load(mailbox') + 2 * Patience' /\ Work = Load(mailbox) + 2 * Patience
  BY <1>1 DEF Work, Patience
<1>11. /\ Asked \in Nat
       /\ Asked' = Asked + (IF r.action.topic = "RequestSession"
                               /\ r.action.peer \in {"depot", "depot2"} THEN 1 ELSE 0)
  BY <1>1, <1>2, AskedByVehicle
<1>12. /\ Wait(mailbox, "vehicle", Asks) \in Nat /\ faults' \in Nat /\ faults' >= faults
       /\ Wait(mailbox', "vehicle", Asks)
            = Wait(mailbox, "vehicle", Asks) - (IF m \in Asks THEN 1 ELSE 0)
  <2>1. Wait(mailbox, "vehicle", Asks) \in Nat
    BY <1>2, WaitType DEF MailInv
  <2>2. Puts("vehicle", r.action, "vehicle", Asks) = 0
    <3>1. Url(r.action.peer) # "vehicle"
      BY <1>4 DEF Url
    <3> QED BY <3>1 DEF Puts
  <2>3. Takes("vehicle", "vehicle", Asks) = (IF m \in Asks THEN 1 ELSE 0)
    BY <1>3 DEF Takes
  <2>4. \/ Wait(mailbox', "vehicle", Asks)
            = Wait(mailbox, "vehicle", Asks) - Takes("vehicle", "vehicle", Asks)
                + Puts("vehicle", r.action, "vehicle", Asks)
        \/ Wait(mailbox', "vehicle", Asks)
            = Wait(mailbox, "vehicle", Asks) - Takes("vehicle", "vehicle", Asks)
    BY <1>5 DEF Sent, Lost, Refused
  <2>5. faults' = faults \/ faults' = faults + 1
    BY <1>5 DEF Sent, Lost, Refused
  <2> QED BY <1>2, <2>1, <2>2, <2>3, <2>4, <2>5
<1>13. AskedInv <=> Asked + Patience + 2 * Wait(mailbox, "vehicle", Asks)
                      <= 2 * (posts + faults + 1)
  BY DEF AskedInv
<1>14. AskedInv' <=> Asked' + Patience' + 2 * Wait(mailbox', "vehicle", Asks)
                       <= 2 * (posts + faults' + 1)
  BY <1>1 DEF AskedInv, Asks, Of
<1>15. CASE r.action.topic \in Outcome
  <2>1. /\ r.state.tried \in Int /\ r.state.tried <= 2 /\ 0 <= r.state.tried
        /\ vehicle.tried \in Int /\ vehicle.tried <= 2 /\ 0 <= vehicle.tried
    BY <1>2, <1>8
  <2>2. /\ LoadPut("vehicle", r.action) <= 1 /\ Asked' = Asked
        /\ m \in Words => r.state.tried = vehicle.tried
    BY <1>8, <1>9, <1>11, <1>15 DEF Outcome
  <2>3. CASE m \in Asks
    BY <1>2, <1>6, <1>7, <1>10, <1>11, <1>12, <1>13, <1>14, <2>1, <2>2, <2>3
  <2>4. CASE m \notin Asks
    BY <1>2, <1>6, <1>7, <1>10, <1>11, <1>12, <1>13, <1>14, <2>1, <2>2, <2>4
  <2> QED BY <2>3, <2>4
<1>16. CASE r.action.topic = "RequestSession"
  <2>1. /\ r.state.tried \in Int /\ r.state.tried <= 2 /\ 0 <= r.state.tried
        /\ vehicle.tried \in Int /\ vehicle.tried <= 2 /\ 0 <= vehicle.tried
    BY <1>2, <1>8
  <2>2. /\ LoadPut("vehicle", r.action) <= 3 /\ Asked' = Asked + 1
        /\ IF m \in Asks THEN r.state.tried = 1 ELSE r.state.tried = vehicle.tried + 1
    BY <1>8, <1>9, <1>11, <1>16 DEF Outcome
  <2>3. CASE m \in Asks
    <3>1. LoadTaken("vehicle") = 6 /\ r.state.tried = 1
      BY <1>7, <2>2, <2>3
    <3>2. Work' < Work
      BY <1>6, <1>10, <2>1, <2>2, <3>1
    <3>3. AskedInv => AskedInv'
      BY <1>2, <1>10, <1>11, <1>12, <1>13, <1>14, <2>1, <2>2, <2>3, <3>1
    <3> QED BY <3>2, <3>3
  <2>4. CASE m \notin Asks
    BY <1>2, <1>6, <1>7, <1>10, <1>11, <1>12, <1>13, <1>14, <2>1, <2>2, <2>4
  <2> QED BY <2>3, <2>4
<1> QED BY <1>8, <1>15, <1>16

\* A step of another agent that acts.
LEMMA OtherShrinks ==
  ASSUME FleetInv, NEW a \in Agents, a # "vehicle", mailbox[a] # <<>>,
         NEW action, <<a, action.peer, action.topic>> \in Talk,
         Url(action.peer) \in Agents => Welcome(LetterOf(a, action), Url(action.peer)),
         action.topic # "Dispatch",
         NEW passes \in BOOLEAN, Act(a, action, passes), UNCHANGED <<vehicle, posts>>,
         LoadPut(a, action) < LoadTaken(a)
  PROVE  Work' < Work /\ (AskedInv => AskedInv')
<1>1. /\ TypeOK /\ MailInv /\ CountInv /\ vehicle.tried \in 0..2
      /\ posts \in Nat /\ faults \in Nat
  BY FleetFacts
<1>2. /\ MailInv'
      /\ \/ passes /\ Sent(a, action)
         \/ passes /\ Lost(a, action)
         \/ ~passes /\ Refused(a)
  BY <1>1, ActEffect
<1>3. /\ Load(mailbox') <= Load(mailbox) - LoadTaken(a) + LoadPut(a, action)
      /\ Load(mailbox) \in Nat /\ Load(mailbox') \in Nat
      /\ LoadTaken(a) \in Nat /\ LoadPut(a, action) \in Nat
  BY <1>1, <1>2, LoadAct
<1>4. Work' < Work
  BY <1>1, <1>3 DEF Work, Patience
<1>5. Asked' = Asked /\ Asked \in Nat
  BY <1>1, AskedByVehicle
<1>6. /\ Wait(mailbox', "vehicle", Asks) = Wait(mailbox, "vehicle", Asks)
      /\ Wait(mailbox, "vehicle", Asks) \in Nat
  <2>1. LetterOf(a, action) \notin Asks
    BY DEF LetterOf, Asks, Of
  <2>2. Takes(a, "vehicle", Asks) = 0 /\ Puts(a, action, "vehicle", Asks) = 0
    BY <2>1 DEF Takes, Puts
  <2>3. Wait(mailbox, "vehicle", Asks) \in Nat
    BY <1>1, WaitType DEF MailInv
  <2>4. \/ Wait(mailbox', "vehicle", Asks)
            = Wait(mailbox, "vehicle", Asks) - Takes(a, "vehicle", Asks)
                + Puts(a, action, "vehicle", Asks)
        \/ Wait(mailbox', "vehicle", Asks)
            = Wait(mailbox, "vehicle", Asks) - Takes(a, "vehicle", Asks)
    BY <1>2 DEF Sent, Lost, Refused
  <2> QED BY <2>2, <2>3, <2>4
<1>7. faults' = faults \/ faults' = faults + 1
  BY <1>2 DEF Sent, Lost, Refused
<1>8. AskedInv => AskedInv'
  BY <1>1, <1>5, <1>6, <1>7 DEF AskedInv, Patience
<1> QED BY <1>4, <1>8

LEMMA RequestShrinks ==
  ASSUME FleetInv, NEW d \in Depots, Request(d)
  PROVE  Work' < Work /\ (AskedInv => AskedInv')
<1> DEFINE m == Head(mailbox[d])
           action == OnRequestSession(depots[d], m)
           ok == (d \in gated => DepotSpec(depots[d], action))
<1>1. /\ mailbox[d] # <<>> /\ m.topic = "RequestSession" /\ Act(d, action, ok)
      /\ ok \in BOOLEAN /\ UNCHANGED <<vehicle, posts>>
  BY DEF Request
<1>2. MailInv /\ d \in Agents /\ d # "vehicle"
  BY Apart DEF FleetInv
<1>3. /\ action.topic \in {"GrantSession", "DenySession"} /\ action.peer = "vehicle"
      /\ <<d, action.peer, action.topic>> \in Talk
      /\ Welcome(LetterOf(d, action), "vehicle")
  BY <1>1, <1>2, DepotActs
<1>4. m = Head(mailbox[d])
  OBVIOUS
<1> HIDE DEF m, action, ok
<1>5. LoadTaken(d) = 3
  <2>1. m \notin Updates
    BY <1>1 DEF Updates, Of
  <2> QED BY <1>1, <1>2, <1>4, <2>1, TakenWeighs
<1>6. Url(action.peer) = "vehicle"
  BY <1>3 DEF Url
<1>7. LoadPut(d, action) <= 2
  BY <1>3, <1>6, PutWeighs
<1>8. LoadPut(d, action) < LoadTaken(d) /\ action.topic # "Dispatch"
  <2>1. LoadPut(d, action) \in Nat
    BY DEF LoadPut, Puts
  <2> QED BY <1>3, <1>5, <1>7, <2>1
<1> QED BY <1>1, <1>2, <1>3, <1>6, <1>8, OtherShrinks

LEMMA PvShrinks ==
  ASSUME FleetInv, PvStep
  PROVE  Work' < Work /\ (AskedInv => AskedInv')
<1> DEFINE action == Say("depot", "PvUpdate")
<1>1. mailbox["pv"] # <<>> /\ Act("pv", action, TRUE) /\ UNCHANGED <<vehicle, posts>>
  BY DEF PvStep
<1>2. action.peer = "depot" /\ action.topic = "PvUpdate"
  BY DEF Say
<1> HIDE DEF action
<1>3. "pv" \in Agents /\ "depot" \in Depots /\ MailInv
  BY FleetAssumption, Apart DEF FleetInv
<1>4. <<"pv", action.peer, action.topic>> \in Talk
  BY <1>2 DEF Talk
<1>5. Url(action.peer) = "depot"
  BY <1>2 DEF Url
<1>6. Welcome(LetterOf("pv", action), "depot")
  <2>1. LetterOf("pv", action) \in DepotMail /\ LetterOf("pv", action) \in Letters
    BY <1>2, <1>3 DEF LetterOf, DepotMail, Letters
  <2> QED BY <1>3, <2>1, Apart DEF Welcome
<1>7. LoadTaken("pv") = 2
  BY <1>1, <1>3, TakenWeighs
<1>8. LoadPut("pv", action) < LoadTaken("pv")
  <2>1. LoadPut("pv", action) \in Nat
    BY DEF LoadPut, Puts
  <2>2. LoadPut("pv", action) <= 1
    BY <1>2, <1>5, PutWeighs
  <2> QED BY <1>7, <2>1, <2>2
<1> QED BY <1>1, <1>2, <1>3, <1>4, <1>5, <1>6, <1>8, OtherShrinks

\* A message that only is taken.
LEMMA TakenShrinks ==
  ASSUME FleetInv, NEW a \in Agents, a # "vehicle", mailbox[a] # <<>>, mailbox' = Take(a),
         UNCHANGED <<vehicle, proposed, posts, faults>>
  PROVE  Work' < Work /\ (AskedInv => AskedInv')
<1>1. /\ TypeOK /\ MailInv /\ CountInv /\ vehicle.tried \in 0..2
      /\ posts \in Nat /\ faults \in Nat
  BY FleetFacts
<1>2. Mailed(Take(a)) /\ \A b, S : Wait(Take(a), b, S) = Wait(mailbox, b, S) - Takes(a, b, S)
  BY <1>1, Taken DEF Takes
<1>3. MailInv' /\ \A b, S : Wait(mailbox', b, S) = Wait(mailbox, b, S) - Takes(a, b, S)
  BY <1>2 DEF MailInv
<1>4. LoadTaken(a) \in Nat \ {0}
  BY <1>1, Apart, TakenWeighs
<1>5. Load(mailbox') = Load(mailbox) - LoadTaken(a) /\ Load(mailbox) \in Nat
  BY <1>1, <1>3, LoadTook
<1>6. Work' < Work
  BY <1>1, <1>4, <1>5 DEF Work, Patience
<1>7. Wait(mailbox', "vehicle", Asks) = Wait(mailbox, "vehicle", Asks)
  <2>1. Wait(mailbox, "vehicle", Asks) \in Nat /\ Takes(a, "vehicle", Asks) = 0
    BY <1>1, WaitType DEF MailInv, Takes
  <2> QED BY <1>3, <2>1
<1>8. Asked' = Asked
  BY DEF Asked
<1>9. AskedInv => AskedInv'
  BY <1>7, <1>8 DEF AskedInv, Patience
<1> QED BY <1>6, <1>9

LEMMA LoadType == ASSUME NEW boxes, Mailed(boxes) PROVE Load(boxes) \in Nat
<1>1. ASSUME NEW b, NEW S PROVE Wait(boxes, b, S) \in Nat
  BY WaitType
<1> QED BY <1>1 DEF Load

Gains(boxes, after, to, letter) ==
  \A b, S : Wait(after, b, S) = Wait(boxes, b, S) + (IF b = to /\ letter \in S THEN 1 ELSE 0)

LEMMA LoadWith ==
  ASSUME NEW boxes, NEW after, Mailed(boxes), Mailed(after),
         NEW to \in Agents, NEW letter, Gains(boxes, after, to, letter)
  PROVE  Load(after) <= Load(boxes) + (IF to = "pv" THEN 2 ELSE 6)
<1> DEFINE Kept(b, S) == Wait(boxes, b, S) \in Nat /\ Wait(after, b, S) = Wait(boxes, b, S)
           More(b, S) == /\ Wait(boxes, b, S) \in Nat
                         /\ Wait(after, b, S) \in {Wait(boxes, b, S), Wait(boxes, b, S) + 1}
<1>1. ASSUME NEW b, NEW S, b # to PROVE Kept(b, S)
  BY <1>1, WaitType DEF Gains
<1>2. ASSUME NEW b, NEW S PROVE More(b, S)
  BY WaitType DEF Gains
<1>3. ASSUME NEW b, NEW S, letter \notin S PROVE Kept(b, S)
  BY <1>3, WaitType DEF Gains
<1>4. /\ letter \notin Asks \/ letter \notin Words
      /\ letter \notin Requests \/ letter \notin Updates
  BY DEF Asks, Words, Requests, Updates, Of
<1>5. to \in {"vehicle", "depot", "depot2", "tms", "pv"}
  BY FleetAssumption, Apart
<1>6. /\ More("vehicle", Asks) /\ More("vehicle", Words)
      /\ More("depot", Requests) /\ More("depot2", Requests)
      /\ More("depot", Updates) /\ More("depot2", Updates)
      /\ More("tms", Letters) /\ More("pv", Letters)
      /\ Kept("vehicle", Asks) \/ Kept("vehicle", Words)
      /\ Kept("depot", Requests) \/ Kept("depot", Updates)
      /\ Kept("depot2", Requests) \/ Kept("depot2", Updates)
  BY <1>2, <1>3, <1>4
<1>7. /\ to # "vehicle" => Kept("vehicle", Asks) /\ Kept("vehicle", Words)
      /\ to # "depot" => Kept("depot", Requests) /\ Kept("depot", Updates)
      /\ to # "depot2" => Kept("depot2", Requests) /\ Kept("depot2", Updates)
      /\ to # "tms" => Kept("tms", Letters)
      /\ to # "pv" => Kept("pv", Letters)
  BY <1>1
<1>8. CASE to = "vehicle"
  BY <1>6, <1>7, <1>8 DEF Load
<1>9. CASE to = "depot"
  BY <1>6, <1>7, <1>9 DEF Load
<1>10. CASE to = "depot2"
  BY <1>6, <1>7, <1>10 DEF Load
<1>11. CASE to = "tms"
  BY <1>6, <1>7, <1>11 DEF Load
<1>12. CASE to = "pv"
  BY <1>6, <1>7, <1>12 DEF Load
<1> QED BY <1>5, <1>8, <1>9, <1>10, <1>11, <1>12

\* A message from outside brings what a dispatch weighs at most, a tick less.
LEMMA ArrivalAdds ==
  ASSUME MailInv, NEW to \in Agents, NEW topic, NEW from, Arrive(to, topic, from),
         NEW letter, letter = [topic |-> topic, from |-> from], Welcome(letter, to)
  PROVE  /\ Load(mailbox') <= Load(mailbox) + (IF to = "pv" THEN 2 ELSE 6)
         /\ Load(mailbox) \in Nat /\ Load(mailbox') \in Nat
         /\ Wait(mailbox', "vehicle", Asks)
              <= Wait(mailbox, "vehicle", Asks) + (IF to = "vehicle" THEN 1 ELSE 0)
         /\ Wait(mailbox, "vehicle", Asks) \in Nat /\ Wait(mailbox', "vehicle", Asks) \in Nat
<1>1. mailbox' = With(mailbox, to, letter)
  BY DEF Arrive, With
<1>2. Mailed(mailbox) /\ Mailed(mailbox') /\ Gains(mailbox, mailbox', to, letter)
  BY <1>1, Delivered DEF MailInv, Gains
<1>3. Load(mailbox) \in Nat /\ Load(mailbox') \in Nat
  BY <1>2, LoadType
<1>4. Load(mailbox') <= Load(mailbox) + (IF to = "pv" THEN 2 ELSE 6)
  BY <1>2, LoadWith
<1>5. Wait(mailbox, "vehicle", Asks) \in Nat /\ Wait(mailbox', "vehicle", Asks) \in Nat
  BY <1>2, WaitType
<1>6. Wait(mailbox', "vehicle", Asks)
        <= Wait(mailbox, "vehicle", Asks) + (IF to = "vehicle" THEN 1 ELSE 0)
  BY <1>2, <1>5 DEF Gains
<1> QED BY <1>3, <1>4, <1>5, <1>6

LEMMA PostAdds ==
  ASSUME FleetInv, Post
  PROVE  Work' <= Work + 6 /\ (AskedInv => AskedInv')
<1>1. /\ posts' = posts + 1 /\ UNCHANGED <<vehicle, proposed, faults>>
      /\ MailInv /\ vehicle.tried \in 0..2 /\ posts \in Nat /\ faults \in Nat
  BY FleetFacts DEF Post, counts
<1>2. /\ Load(mailbox') <= Load(mailbox) + 6 /\ Load(mailbox) \in Nat /\ Load(mailbox') \in Nat
      /\ Wait(mailbox', "vehicle", Asks) <= Wait(mailbox, "vehicle", Asks) + 1
      /\ Wait(mailbox, "vehicle", Asks) \in Nat /\ Wait(mailbox', "vehicle", Asks) \in Nat
  <2>1. ASSUME NEW from \in {"tms", "tester"}, Arrive("vehicle", "Dispatch", from) PROVE <1>2
    <3> DEFINE letter == [topic |-> "Dispatch", from |-> from]
    <3>1. letter \in VehicleMail /\ letter \in Letters /\ "vehicle" \in Agents
      BY <2>1, Apart DEF VehicleMail, Letters
    <3>2. Welcome(letter, "vehicle")
      BY <3>1, Apart DEF Welcome
    <3> QED BY <1>1, <2>1, <3>1, <3>2, ArrivalAdds
  <2>2. ASSUME Arrive("depot", "RequestSession", "vehicle") PROVE <1>2
    <3> DEFINE letter == [topic |-> "RequestSession", from |-> "vehicle"]
    <3>1. letter \in DepotMail /\ letter \in Letters /\ "depot" \in Agents /\ "depot" \in Depots
      BY FleetAssumption, Apart DEF DepotMail, Letters
    <3>2. Welcome(letter, "depot")
      BY <3>1, Apart DEF Welcome
    <3>3. /\ Load(mailbox') <= Load(mailbox) + 6
          /\ Load(mailbox) \in Nat /\ Load(mailbox') \in Nat
          /\ Wait(mailbox', "vehicle", Asks) <= Wait(mailbox, "vehicle", Asks) + 0
          /\ Wait(mailbox, "vehicle", Asks) \in Nat /\ Wait(mailbox', "vehicle", Asks) \in Nat
      BY <1>1, <2>2, <3>1, <3>2, ArrivalAdds
    <3> QED BY <3>3
  <2> QED BY <2>1, <2>2 DEF Post
<1>3. Patience' = Patience /\ Patience \in 0..2 /\ Asked' = Asked
  BY <1>1 DEF Patience, Asked
<1>4. Asked \in Nat
  BY FleetFacts DEF TypeOK, Asked, Talk
<1> QED BY <1>1, <1>2, <1>3, <1>4 DEF Work, AskedInv

LEMMA TickAdds ==
  ASSUME FleetInv, Tick
  PROVE  Work' <= Work + 2 /\ (AskedInv => AskedInv')
<1> DEFINE letter == [topic |-> "Tick", from |-> "self"]
<1>1. /\ Arrive("pv", "Tick", "self") /\ UNCHANGED <<vehicle, proposed, posts, faults>>
      /\ MailInv /\ vehicle.tried \in 0..2 /\ posts \in Nat /\ faults \in Nat
  BY FleetFacts DEF Tick, counts
<1>2. letter \in PvMail /\ letter \in Letters /\ "pv" \in Agents /\ "pv" \notin Depots
  BY Apart DEF PvMail, Letters
<1>3. Welcome(letter, "pv")
  BY <1>2 DEF Welcome
<1>4. /\ Load(mailbox') <= Load(mailbox) + 2 /\ Load(mailbox) \in Nat /\ Load(mailbox') \in Nat
      /\ Wait(mailbox', "vehicle", Asks) <= Wait(mailbox, "vehicle", Asks) + 0
      /\ Wait(mailbox, "vehicle", Asks) \in Nat /\ Wait(mailbox', "vehicle", Asks) \in Nat
  BY <1>1, <1>2, <1>3, ArrivalAdds
<1>5. Patience' = Patience /\ Patience \in 0..2 /\ Asked' = Asked
  BY <1>1 DEF Patience, Asked
<1>6. Asked \in Nat
  BY FleetFacts DEF TypeOK, Asked, Talk
<1> QED BY <1>1, <1>4, <1>5, <1>6 DEF Work, AskedInv

LEMMA RestartAdds ==
  ASSUME FleetInv, NEW a \in Agents, Restart(a)
  PROVE  Work' <= Work + 4 /\ (AskedInv => AskedInv')
<1>1. /\ mailbox' = [mailbox EXCEPT ![a] = <<>>] /\ faults' = faults + 1
      /\ UNCHANGED <<proposed, posts>>
      /\ MailInv /\ vehicle \in VehicleStates /\ posts \in Nat /\ faults \in Nat
  BY FleetFacts DEF Restart, counts
<1>2. Patience \in 0..2 /\ Patience' \in 0..2
  <2>1. vehicle.tried \in 0..2 /\ [vehicle EXCEPT !.tried = 0].tried = 0
    BY <1>1 DEF VehicleStates
  <2>2. vehicle'.tried = 0 \/ vehicle'.tried = vehicle.tried
    BY <2>1 DEF Restart
  <2> QED BY <2>1, <2>2 DEF Patience
<1>3. /\ mailbox \in [Agents -> Seq(Letters)] /\ Mailed(mailbox)
      /\ \A b \in Agents : mailbox'[b] = IF b = a THEN <<>> ELSE mailbox[b]
  BY <1>1 DEF MailInv, Mailed
<1> DEFINE Bounded(b, S) ==
      /\ Wait(mailbox, b, S) \in Nat /\ Wait(mailbox', b, S) \in Nat
      /\ Wait(mailbox', b, S) <= Wait(mailbox, b, S)
<1>4. ASSUME NEW b, NEW S PROVE Bounded(b, S)
  <2>1. Wait(mailbox, b, S) \in Nat
    BY <1>3, WaitType
  <2>2. CASE b = a
    <3>1. Wait(mailbox', b, S) = 0
      BY <1>3, <2>2, HitsEmpty DEF Wait
    <3> QED BY <2>1, <3>1
  <2>3. CASE b # a
    <3>1. Wait(mailbox', b, S) = Wait(mailbox, b, S)
      BY <1>3, <2>3 DEF Wait
    <3> QED BY <2>1, <3>1
  <2> QED BY <2>2, <2>3
<1>5. /\ Bounded("vehicle", Asks) /\ Bounded("vehicle", Words)
      /\ Bounded("depot", Requests) /\ Bounded("depot2", Requests)
      /\ Bounded("depot", Updates) /\ Bounded("depot2", Updates)
      /\ Bounded("tms", Letters) /\ Bounded("pv", Letters)
  BY <1>4
<1>6. Load(mailbox') <= Load(mailbox) /\ Load(mailbox) \in Nat /\ Load(mailbox') \in Nat
  BY <1>5 DEF Load
<1>7. Asked \in Nat /\ Asked' = Asked
  BY <1>1, FleetFacts DEF TypeOK, Asked, Talk
<1>8. Work' <= Work + 4
  BY <1>2, <1>6 DEF Work
<1>9. ASSUME AskedInv PROVE AskedInv'
  <2>1. Bounded("vehicle", Asks) /\ posts' = posts /\ faults' = faults + 1
    BY <1>1, <1>5
  <2> QED BY <1>1, <1>2, <1>7, <1>9, <2>1 DEF AskedInv
<1> QED BY <1>8, <1>9

LEMMA AgentsShrink ==
  ASSUME FleetInv,
         VehicleStep \/ PvStep \/ TmsStep \/ \E d \in Depots : DepotStep(d)
  PROVE  Work' < Work /\ (AskedInv => AskedInv')
<1>1. ASSUME NEW d \in Depots, PvUpdate(d) PROVE Work' < Work /\ (AskedInv => AskedInv')
  <2>1. d \in Agents /\ d # "vehicle"
    BY Apart
  <2> QED BY <1>1, <2>1, TakenShrinks DEF PvUpdate
<1>2. ASSUME TmsStep PROVE Work' < Work /\ (AskedInv => AskedInv')
  <2>1. "tms" \in Agents
    BY Apart
  <2> QED BY <1>2, <2>1, TakenShrinks DEF TmsStep
<1> QED BY <1>1, <1>2, VehicleShrinks, PvShrinks, RequestShrinks DEF DepotStep

\* Each step of an agent leaves less work than there was, and only what comes
\* from outside brings some: a dispatch at most six steps, a tick two, a restart
\* four (vehicle.lex:26-83, depot.lex:23-52, pv.lex:20-27).
THEOREM ChainsShrinkHolds == FairSpec => ChainsShrink
<1>1. FleetInv /\ [Next]_vars =>
        [/\ VehicleStep \/ PvStep \/ TmsStep \/ (\E d \in Depots : DepotStep(d)) => Work' < Work
         /\ Post => Work' <= Work + 6
         /\ Tick => Work' <= Work + 2
         /\ (\E a \in Agents : Restart(a)) => Work' <= Work + 4]_vars
  BY AgentsShrink, PostAdds, TickAdds, RestartAdds
<1> QED BY <1>1, FleetInvariant, PTL DEF FairSpec, ChainsShrink

\* However the dispatches interleave on the vehicle's one count of denials, it
\* asks for power at most twice for each message from outside and each restart
\* (vehicle.lex:26-83).
THEOREM AskedFewHolds == FairSpec => []AskedFew
<1>1. Init => AskedInv
  <2> SUFFICES ASSUME Init PROVE AskedInv
    OBVIOUS
  <2>1. vehicle.tried = 0
    BY FleetAssumption DEF Init
  <2>2. Wait(mailbox, "vehicle", Asks) = 0
    BY HitsEmpty DEF Init, Wait
  <2>3. Asked = 0
    BY DEF Init, Asked, Talk
  <2> QED BY <2>1, <2>2, <2>3 DEF Init, AskedInv, Patience
<1>2. FleetInv /\ AskedInv /\ [Next]_vars => AskedInv'
  <2> SUFFICES ASSUME FleetInv, AskedInv, [Next]_vars PROVE AskedInv'
    OBVIOUS
  <2>1. CASE UNCHANGED vars
    BY <2>1 DEF vars, AskedInv, Asked, Patience
  <2>2. CASE Next
    BY <2>2, AgentsShrink, PostAdds, TickAdds, RestartAdds DEF Next
  <2> QED BY <2>1, <2>2
<1>3. FleetInv /\ AskedInv => AskedFew
  <2> SUFFICES ASSUME FleetInv, AskedInv PROVE AskedFew
    OBVIOUS
  <2>1. /\ Patience \in 0..2 /\ Wait(mailbox, "vehicle", Asks) \in Nat
        /\ posts \in Nat /\ faults \in Nat
    BY FleetFacts, WorkTypes, WaitType DEF MailInv
  <2>2. Asked \in Nat
    BY FleetFacts DEF TypeOK, Asked, Talk
  <2> QED BY <2>1, <2>2 DEF AskedInv, AskedFew
<1> QED BY <1>1, <1>2, <1>3, FleetInvariant, PTL DEF FairSpec

-----------------------------------------------------------------------------
(* Power.  A depot's sun is at most what the ticks of pv have brought, with  *)
(* what is still on its way; its gate compares each grant with it, and what  *)
(* was enough once stays enough, since the count of ticks only grows.        *)

Sun(d) ==
  depots[d].pv + 5 * (Wait(mailbox, d, Updates) + Wait(mailbox, "pv", Letters))
SunInv == \A d \in Depots : Sun(d) <= 5 * ticks

PowerInv ==
  \A d \in Depots \cap gated :
    performed[Grant(d)] > 0 => depots[d].current + 50 <= depots[d].budget + 5 * ticks

LEMMA SunTypes ==
  ASSUME FleetInv, NEW d \in Depots
  PROVE  /\ depots[d] \in DepotStates /\ ticks \in Nat
         /\ Wait(mailbox, d, Updates) \in Nat /\ Wait(mailbox, "pv", Letters) \in Nat
<1>1. depots \in [Depots -> DepotStates] /\ ticks \in 0..MaxTicks /\ MaxTicks \in Nat
  BY FleetAssumption DEF FleetInv, TypeOK, DepotStates
<1>2. \A b, S : Wait(mailbox, b, S) \in Nat
  BY WaitType DEF FleetInv, MailInv
<1> QED BY <1>1, <1>2

\* A step that takes the messages it takes, and puts no more sun on its way.
LEMMA ActSun ==
  ASSUME FleetInv, SunInv, NEW a \in Agents, mailbox[a] # <<>>,
         NEW action, <<a, action.peer, action.topic>> \in Talk,
         Url(action.peer) \in Agents => Welcome(LetterOf(a, action), Url(action.peer)),
         NEW passes \in BOOLEAN, Act(a, action, passes), UNCHANGED <<depots, ticks>>,
         \A d \in Depots : Puts(a, action, d, Updates) <= Takes(a, "pv", Letters),
         Puts(a, action, "pv", Letters) = 0
  PROVE  SunInv'
<1>1. Sent(a, action) \/ Lost(a, action) \/ Refused(a)
  BY ActEffect, FleetFacts
<1>2. SUFFICES ASSUME NEW d \in Depots PROVE Sun(d)' <= 5 * ticks
  BY DEF SunInv
<1> DEFINE Moves(b, S) ==
      \/ Wait(mailbox', b, S) = Wait(mailbox, b, S) - Takes(a, b, S) + Puts(a, action, b, S)
      \/ Wait(mailbox', b, S) = Wait(mailbox, b, S) - Takes(a, b, S)
<1>3. /\ Moves(d, Updates) /\ Moves("pv", Letters)
  BY <1>1 DEF Sent, Lost, Refused
<1>4. /\ Takes(a, d, Updates) \in Nat /\ Takes(a, "pv", Letters) \in Nat
      /\ Puts(a, action, d, Updates) \in Nat
      /\ Puts(a, action, d, Updates) <= Takes(a, "pv", Letters)
  BY DEF Takes, Puts
<1>5. /\ Wait(mailbox, d, Updates) \in Nat /\ Wait(mailbox, "pv", Letters) \in Nat
      /\ depots[d].pv \in Nat /\ ticks \in Nat
  BY SunTypes DEF DepotStates
<1>6. Sun(d) <= 5 * ticks /\ depots'[d].pv = depots[d].pv
  BY DEF SunInv
<1>7. Wait(mailbox', d, Updates) + Wait(mailbox', "pv", Letters)
        <= Wait(mailbox, d, Updates) + Wait(mailbox, "pv", Letters)
  BY <1>3, <1>4, <1>5
<1>8. Wait(mailbox', d, Updates) \in Int /\ Wait(mailbox', "pv", Letters) \in Int
  BY <1>3, <1>4, <1>5
<1> QED BY <1>5, <1>6, <1>7, <1>8 DEF Sun

LEMMA VehicleSun ==
  ASSUME FleetInv, SunInv, VehicleStep PROVE SunInv'
<1> DEFINE m == Head(mailbox["vehicle"])
           r == Reaction(m)
           ok == ("vehicle" \in gated => VehicleSpec(r.state))
<1>1. /\ mailbox["vehicle"] # <<>> /\ Act("vehicle", r.action, ok) /\ ok \in BOOLEAN
      /\ UNCHANGED <<depots, ticks>>
  BY DEF VehicleStep
<1>2. /\ \/ r.action.topic \in Outcome /\ r.action.peer \in {"tms", "tester"}
         \/ r.action.topic = "RequestSession" /\ r.action.peer \in {"depot", "depot2"}
      /\ <<"vehicle", r.action.peer, r.action.topic>> \in Talk
      /\ Url(r.action.peer) \in Agents
           => Welcome(LetterOf("vehicle", r.action), Url(r.action.peer))
  BY <1>1, VehicleActs, FleetFacts
<1> HIDE DEF m, r, ok
<1>3. LetterOf("vehicle", r.action) \notin Updates
  BY <1>2 DEF LetterOf, Updates, Of, Outcome
<1>4. Url(r.action.peer) # "pv"
  BY <1>2 DEF Url
<1>5. /\ \A d \in Depots : Puts("vehicle", r.action, d, Updates) <= Takes("vehicle", "pv", Letters)
      /\ Puts("vehicle", r.action, "pv", Letters) = 0
  BY <1>3, <1>4 DEF Puts, Takes
<1>6. "vehicle" \in Agents
  BY Apart
<1> QED BY <1>1, <1>2, <1>5, <1>6, ActSun

LEMMA RequestSun ==
  ASSUME FleetInv, SunInv, NEW e \in Depots, Request(e) PROVE SunInv'
<1> DEFINE action == OnRequestSession(depots[e], Head(mailbox[e]))
           ok == (e \in gated => DepotSpec(depots[e], action))
<1>1. /\ mailbox[e] # <<>> /\ Head(mailbox[e]).topic = "RequestSession"
      /\ Act(e, action, ok) /\ ok \in BOOLEAN /\ UNCHANGED <<depots, ticks>>
  BY DEF Request
<1>2. /\ action.topic \in {"GrantSession", "DenySession"} /\ action.peer = "vehicle"
      /\ <<e, action.peer, action.topic>> \in Talk
      /\ Welcome(LetterOf(e, action), "vehicle")
  BY <1>1, DepotActs, FleetFacts
<1> HIDE DEF action, ok
<1>3. Url(action.peer) = "vehicle" /\ e \in Agents
  BY <1>2, Apart DEF Url
<1>4. /\ \A d \in Depots : Puts(e, action, d, Updates) <= Takes(e, "pv", Letters)
      /\ Puts(e, action, "pv", Letters) = 0
  BY <1>3, Apart DEF Puts, Takes
<1> QED BY <1>1, <1>2, <1>3, <1>4, ActSun

LEMMA PvSun ==
  ASSUME FleetInv, SunInv, PvStep PROVE SunInv'
<1> DEFINE action == Say("depot", "PvUpdate")
<1>1. mailbox["pv"] # <<>> /\ Act("pv", action, TRUE) /\ UNCHANGED <<depots, ticks>>
  BY DEF PvStep
<1>2. action.peer = "depot" /\ action.topic = "PvUpdate"
  BY DEF Say
<1> HIDE DEF action
<1>3. "pv" \in Agents /\ "depot" \in Depots /\ MailInv
  BY FleetAssumption, Apart DEF FleetInv
<1>4. <<"pv", action.peer, action.topic>> \in Talk /\ Url(action.peer) = "depot"
  BY <1>2 DEF Talk, Url
<1>5. Welcome(LetterOf("pv", action), "depot")
  <2>1. LetterOf("pv", action) \in DepotMail /\ LetterOf("pv", action) \in Letters
    BY <1>2, <1>3 DEF LetterOf, DepotMail, Letters
  <2> QED BY <1>3, <2>1, Apart DEF Welcome
<1>6. Takes("pv", "pv", Letters) = 1
  BY <1>1, <1>3, Taken DEF Takes
<1>7. /\ \A d \in Depots : Puts("pv", action, d, Updates) <= Takes("pv", "pv", Letters)
      /\ Puts("pv", action, "pv", Letters) = 0
  BY <1>4, <1>6 DEF Puts
<1> QED BY <1>1, <1>3, <1>4, <1>5, <1>7, ActSun

LEMMA PvUpdateSun ==
  ASSUME FleetInv, SunInv, NEW e \in Depots, PvUpdate(e) PROVE SunInv'
<1>1. /\ mailbox[e] # <<>> /\ Head(mailbox[e]).topic = "PvUpdate" /\ mailbox' = Take(e)
      /\ depots' = [depots EXCEPT ![e].pv = @ + 5] /\ ticks' = ticks
  BY DEF PvUpdate
<1>2. e \in Agents /\ e # "pv" /\ MailInv
  BY Apart DEF FleetInv
<1>3. /\ Head(mailbox[e]) \in Updates
      /\ \A b, S : Wait(mailbox', b, S) =
           Wait(mailbox, b, S) - (IF b = e /\ Head(mailbox[e]) \in S THEN 1 ELSE 0)
  <2>1. /\ Head(mailbox[e]) \in Letters
        /\ \A b, S : Wait(Take(e), b, S) =
             Wait(mailbox, b, S) - (IF b = e /\ Head(mailbox[e]) \in S THEN 1 ELSE 0)
    BY <1>1, <1>2, Taken
  <2> QED BY <1>1, <2>1 DEF Updates, Of
<1>4. SUFFICES ASSUME NEW d \in Depots PROVE Sun(d)' <= 5 * ticks
  BY <1>1 DEF SunInv
<1>5. /\ depots \in [Depots -> DepotStates] /\ depots[d].pv \in Nat
      /\ Wait(mailbox, d, Updates) \in Nat /\ Wait(mailbox, "pv", Letters) \in Nat
      /\ ticks \in Nat /\ Sun(d) <= 5 * ticks
  BY SunTypes DEF DepotStates, SunInv, FleetInv, TypeOK
<1>6. Wait(mailbox', "pv", Letters) = Wait(mailbox, "pv", Letters)
  BY <1>2, <1>3, <1>5
<1>7. CASE d = e
  <2>1. depots'[d].pv = depots[d].pv + 5
    BY <1>1, <1>5, <1>7 DEF DepotStates
  <2>2. Wait(mailbox', d, Updates) = Wait(mailbox, d, Updates) - 1
    BY <1>3, <1>7
  <2> QED BY <1>5, <1>6, <2>1, <2>2 DEF Sun
<1>8. CASE d # e
  <2>1. depots'[d] = depots[d]
    BY <1>1, <1>5, <1>8
  <2>2. Wait(mailbox', d, Updates) = Wait(mailbox, d, Updates)
    BY <1>3, <1>5, <1>8
  <2> QED BY <1>5, <1>6, <2>1, <2>2 DEF Sun
<1> QED BY <1>7, <1>8

\* What only takes messages, or empties a mailbox, leaves no more sun.
LEMMA LessSun ==
  ASSUME FleetInv, SunInv, ticks' = ticks,
         \A b, S : Wait(mailbox', b, S) \in Nat /\ Wait(mailbox', b, S) <= Wait(mailbox, b, S),
         \A d \in Depots : depots'[d].pv \in Nat /\ depots'[d].pv <= depots[d].pv
  PROVE  SunInv'
<1>1. SUFFICES ASSUME NEW d \in Depots PROVE Sun(d)' <= 5 * ticks
  BY DEF SunInv
<1>2. /\ depots[d].pv \in Nat /\ ticks \in Nat /\ Sun(d) <= 5 * ticks
      /\ Wait(mailbox, d, Updates) \in Nat /\ Wait(mailbox, "pv", Letters) \in Nat
  BY SunTypes DEF DepotStates, SunInv
<1>3. /\ Wait(mailbox', d, Updates) \in Nat /\ Wait(mailbox', "pv", Letters) \in Nat
      /\ Wait(mailbox', d, Updates) <= Wait(mailbox, d, Updates)
      /\ Wait(mailbox', "pv", Letters) <= Wait(mailbox, "pv", Letters)
      /\ depots'[d].pv \in Nat /\ depots'[d].pv <= depots[d].pv
  OBVIOUS
<1> QED BY <1>2, <1>3 DEF Sun

LEMMA TmsSun ==
  ASSUME FleetInv, SunInv, TmsStep PROVE SunInv'
<1>1. /\ mailbox["tms"] # <<>> /\ mailbox' = Take("tms") /\ UNCHANGED <<depots, ticks>>
      /\ "tms" \in Agents /\ MailInv
  BY Apart DEF TmsStep, FleetInv
<1>2. /\ Mailed(mailbox')
      /\ \A b, S : Wait(mailbox', b, S) = Wait(mailbox, b, S) - Takes("tms", b, S)
  BY <1>1, Taken DEF Takes
<1>3. ASSUME NEW b, NEW S
      PROVE  Wait(mailbox', b, S) \in Nat /\ Wait(mailbox', b, S) <= Wait(mailbox, b, S)
  <2>1. Wait(mailbox, b, S) \in Nat /\ Wait(mailbox', b, S) \in Nat
    BY <1>1, <1>2, WaitType DEF MailInv
  <2> QED BY <1>2, <2>1 DEF Takes
<1>4. ASSUME NEW d \in Depots PROVE depots'[d].pv \in Nat /\ depots'[d].pv <= depots[d].pv
  BY <1>1, SunTypes DEF DepotStates
<1> QED BY <1>1, <1>3, <1>4, LessSun

LEMMA RestartSun ==
  ASSUME FleetInv, SunInv, NEW a \in Agents, Restart(a) PROVE SunInv'
<1>1. /\ mailbox' = [mailbox EXCEPT ![a] = <<>>] /\ ticks' = ticks
      /\ depots' = [d \in Depots |-> IF a = d THEN [depots[d] EXCEPT !.pv = 0] ELSE depots[d]]
      /\ MailInv
  BY FleetFacts DEF Restart
<1>2. ASSUME NEW b, NEW S
      PROVE  Wait(mailbox', b, S) \in Nat /\ Wait(mailbox', b, S) <= Wait(mailbox, b, S)
  <2>1. Wait(mailbox, b, S) \in Nat
    BY <1>1, WaitType DEF MailInv
  <2>2. \A c \in Agents : mailbox'[c] = IF c = a THEN <<>> ELSE mailbox[c]
    BY <1>1 DEF MailInv, Mailed
  <2>3. Wait(mailbox', b, S) = 0 \/ Wait(mailbox', b, S) = Wait(mailbox, b, S)
    BY <2>2, HitsEmpty DEF Wait
  <2> QED BY <2>1, <2>3
<1>3. ASSUME NEW d \in Depots PROVE depots'[d].pv \in Nat /\ depots'[d].pv <= depots[d].pv
  <2>1. depots[d] \in DepotStates
    BY SunTypes
  <2>2. [depots[d] EXCEPT !.pv = 0].pv = 0
    BY <2>1 DEF DepotStates
  <2> QED BY <1>1, <2>1, <2>2 DEF DepotStates
<1> QED BY <1>1, <1>2, <1>3, LessSun

\* A message from outside is no sun; a tick is counted as it arrives.
LEMMA ArrivalSun ==
  ASSUME FleetInv, SunInv, Post \/ Tick PROVE SunInv'
<1>1. MailInv /\ depots' = depots
  BY FleetFacts DEF Post, Tick
<1>2. ASSUME NEW to \in Agents, NEW topic, NEW from, Arrive(to, topic, from),
             NEW letter, letter = [topic |-> topic, from |-> from], Welcome(letter, to)
      PROVE  \A b, S : Wait(mailbox', b, S) =
               Wait(mailbox, b, S) + (IF b = to /\ letter \in S THEN 1 ELSE 0)
  <2>1. mailbox' = With(mailbox, to, letter)
    BY <1>2 DEF Arrive, With
  <2> QED BY <1>1, <1>2, <2>1, Delivered DEF MailInv
<1>3. SUFFICES ASSUME NEW d \in Depots PROVE Sun(d)' <= 5 * ticks'
  BY DEF SunInv
<1>4. /\ depots[d].pv \in Nat /\ ticks \in Nat /\ Sun(d) <= 5 * ticks
      /\ Wait(mailbox, d, Updates) \in Nat /\ Wait(mailbox, "pv", Letters) \in Nat
      /\ d # "pv" /\ "depot" \in Depots
  BY SunTypes, Apart, FleetAssumption DEF DepotStates, SunInv
<1>5. ASSUME NEW from \in {"tms", "tester"}, Arrive("vehicle", "Dispatch", from), ticks' = ticks
      PROVE  Sun(d)' <= 5 * ticks'
  <2> DEFINE letter == [topic |-> "Dispatch", from |-> from]
  <2>1. letter \in VehicleMail /\ letter \in Letters /\ letter \notin Updates
    BY <1>5, Apart DEF VehicleMail, Letters, Updates, Of
  <2>2. Welcome(letter, "vehicle") /\ "vehicle" \in Agents
    BY <2>1, Apart DEF Welcome
  <2>3. /\ Wait(mailbox', d, Updates) = Wait(mailbox, d, Updates)
        /\ Wait(mailbox', "pv", Letters) = Wait(mailbox, "pv", Letters)
    BY <1>2, <1>4, <1>5, <2>1, <2>2
  <2> QED BY <1>1, <1>4, <1>5, <2>3 DEF Sun
<1>6. ASSUME Arrive("depot", "RequestSession", "vehicle"), ticks' = ticks
      PROVE  Sun(d)' <= 5 * ticks'
  <2> DEFINE letter == [topic |-> "RequestSession", from |-> "vehicle"]
  <2>1. letter \in DepotMail /\ letter \in Letters /\ letter \notin Updates
    BY Apart DEF DepotMail, Letters, Updates, Of
  <2>2. Welcome(letter, "depot") /\ "depot" \in Agents
    BY <1>4, <2>1, Apart DEF Welcome
  <2>3. /\ Wait(mailbox', d, Updates) = Wait(mailbox, d, Updates)
        /\ Wait(mailbox', "pv", Letters) = Wait(mailbox, "pv", Letters)
    BY <1>2, <1>4, <1>6, <2>1, <2>2
  <2> QED BY <1>1, <1>4, <1>6, <2>3 DEF Sun
<1>7. ASSUME Arrive("pv", "Tick", "self"), ticks' = ticks + 1
      PROVE  Sun(d)' <= 5 * ticks'
  <2> DEFINE letter == [topic |-> "Tick", from |-> "self"]
  <2>1. letter \in PvMail /\ letter \in Letters
    BY DEF PvMail, Letters
  <2>2. Welcome(letter, "pv") /\ "pv" \in Agents
    BY <2>1, Apart DEF Welcome
  <2>3. /\ Wait(mailbox', d, Updates) = Wait(mailbox, d, Updates)
        /\ Wait(mailbox', "pv", Letters) = Wait(mailbox, "pv", Letters) + 1
    BY <1>2, <1>4, <1>7, <2>1, <2>2
  <2> QED BY <1>1, <1>4, <1>7, <2>3 DEF Sun
<1> QED BY <1>5, <1>6, <1>7 DEF Post, Tick

LEMMA SunStep == FleetInv /\ SunInv /\ [Next]_vars => SunInv'
<1> SUFFICES ASSUME FleetInv, SunInv, [Next]_vars PROVE SunInv'
  OBVIOUS
<1>1. CASE UNCHANGED vars
  BY <1>1 DEF vars, SunInv, Sun
<1>2. CASE Next
  BY <1>2, VehicleSun, PvSun, TmsSun, RequestSun, PvUpdateSun, ArrivalSun, RestartSun
     DEF Next, DepotStep
<1> QED BY <1>1, <1>2

\* A step leaves the budget and the other load of a depot, and the gates.
LEMMA DepotsKeep ==
  ASSUME FleetInv, [Next]_vars, NEW d \in Depots
  PROVE  /\ depots'[d].current = depots[d].current /\ depots'[d].budget = depots[d].budget
         /\ gated' = gated /\ (ticks' = ticks \/ ticks' = ticks + 1)
<1>1. depots \in [Depots -> DepotStates]
  BY DEF FleetInv, TypeOK, DepotStates
<1>2. CASE UNCHANGED <<depots, gated, ticks>>
  BY <1>2
<1>3. ASSUME NEW e \in Depots, PvUpdate(e)
      PROVE  /\ depots'[d].current = depots[d].current
             /\ depots'[d].budget = depots[d].budget /\ UNCHANGED <<gated, ticks>>
  BY <1>1, <1>3 DEF PvUpdate, DepotStates
<1>4. ASSUME NEW a \in Agents, Restart(a)
      PROVE  /\ depots'[d].current = depots[d].current
             /\ depots'[d].budget = depots[d].budget /\ UNCHANGED <<gated, ticks>>
  <2>1. depots'[d] = [depots[d] EXCEPT !.pv = 0] \/ depots'[d] = depots[d]
    BY <1>4 DEF Restart
  <2> QED BY <1>1, <1>4, <2>1 DEF Restart, DepotStates
<1>5. CASE Tick
  BY <1>5 DEF Tick
<1>6. ASSUME VehicleStep \/ PvStep \/ TmsStep \/ Post \/ \E e \in Depots : Request(e)
      PROVE  UNCHANGED <<depots, gated, ticks>>
  BY <1>6 DEF VehicleStep, PvStep, TmsStep, Post, Request
<1>7. UNCHANGED vars => UNCHANGED <<depots, gated, ticks>>
  BY DEF vars
<1> QED BY <1>2, <1>3, <1>4, <1>5, <1>6, <1>7 DEF Next, DepotStep

LEMMA PowerStep == FleetInv /\ SunInv /\ PowerInv /\ [Next]_vars => PowerInv'
<1> SUFFICES ASSUME FleetInv, SunInv, PowerInv, [Next]_vars,
                    NEW d \in Depots, d \in gated', performed'[Grant(d)] > 0
             PROVE  depots'[d].current + 50 <= depots'[d].budget + 5 * ticks'
  BY DEF PowerInv
<1>1. /\ depots'[d].current = depots[d].current /\ depots'[d].budget = depots[d].budget
      /\ d \in gated /\ (ticks' = ticks \/ ticks' = ticks + 1)
  BY DepotsKeep
<1>2. /\ depots[d] \in DepotStates /\ ticks \in Nat
      /\ Wait(mailbox, d, Updates) \in Nat /\ Wait(mailbox, "pv", Letters) \in Nat
  BY SunTypes
<1>3. depots[d].current + 50 <= depots[d].budget + 5 * ticks
  <2>1. CASE performed'[Grant(d)] = performed[Grant(d)]
    BY <1>1, <2>1 DEF PowerInv
  <2>2. CASE performed'[Grant(d)] # performed[Grant(d)]
    <3>1. depots[d].current + 50 <= depots[d].budget + depots[d].pv
      BY <1>1, <2>2, FleetFacts, StepCounts
    <3>2. depots[d].pv <= 5 * ticks
      BY <1>2 DEF SunInv, Sun, DepotStates
    <3> QED BY <1>2, <3>1, <3>2 DEF DepotStates
  <2> QED BY <2>1, <2>2
<1> QED BY <1>1, <1>2, <1>3 DEF DepotStates

\* With all depots gated, a delivery that had to charge is completed only on
\* power that some depot had, of its own or from the ticks of pv, whatever was
\* asked for, by whom, and in whatever order sun, requests, losses and
\* restarts come (depot.lex:23-54, depot.spec:19-23, vehicle.lex:50-59).
THEOREM CompletesOnPowerHolds == FairSpec => []CompletesOnPower
<1>1. Init => SunInv /\ PowerInv
  <2> SUFFICES ASSUME Init PROVE SunInv /\ PowerInv
    OBVIOUS
  <2>1. \A b, S : Wait(mailbox, b, S) = 0
    BY HitsEmpty DEF Init, Wait
  <2>2. \A d \in Depots : depots[d].pv = 0 /\ performed[Grant(d)] = 0
    BY FleetAssumption, GrantIsTalk DEF Init
  <2> QED BY <2>1, <2>2 DEF Init, SunInv, Sun, PowerInv
<1>2. FleetInv /\ SunInv /\ PowerInv => CompletesOnPower
  <2> SUFFICES ASSUME FleetInv, PowerInv, Depots \subseteq gated, Performed("Complete") > 0
               PROVE  \E d \in Depots :
                        /\ performed[Grant(d)] > 0
                        /\ depots[d].current + 50 <= depots[d].budget + 5 * ticks
    BY DEF CompletesOnPower, Grant
  <2>1. /\ Performed("Complete") \in Nat /\ Performed("GrantSession") \in Nat
        /\ Wait(mailbox, "vehicle", Grants) \in Nat
    BY FleetFacts, PerformedType, WaitType DEF MailInv
  <2>2. Performed("GrantSession") > 0
    BY <2>1 DEF FleetInv, EarnedInv
  <2>3. PICK d \in Depots : performed[Grant(d)] > 0
    <3>1. /\ Times("vehicle", "tms", "GrantSession") = 0
          /\ Times("vehicle", "tester", "GrantSession") = 0
      BY FleetAssumption DEF Times, Talk
    <3>2. \A d \in {"depot", "depot2"} :
            Times(d, "vehicle", "GrantSession") # 0
              => d \in Depots /\ Times(d, "vehicle", "GrantSession") = performed[Grant(d)]
      BY FleetAssumption DEF Times, Talk, Grant
    <3>3. \A d \in Depots : performed[Grant(d)] \in Nat
      BY FleetFacts, GrantIsTalk DEF CountInv
    <3>4. \/ Times("depot", "vehicle", "GrantSession") # 0
          \/ Times("depot2", "vehicle", "GrantSession") # 0
      BY <2>2, <3>1 DEF Performed
    <3> QED BY <3>2, <3>3, <3>4
  <2> QED BY <2>3 DEF PowerInv
<1>3. FleetInv /\ SunInv /\ PowerInv /\ [Next]_vars => SunInv' /\ PowerInv'
  BY SunStep, PowerStep
<1> QED BY <1>1, <1>2, <1>3, FleetInvariant, PTL DEF FairSpec
=============================================================================

---------------------------- MODULE RouterProofs ----------------------------
(***************************************************************************)
(* Theorems about Router, for any runners, names, handlers and gates.       *)
(***************************************************************************)
EXTENDS Router, SequenceTheorems, FiniteSetTheorems, TLAPS

-----------------------------------------------------------------------------
(* Types.                                                                  *)

Nodes == [target : {"action.proposed", "gate.verdict", "action.executed"},
          shape : {"none", "object"}, verdict : {"none", "allow", "deny"}]

TypeInv ==
  /\ setup \in Setups /\ start \in Starts
  /\ built \in 0..Len(setup)
  /\ open \subseteq 1..built
  /\ mailbox \in [Runners -> Seq(Letters)]
  /\ pending = NoAction \/ pending.topic \in Topics
  /\ turn \in Nat /\ moved \in Nat /\ seeds \in Nat
  /\ trace \in [Runners -> Seq(Nodes)]
  /\ accepted \in [Runners -> Seq(Letters)]
  /\ received \in [Runners -> Seq(Letters)]

LEMMA RunnersOf ==
  ASSUME NEW s \in Setups
  PROVE  /\ Len(s) \in Nat /\ Len(s) > 0 /\ DOMAIN s = 1..Len(s)
         /\ 1..Len(s) \subseteq Runners
         /\ \A i \in 1..Len(s) : s[i] \in Names
<1>1. s \in Seq(ToSet(s)) /\ Len(s) > 0
  BY RouterAssumption
<1>2. Len(s) \in Nat /\ DOMAIN s = 1..Len(s)
  BY <1>1, LenProperties
<1>3. 1..Len(s) \subseteq Runners
  BY <1>2 DEF Runners
<1>4. \A i \in 1..Len(s) : s[i] \in Names
  <2>1. \A i \in 1..Len(s) : s[i] \in ToSet(s)
    BY <1>2 DEF ToSet
  <2> QED BY <2>1 DEF Names
<1> QED BY <1>1, <1>2, <1>3, <1>4

LEMMA RunnersPositive == Runners \subseteq Nat \ {0}
<1>1. ASSUME NEW i \in Runners PROVE i \in Nat \ {0}
  <2>1. PICK s \in Setups : i \in DOMAIN s
    BY DEF Runners
  <2> QED BY <2>1, RunnersOf
<1> QED BY <1>1

LEMMA OpenRunners == TypeInv => open \subseteq Runners /\ open \subseteq 1..Len(setup)
<1> SUFFICES ASSUME TypeInv PROVE open \subseteq Runners /\ open \subseteq 1..Len(setup)
  OBVIOUS
<1>1. built \in Nat /\ built <= Len(setup) /\ open \subseteq 1..built
  BY RunnersOf DEF TypeInv
<1>2. Len(setup) \in Nat /\ 1..Len(setup) \subseteq Runners
  BY RunnersOf DEF TypeInv
<1>3. 1..built \subseteq 1..Len(setup)
  BY <1>1, <1>2
<1> QED BY <1>1, <1>2, <1>3

LEMMA NodeType ==
  /\ Node("action.proposed", "none") \in Nodes
  /\ Node("action.executed", "none") \in Nodes
  /\ Node("gate.verdict", "allow") \in Nodes
  /\ Node("gate.verdict", "deny") \in Nodes
BY DEF Node, Nodes

LEMMA VerdictType ==
  ASSUME NEW i
  PROVE  Verdict(i) \in Seq(Nodes)
BY NodeType DEF Verdict

LEMMA Seqs ==
  ASSUME NEW T, NEW e \in T
  PROVE  <<>> \in Seq(T) /\ <<e>> \in Seq(T)
OBVIOUS

LEMMA TypeInit == Init => TypeInv
<1> SUFFICES ASSUME Init PROVE TypeInv
  OBVIOUS
<1>1. 0 \in 0..Len(setup)
  BY RunnersOf DEF Init
<1> QED BY <1>1 DEF Init, TypeInv

LEMMA PutType ==
  ASSUME TypeInv, NEW i \in Runners, NEW letter \in Letters, Put(i, letter)
  PROVE  /\ mailbox' \in [Runners -> Seq(Letters)]
         /\ accepted' \in [Runners -> Seq(Letters)]
         /\ received' \in [Runners -> Seq(Letters)]
<1>1. mailbox[i] \in Seq(Letters) /\ accepted[i] \in Seq(Letters)
  BY DEF TypeInv
<1>2. Append(mailbox[i], letter) \in Seq(Letters) /\ Append(accepted[i], letter) \in Seq(Letters)
  BY <1>1, AppendProperties
<1> QED BY <1>2 DEF TypeInv, Put

\* How often a runner has executed an action, by its trace.
Sends(i) == Cardinality(TargetAt(trace[i], "action.executed"))

LEMMA TargetsFinite ==
  ASSUME NEW T, NEW tr \in Seq(T), NEW target
  PROVE  /\ IsFiniteSet(TargetAt(tr, target))
         /\ Cardinality(TargetAt(tr, target)) \in Nat
<1>1. TargetAt(tr, target) \in SUBSET (1..Len(tr)) /\ Len(tr) \in Nat
  BY LenProperties DEF TargetAt
<1>2. IsFiniteSet(1..Len(tr))
  BY <1>1, FS_Interval
<1>3. IsFiniteSet(TargetAt(tr, target))
  BY <1>1, <1>2, FS_Subset
<1> QED BY <1>3, FS_CardinalityType

\* A longer trace has no fewer events of a kind, and more if it ends with one.
LEMMA TargetsGrow ==
  ASSUME NEW T, NEW tr \in Seq(T), NEW more \in Seq(T), NEW target
  PROVE  /\ Cardinality(TargetAt(tr, target)) <= Cardinality(TargetAt(tr \o more, target))
         /\ more # <<>> /\ more[Len(more)].target = target
            => Cardinality(TargetAt(tr, target)) + 1
                 <= Cardinality(TargetAt(tr \o more, target))
<1> DEFINE Old == TargetAt(tr, target)
           New == TargetAt(tr \o more, target)
           last == Len(tr) + Len(more)
<1>1. /\ Len(tr) \in Nat /\ Len(more) \in Nat
      /\ DOMAIN tr = 1..Len(tr) /\ DOMAIN more = 1..Len(more)
  BY LenProperties
<1>2. /\ tr \o more \in Seq(T) /\ Len(tr \o more) = last
      /\ \A k \in 1..Len(tr) : (tr \o more)[k] = tr[k]
      /\ \A k \in 1..Len(more) : (tr \o more)[Len(tr) + k] = more[k]
  BY <1>1, ConcatProperties
<1>3. DOMAIN (tr \o more) = 1..last
  BY <1>2, LenProperties
<1>4. Old \subseteq New
  BY <1>1, <1>2, <1>3 DEF TargetAt
<1>5. IsFiniteSet(New) /\ Cardinality(New) \in Nat /\ IsFiniteSet(Old) /\ Cardinality(Old) \in Nat
  BY <1>2, TargetsFinite
<1>6. Cardinality(Old) <= Cardinality(New)
  BY <1>4, <1>5, FS_Subset
<1>7. ASSUME more # <<>>, more[Len(more)].target = target
      PROVE  Cardinality(Old) + 1 <= Cardinality(New)
  <2>1. Len(more) \in 1..Len(more)
    BY <1>1, <1>7, EmptySeq
  <2>2. last \in New /\ last \notin Old
    BY <1>1, <1>2, <1>3, <1>7, <2>1 DEF TargetAt
  <2>3. Cardinality(Old \cup {last}) = Cardinality(Old) + 1
    BY <1>5, <2>2, FS_AddElement
  <2>4. Old \cup {last} \in SUBSET New
    BY <1>4, <2>2
  <2>5. Cardinality(Old \cup {last}) <= Cardinality(New)
    BY <1>5, <2>4, FS_Subset
  <2> QED BY <2>3, <2>5
<1> QED BY <1>6, <1>7

\* What a step of a runner records: nothing less than was there, and one
\* execution if it executes.
LEMMA Recorded ==
  ASSUME TypeInv, NEW i \in 1..Len(setup), NEW nodes \in Seq(Nodes), Record(i, nodes)
  PROVE  /\ trace' \in [Runners -> Seq(Nodes)]
         /\ \A j \in Runners : Sends(j)' >= Sends(j)
         /\ nodes # <<>> /\ nodes[Len(nodes)].target = "action.executed"
            => Sends(i)' >= Sends(i) + 1
<1> DEFINE first == trace[i] \o <<Node("action.proposed", "none")>>
<1>1. i \in Runners /\ trace[i] \in Seq(Nodes)
  BY RunnersOf DEF TypeInv
<1>2. first \in Seq(Nodes)
  BY <1>1, NodeType, Seqs, ConcatProperties
<1>3. first \o nodes \in Seq(Nodes)
  BY <1>2, ConcatProperties
<1>4. trace' = [trace EXCEPT ![i] = first \o nodes]
  BY DEF Record
<1>5. /\ trace' \in [Runners -> Seq(Nodes)]
      /\ trace'[i] = first \o nodes
      /\ \A j \in Runners \ {i} : trace'[j] = trace[j]
  <2> HIDE DEF first
  <2> QED BY <1>1, <1>3, <1>4 DEF TypeInv
<1>6. \A j \in Runners : Sends(j) \in Nat
  BY TargetsFinite DEF TypeInv, Sends
<1>7. Cardinality(TargetAt(first, "action.executed")) \in Nat
  BY <1>2, TargetsFinite
<1>8. Sends(i)' = Cardinality(TargetAt(first \o nodes, "action.executed")) /\ Sends(i)' \in Nat
  BY <1>3, <1>5, TargetsFinite DEF Sends
<1>9. Sends(i) <= Cardinality(TargetAt(first, "action.executed"))
  BY <1>1, NodeType, Seqs, TargetsGrow DEF Sends
<1>10. /\ Cardinality(TargetAt(first, "action.executed")) <= Sends(i)'
       /\ nodes # <<>> /\ nodes[Len(nodes)].target = "action.executed"
          => Cardinality(TargetAt(first, "action.executed")) + 1 <= Sends(i)'
  BY <1>2, <1>8, TargetsGrow
<1>11. \A j \in Runners \ {i} : Sends(j)' = Sends(j)
  BY <1>5 DEF Sends
<1> HIDE DEF first
<1>12. Sends(i)' >= Sends(i)
  BY <1>1, <1>6, <1>7, <1>8, <1>9, <1>10
<1>13. nodes # <<>> /\ nodes[Len(nodes)].target = "action.executed" => Sends(i)' >= Sends(i) + 1
  BY <1>1, <1>6, <1>7, <1>8, <1>9, <1>10
<1> QED BY SMTT(40), <1>5, <1>6, <1>11, <1>12, <1>13

\* What Perform records when it executes.
LEMMA ExecutedNodes ==
  ASSUME NEW i
  PROVE  LET nodes == Verdict(i) \o <<Node("action.executed", "none")>>
         IN  /\ nodes \in Seq(Nodes) /\ nodes # <<>>
             /\ nodes[Len(nodes)].target = "action.executed"
<1> DEFINE e == Node("action.executed", "none")
           nodes == Verdict(i) \o <<e>>
<1>1. Verdict(i) \in Seq(Nodes) /\ <<e>> \in Seq(Nodes) /\ Len(<<e>>) = 1 /\ <<e>>[1] = e
  BY VerdictType, NodeType, Seqs
<1>2. /\ nodes \in Seq(Nodes) /\ Len(nodes) = Len(Verdict(i)) + 1
      /\ nodes[Len(Verdict(i)) + 1] = e
  BY <1>1, ConcatProperties, LenProperties
<1>3. nodes # <<>>
  BY <1>1, <1>2, EmptySeq, LenProperties
<1>4. e.target = "action.executed"
  BY DEF Node
<1> QED BY <1>2, <1>3, <1>4

LEMMA LetterType ==
  ASSUME TypeInv, NEW i \in 1..Len(setup), pending # NoAction
  PROVE  Letter(i) \in Letters /\ Letter(i).by = i /\ Letter(i).n = Sends(i) + 1
<1>1. i \in Runners /\ setup[i] \in Names
  BY RunnersOf DEF TypeInv
<1>2. Sends(i) \in Nat
  BY <1>1, TargetsFinite DEF TypeInv, Sends
<1>3. pending.topic \in Topics
  BY DEF TypeInv
<1> QED BY <1>1, <1>2, <1>3 DEF Letter, Letters, Sends

LEMMA SeedType ==
  ASSUME TypeInv, NEW from \in Senders
  PROVE  [by |-> 0, n |-> seeds + 1, from |-> from, topic |-> Seed.topic] \in Letters
<1>1. from \in Names
  BY DEF Names
<1>2. Seed.topic \in Topics
  BY Zenon, RouterAssumption
<1>3. seeds + 1 \in Nat
  BY DEF TypeInv
<1> QED BY <1>1, <1>2, <1>3 DEF Letters

LEMMA DrainedMeans ==
  ASSUME TypeInv, NEW i \in 1..Len(setup), Drained(i)
  PROVE  /\ At(i) /\ pending = NoAction /\ mailbox[i] = <<>>
         /\ turn' = IF i < Len(setup) THEN turn + 1 ELSE 1
         /\ moved' = IF i < Len(setup) THEN moved ELSE 0
         /\ i < Len(setup) => phase' = phase
         /\ i = Len(setup) => (phase' = "settled" => moved = 0)
         /\ UNCHANGED <<world, mailbox, open, pending, seeds, early, trace, histories>>
<1>1. /\ At(i) /\ pending = NoAction /\ mailbox[i] = <<>>
      /\ turn' = IF i < Len(setup) THEN turn + 1 ELSE 1
      /\ moved' = IF i < Len(setup) THEN moved ELSE 0
      /\ UNCHANGED <<world, mailbox, open, pending, seeds, early, trace, histories>>
  BY Zenon DEF Drained
<1>2. phase = "draining"
  BY <1>1 DEF At
<1>3. phase' = CASE i < Len(setup) -> phase
                [] i = Len(setup) /\ moved = 0 -> "settled"
                [] OTHER -> IF rounds' = MaxRounds THEN "gave up" ELSE phase
  BY Zenon DEF Drained
<1>4. Len(setup) \in Nat
  BY RunnersOf DEF TypeInv
<1>5. ASSUME i < Len(setup) PROVE phase' = phase
  <2>1. i # Len(setup)
    BY <1>4, <1>5
  <2> QED BY Zenon, <1>3, <1>5, <2>1
<1>6. ASSUME i = Len(setup), moved # 0 PROVE phase' # "settled"
  <2>1. ~(i < Len(setup))
    BY <1>4, <1>6
  <2>2. phase' = IF rounds' = MaxRounds THEN "gave up" ELSE phase
    BY Zenon, <1>3, <1>6, <2>1
  <2> QED BY <1>2, <2>2
<1>7. ASSUME i = Len(setup), moved = 0 PROVE phase' = "settled"
  <2>1. ~(i < Len(setup))
    BY <1>4, <1>7
  <2> QED BY Zenon, <1>3, <1>7, <2>1
<1> QED BY <1>1, <1>5, <1>6, <1>7

\* The steps, with what a send of a runner comes to.
LEMMA Steps ==
  ASSUME TypeInv, [Next]_vars
  PROVE  \/ Build \/ StartDraining \/ UNCHANGED vars
         \/ \E i \in 1..Len(setup) :
              \/ SendSeed(i) \/ Take(i) \/ Perform(i) \/ Drained(i)
              \/ FinalizeEarly(i) \/ Finalize(i)
BY DEF Next, Driver, RunnerStep

LEMMA PerformCases ==
  ASSUME TypeInv, NEW i \in 1..Len(setup), Perform(i)
  PROVE  /\ At(i) /\ pending # NoAction /\ pending' = NoAction
         /\ UNCHANGED <<world, open, progress, seeds, early>>
         /\ trace' \in [Runners -> Seq(Nodes)]
         /\ \A j \in Runners : Sends(j)' >= Sends(j)
         /\ \/ UNCHANGED <<mailbox, histories>>
            \/ /\ Sends(i)' >= Sends(i) + 1
               /\ \E b \in open : Put(b, Letter(i))
<1>1. CASE /\ Record(i, Verdict(i) \o <<Node("action.executed", "none")>>)
           /\ Execute(i)
  <2>1. /\ Verdict(i) \o <<Node("action.executed", "none")>> \in Seq(Nodes)
        /\ Verdict(i) \o <<Node("action.executed", "none")>> # <<>>
        /\ (Verdict(i) \o <<Node("action.executed", "none")>>)
             [Len(Verdict(i) \o <<Node("action.executed", "none")>>)].target = "action.executed"
    BY ExecutedNodes
  <2>2. /\ trace' \in [Runners -> Seq(Nodes)]
        /\ \A j \in Runners : Sends(j)' >= Sends(j)
        /\ Sends(i)' >= Sends(i) + 1
    BY <1>1, <2>1, Recorded
  <2>3. UNCHANGED <<mailbox, histories>> \/ \E b \in open : Put(b, Letter(i))
    BY <1>1 DEF Execute
  <2>4. /\ At(i) /\ pending # NoAction /\ pending' = NoAction
        /\ UNCHANGED <<world, open, progress, seeds, early>>
    BY <1>1 DEF Perform, Record
  <2> QED BY <2>2, <2>3, <2>4
<1>2. CASE Record(i, Verdict(i)) /\ UNCHANGED <<mailbox, histories>>
  <2>1. /\ trace' \in [Runners -> Seq(Nodes)]
        /\ \A j \in Runners : Sends(j)' >= Sends(j)
    BY <1>2, VerdictType, Recorded
  <2>2. /\ At(i) /\ pending # NoAction /\ pending' = NoAction
        /\ UNCHANGED <<world, open, progress, seeds, early>>
    BY <1>2 DEF Perform, Record
  <2> QED BY <1>2, <2>1, <2>2
<1> QED BY <1>1, <1>2 DEF Perform

LEMMA TypeStep == TypeInv /\ [Next]_vars => TypeInv'
<1> SUFFICES ASSUME TypeInv, [Next]_vars PROVE TypeInv'
  OBVIOUS
<1>0. Len(setup) \in Nat /\ built \in Nat /\ 1..Len(setup) \subseteq Runners
  BY RunnersOf DEF TypeInv
<1>a. open \subseteq Runners /\ open \subseteq 1..Len(setup)
  BY OpenRunners
<1>1. CASE Build
  BY <1>0, <1>1 DEF TypeInv, Build, progress, histories
<1>2. CASE StartDraining
  BY <1>2 DEF TypeInv, StartDraining, world, histories
<1>3. CASE UNCHANGED vars
  BY <1>3 DEF TypeInv, vars, world, progress, histories
<1>4. ASSUME NEW i \in 1..Len(setup), SendSeed(i) PROVE TypeInv'
  <2>1. PICK from \in Senders :
          Put(i, [by |-> 0, n |-> seeds + 1, from |-> from, topic |-> Seed.topic])
    BY <1>4 DEF SendSeed
  <2>2. /\ mailbox' \in [Runners -> Seq(Letters)]
        /\ accepted' \in [Runners -> Seq(Letters)]
        /\ received' \in [Runners -> Seq(Letters)]
    BY <1>0, <2>1, SeedType, PutType
  <2> QED BY <1>4, <2>2 DEF TypeInv, SendSeed, world, progress
<1>5. ASSUME NEW i \in 1..Len(setup), Take(i) PROVE TypeInv'
  <2>1. i \in Runners /\ mailbox[i] \in Seq(Letters) /\ mailbox[i] # <<>>
        /\ received[i] \in Seq(Letters)
    BY <1>0, <1>5 DEF TypeInv, Take
  <2>2. Head(mailbox[i]) \in Letters /\ Tail(mailbox[i]) \in Seq(Letters)
    BY <2>1, HeadTailProperties
  <2>3. Append(received[i], Head(mailbox[i])) \in Seq(Letters)
    BY <2>1, <2>2, AppendProperties
  <2>4. /\ mailbox' = [mailbox EXCEPT ![i] = Tail(mailbox[i])]
        /\ received' = [received EXCEPT ![i] = Append(received[i], Head(mailbox[i]))]
    BY <1>5 DEF Take, Handled
  <2>5. /\ mailbox' \in [Runners -> Seq(Letters)]
        /\ received' \in [Runners -> Seq(Letters)]
    BY <2>2, <2>3, <2>4 DEF TypeInv
  <2>6. pending' = NoAction \/ pending'.topic \in Topics
    <3>1. Head(mailbox[i]).from \in Names /\ Head(mailbox[i]).topic \in Topics
      BY <2>2 DEF Letters
    <3>2. setup[i] \in Names /\ start \in Starts
      BY RunnersOf DEF TypeInv
    <3>3. \/ pending' = NoAction
          \/ /\ Handles(setup[i], Head(mailbox[i]).topic)
             /\ pending' = React(setup[i], start, Head(mailbox[i]).from, Head(mailbox[i]).topic)
      BY <1>5 DEF Take, Handled
    <3> QED BY <3>1, <3>2, <3>3, RouterAssumption
  <2> QED BY SMTT(40), <1>5, <2>5, <2>6 DEF TypeInv, Take, Handled, world
<1>6. ASSUME NEW i \in 1..Len(setup), Perform(i) PROVE TypeInv'
  <2>1. /\ pending # NoAction /\ pending' = NoAction
        /\ UNCHANGED <<world, open, progress, seeds>>
        /\ trace' \in [Runners -> Seq(Nodes)]
    BY <1>6, PerformCases
  <2>2. /\ mailbox' \in [Runners -> Seq(Letters)]
        /\ accepted' \in [Runners -> Seq(Letters)]
        /\ received' \in [Runners -> Seq(Letters)]
    <3>1. CASE UNCHANGED <<mailbox, histories>>
      BY <3>1 DEF TypeInv, histories
    <3>2. ASSUME NEW b \in open, Put(b, Letter(i)) PROVE <2>2
      BY <1>a, <2>1, <3>2, LetterType, PutType
    <3> QED BY <1>6, <3>1, <3>2, PerformCases
  <2> QED BY <2>1, <2>2 DEF TypeInv, world, progress
<1>7. ASSUME NEW i \in 1..Len(setup), Drained(i) PROVE TypeInv'
  <2>1. /\ turn' \in Nat /\ moved' \in Nat
        /\ UNCHANGED <<world, mailbox, open, pending, seeds, early, trace, histories>>
    BY <1>7, DrainedMeans DEF TypeInv
  <2> QED BY <2>1 DEF TypeInv, world, histories
<1>8. ASSUME NEW i \in 1..Len(setup), Close(i) PROVE TypeInv'
  <2>1. /\ open' = open \ {i} /\ mailbox' = [mailbox EXCEPT ![i] = <<>>]
        /\ UNCHANGED <<world, pending, progress, seeds, trace, histories>>
    BY <1>8 DEF Close
  <2>2. mailbox' \in [Runners -> Seq(Letters)]
    BY <2>1, EmptySeq DEF TypeInv
  <2> QED BY <2>1, <2>2 DEF TypeInv, world, progress, histories
<1> QED BY <1>1, <1>2, <1>3, <1>4, <1>5, <1>6, <1>7, <1>8, Steps DEF FinalizeEarly, Finalize

-----------------------------------------------------------------------------
(* The order of a mailbox: what it accepted is what its runner took, and    *)
(* what it holds.                                                          *)

Queue(all, done, box) ==
  /\ Len(all) = Len(done) + Len(box)
  /\ \A k \in 1..Len(box) : box[k] = all[Len(done) + k]

QueueInv ==
  \A i \in Runners :
    /\ i \in open \/ i > built => Queue(accepted[i], received[i], mailbox[i])
    /\ i \notin open => mailbox[i] = <<>>

LEMMA QueuePut ==
  ASSUME NEW T, NEW all \in Seq(T), NEW done \in Seq(T), NEW box \in Seq(T),
         Queue(all, done, box), NEW m \in T
  PROVE  Queue(Append(all, m), done, Append(box, m))
<1>1. /\ Len(all) \in Nat /\ Len(done) \in Nat /\ Len(box) \in Nat
      /\ DOMAIN all = 1..Len(all) /\ DOMAIN box = 1..Len(box)
  BY LenProperties
<1>2. /\ Len(Append(all, m)) = Len(all) + 1 /\ Len(Append(box, m)) = Len(box) + 1
      /\ \A k \in 1..Len(all) : Append(all, m)[k] = all[k]
      /\ \A k \in 1..Len(box) : Append(box, m)[k] = box[k]
      /\ Append(all, m)[Len(all) + 1] = m /\ Append(box, m)[Len(box) + 1] = m
  BY <1>1, AppendProperties
<1>3. ASSUME NEW k \in 1..(Len(box) + 1)
      PROVE  Append(box, m)[k] = Append(all, m)[Len(done) + k]
  <2>1. CASE k \in 1..Len(box)
    <3>1. Len(done) + k \in 1..Len(all)
      BY <1>1, <2>1 DEF Queue
    <3> QED BY <1>2, <2>1, <3>1 DEF Queue
  <2>2. CASE k = Len(box) + 1
    BY <1>1, <1>2, <2>2 DEF Queue
  <2>3. k \in 1..Len(box) \/ k = Len(box) + 1
    BY <1>1
  <2> QED BY <2>1, <2>2, <2>3
<1>4. Len(all) = Len(done) + Len(box)
  BY DEF Queue
<1> DEFINE longer == Append(all, m)
           fuller == Append(box, m)
<1>5. /\ Len(longer) = Len(all) + 1 /\ Len(fuller) = Len(box) + 1
      /\ \A k \in 1..(Len(box) + 1) : fuller[k] = longer[Len(done) + k]
  BY <1>2, <1>3
<1> HIDE DEF longer, fuller
<1>6. Len(longer) = Len(done) + Len(fuller)
  BY <1>1, <1>4, <1>5
<1>7. Queue(longer, done, fuller)
  BY <1>5, <1>6 DEF Queue
<1> QED BY <1>7 DEF longer, fuller

LEMMA QueueTake ==
  ASSUME NEW T, NEW all \in Seq(T), NEW done \in Seq(T), NEW box \in Seq(T),
         Queue(all, done, box), box # <<>>
  PROVE  /\ Queue(all, Append(done, Head(box)), Tail(box))
         /\ Len(done) + 1 <= Len(all) /\ Head(box) = all[Len(done) + 1]
<1>1. /\ Len(all) \in Nat /\ Len(done) \in Nat /\ Len(box) \in Nat /\ Len(box) >= 1
      /\ Head(box) = box[1] /\ Head(box) \in T
      /\ Len(Tail(box)) = Len(box) - 1
      /\ \A k \in 1..(Len(box) - 1) : Tail(box)[k] = box[k + 1]
  BY LenProperties, EmptySeq, HeadTailProperties
<1>2. Len(Append(done, Head(box))) = Len(done) + 1
  BY <1>1, AppendProperties
<1>3. ASSUME NEW k \in 1..(Len(box) - 1)
      PROVE  Tail(box)[k] = all[Len(done) + 1 + k]
  <2>1. k + 1 \in 1..Len(box) /\ Len(done) + (k + 1) = Len(done) + 1 + k
    BY <1>1
  <2>2. Tail(box)[k] = box[k + 1] /\ box[k + 1] = all[Len(done) + (k + 1)]
    BY <1>1, <2>1 DEF Queue
  <2> QED BY <2>1, <2>2
<1>4. Head(box) = all[Len(done) + 1] /\ Len(done) + 1 <= Len(all)
  BY <1>1 DEF Queue
<1> QED BY <1>1, <1>2, <1>3, <1>4 DEF Queue

LEMMA QueueInit == Init => QueueInv
BY EmptySeq, RunnersPositive DEF Init, QueueInv, Queue

LEMMA QueueAccepts ==
  ASSUME TypeInv, QueueInv, NEW b \in open, NEW m \in Letters, Put(b, m),
         UNCHANGED <<open, built>>
  PROVE  QueueInv'
<1>0. b \in Runners /\ b \in open
  BY OpenRunners
<1>1. /\ mailbox' = [mailbox EXCEPT ![b] = Append(mailbox[b], m)]
      /\ accepted' = [accepted EXCEPT ![b] = Append(accepted[b], m)]
      /\ received' = received
  BY DEF Put
<1>2. Queue(accepted'[b], received'[b], mailbox'[b])
  <2>1. /\ mailbox[b] \in Seq(Letters) /\ accepted[b] \in Seq(Letters)
        /\ received[b] \in Seq(Letters) /\ Queue(accepted[b], received[b], mailbox[b])
    BY <1>0 DEF TypeInv, QueueInv
  <2>2. /\ mailbox'[b] = Append(mailbox[b], m) /\ accepted'[b] = Append(accepted[b], m)
        /\ received'[b] = received[b]
    BY <1>0, <1>1 DEF TypeInv
  <2> QED BY <2>1, <2>2, QueuePut
<1>3. \A i \in Runners \ {b} : /\ mailbox'[i] = mailbox[i] /\ accepted'[i] = accepted[i]
                               /\ received'[i] = received[i]
  BY <1>1 DEF TypeInv
<1> QED BY <1>0, <1>2, <1>3 DEF QueueInv

LEMMA QueueStep == TypeInv /\ QueueInv /\ [Next]_vars => QueueInv'
<1> SUFFICES ASSUME TypeInv, QueueInv, [Next]_vars PROVE QueueInv'
  OBVIOUS
<1>0. Len(setup) \in Nat /\ built \in Nat /\ 1..Len(setup) \subseteq Runners
  BY RunnersOf DEF TypeInv
<1>1. ASSUME UNCHANGED <<open, built, mailbox, accepted, received>> PROVE QueueInv'
  BY <1>1 DEF QueueInv
<1>2. CASE Build
  <2>1. /\ built' = built + 1 /\ open' = open \cup {built + 1}
        /\ UNCHANGED <<mailbox, accepted, received>>
    BY <1>2 DEF Build, histories
  <2>2. \A i \in Runners : i \in Nat
    BY RunnersPositive
  <2> QED BY <1>0, <2>1, <2>2 DEF QueueInv
<1>3. CASE StartDraining
  BY <1>1, <1>3 DEF StartDraining, world, histories
<1>4. CASE UNCHANGED vars
  BY <1>1, <1>4 DEF vars, world, histories
<1>5. ASSUME NEW i \in 1..Len(setup), SendSeed(i) PROVE QueueInv'
  <2>1. PICK from \in Senders :
          Put(i, [by |-> 0, n |-> seeds + 1, from |-> from, topic |-> Seed.topic])
    BY <1>5 DEF SendSeed
  <2>2. i \in open /\ UNCHANGED <<open, built>>
    BY <1>5 DEF SendSeed, world
  <2> QED BY <2>1, <2>2, SeedType, QueueAccepts
<1>6. ASSUME NEW i \in 1..Len(setup), Take(i) PROVE QueueInv'
  <2>1. i \in Runners /\ mailbox[i] \in Seq(Letters) /\ mailbox[i] # <<>>
        /\ received[i] \in Seq(Letters) /\ accepted[i] \in Seq(Letters)
    BY <1>0, <1>6 DEF TypeInv, Take
  <2>2. i \in open
    BY <2>1 DEF QueueInv
  <2>3. Queue(accepted[i], Append(received[i], Head(mailbox[i])), Tail(mailbox[i]))
    BY <2>1, <2>2, QueueTake DEF QueueInv
  <2>4. /\ mailbox' = [mailbox EXCEPT ![i] = Tail(mailbox[i])]
        /\ received' = [received EXCEPT ![i] = Append(received[i], Head(mailbox[i]))]
        /\ UNCHANGED <<open, built, accepted>>
    BY <1>6 DEF Take, Handled, world
  <2>5. /\ mailbox'[i] = Tail(mailbox[i])
        /\ received'[i] = Append(received[i], Head(mailbox[i]))
        /\ \A j \in Runners \ {i} : mailbox'[j] = mailbox[j] /\ received'[j] = received[j]
    BY <2>1, <2>4 DEF TypeInv
  <2> QED BY <2>2, <2>3, <2>4, <2>5 DEF QueueInv
<1>7. ASSUME NEW i \in 1..Len(setup), Perform(i) PROVE QueueInv'
  <2>1. pending # NoAction /\ UNCHANGED <<open, built>>
    BY <1>7, PerformCases DEF world
  <2>2. CASE UNCHANGED <<mailbox, histories>>
    BY <1>1, <2>1, <2>2 DEF histories
  <2>3. ASSUME NEW b \in open, Put(b, Letter(i)) PROVE QueueInv'
    BY <2>1, <2>3, LetterType, QueueAccepts
  <2> QED BY <1>7, <2>2, <2>3, PerformCases
<1>8. ASSUME NEW i \in 1..Len(setup), Drained(i) PROVE QueueInv'
  BY <1>1, <1>8, DrainedMeans DEF world, histories
<1>9. ASSUME NEW i \in 1..Len(setup), Close(i) PROVE QueueInv'
  <2>1. /\ i \in open /\ open' = open \ {i} /\ mailbox' = [mailbox EXCEPT ![i] = <<>>]
        /\ UNCHANGED <<built, accepted, received>>
    BY <1>9 DEF Close, world, histories
  <2>2. i \in Runners /\ i <= built
    BY SMTT(40), <1>0, <2>1 DEF TypeInv
  <2>3. /\ mailbox'[i] = <<>>
        /\ \A j \in Runners \ {i} : mailbox'[j] = mailbox[j]
    BY <2>1, <2>2 DEF TypeInv
  <2> QED BY <1>0, <2>1, <2>2, <2>3 DEF QueueInv
<1> QED BY <1>2, <1>3, <1>4, <1>5, <1>6, <1>7, <1>8, <1>9, Steps DEF FinalizeEarly, Finalize

-----------------------------------------------------------------------------
(* No two letters are the same: those from outside and those of each runner *)
(* are numbered.                                                           *)

SentBy(m) == IF m.by = 0 THEN seeds ELSE Sends(m.by)

NumberInv ==
  \A b \in Runners, m \in Letters : m \in ToSet(accepted[b]) => m.n <= SentBy(m)

LEMMA SetOfEmpty == ToSet(<<>>) = {}
BY EmptySeq DEF ToSet

LEMMA SetOfAppend ==
  ASSUME NEW T, NEW seq \in Seq(T), NEW e \in T
  PROVE  ToSet(Append(seq, e)) = ToSet(seq) \cup {e}
<1>1. /\ DOMAIN seq = 1..Len(seq) /\ Len(seq) \in Nat
      /\ DOMAIN Append(seq, e) = 1..(Len(seq) + 1)
      /\ \A k \in 1..Len(seq) : Append(seq, e)[k] = seq[k]
      /\ Append(seq, e)[Len(seq) + 1] = e
  BY LenProperties, AppendProperties
<1>2. 1..(Len(seq) + 1) = (1..Len(seq)) \cup {Len(seq) + 1}
  BY <1>1
<1> QED BY <1>1, <1>2 DEF ToSet

LEMMA NumberInit == Init => NumberInv
BY SetOfEmpty DEF Init, NumberInv

LEMMA SentType ==
  TypeInv => \A m \in Letters :
    m.n \in Nat /\ SentBy(m) \in Nat /\ (m.by = 0 \/ m.by \in Runners)
<1> SUFFICES ASSUME TypeInv, NEW m \in Letters
             PROVE  m.n \in Nat /\ SentBy(m) \in Nat /\ (m.by = 0 \/ m.by \in Runners)
  OBVIOUS
<1>1. m.by = 0 \/ m.by \in Runners
  BY DEF Letters
<1>2. \A j \in Runners : Sends(j) \in Nat
  BY TargetsFinite DEF TypeInv, Sends
<1>3. m.n \in Nat
  BY DEF Letters
<1> QED BY <1>1, <1>2, <1>3 DEF SentBy, TypeInv

\* A letter with the next number is new, wherever it is accepted.
LEMMA NextIsNew ==
  ASSUME TypeInv, NumberInv, NEW b \in Runners, NEW m \in Letters, m.n = SentBy(m) + 1
  PROVE  m \notin ToSet(accepted[b])
BY SentType DEF NumberInv

\* Numbers that only go up, and a letter whose number is not above them.
LEMMA NumberKept ==
  ASSUME TypeInv, TypeInv', NumberInv,
         seeds' >= seeds, \A j \in Runners : Sends(j)' >= Sends(j),
         \/ accepted' = accepted
         \/ \E b \in Runners, m \in Letters :
              m.n <= SentBy(m)' /\ accepted' = [accepted EXCEPT ![b] = Append(accepted[b], m)]
  PROVE  NumberInv'
<1>1. ASSUME NEW m \in Letters
      PROVE  /\ SentBy(m)' >= SentBy(m) /\ m.n \in Nat
             /\ SentBy(m) \in Nat /\ SentBy(m)' \in Nat
  <2>1. /\ m.n \in Nat /\ SentBy(m) \in Nat /\ (m.by = 0 \/ m.by \in Runners)
    BY SentType
  <2>2. \A j \in Runners : Sends(j)' \in Nat
    BY TargetsFinite DEF TypeInv, Sends
  <2>3. SentBy(m)' >= SentBy(m) /\ SentBy(m)' \in Nat
    BY <2>1, <2>2 DEF SentBy, TypeInv
  <2> QED BY <2>1, <2>3
<1>2. ASSUME NEW b \in Runners, NEW m \in Letters, m \in ToSet(accepted[b])
      PROVE  m.n <= SentBy(m)'
  BY <1>1, <1>2 DEF NumberInv
<1>3. ASSUME NEW b \in Runners, NEW l \in Letters, l.n <= SentBy(l)',
             accepted' = [accepted EXCEPT ![b] = Append(accepted[b], l)]
      PROVE  NumberInv'
  <2>1. accepted[b] \in Seq(Letters) /\ accepted'[b] = Append(accepted[b], l)
        /\ \A c \in Runners \ {b} : accepted'[c] = accepted[c]
    BY <1>3 DEF TypeInv
  <2>2. ToSet(accepted'[b]) = ToSet(accepted[b]) \cup {l}
    BY <2>1, SetOfAppend
  <2>3. ASSUME NEW c \in Runners, NEW m \in Letters, m \in ToSet(accepted'[c])
        PROVE  m.n <= SentBy(m)'
    <3>1. CASE c = b
      BY <1>2, <1>3, <2>2, <2>3, <3>1
    <3>2. CASE c # b
      <4>1. accepted'[c] = accepted[c]
        BY <2>1, <3>2
      <4> QED BY <1>2, <2>3, <4>1
    <3> QED BY <3>1, <3>2
  <2> QED BY <2>3 DEF NumberInv
<1>4. CASE accepted' = accepted
  BY <1>2, <1>4 DEF NumberInv
<1> QED BY <1>3, <1>4

LEMMA NumberStep == TypeInv /\ TypeInv' /\ NumberInv /\ [Next]_vars => NumberInv'
<1> SUFFICES ASSUME TypeInv, TypeInv', NumberInv, [Next]_vars PROVE NumberInv'
  OBVIOUS
<1>0. /\ open \subseteq Runners /\ seeds \in Nat
      /\ \A j \in Runners : Sends(j) \in Nat
  BY OpenRunners, TargetsFinite DEF TypeInv, Sends
<1>1. ASSUME UNCHANGED <<seeds, trace, accepted>> PROVE NumberInv'
  BY <1>0, <1>1, NumberKept DEF Sends
<1>2. ASSUME NEW i \in 1..Len(setup), SendSeed(i) PROVE NumberInv'
  <2>1. PICK from \in Senders :
          Put(i, [by |-> 0, n |-> seeds + 1, from |-> from, topic |-> Seed.topic])
    BY <1>2 DEF SendSeed
  <2> DEFINE m == [by |-> 0, n |-> seeds + 1, from |-> from, topic |-> Seed.topic]
  <2>2. m \in Letters /\ m.by = 0 /\ m.n = seeds + 1
    BY SeedType
  <2>3. i \in Runners /\ accepted' = [accepted EXCEPT ![i] = Append(accepted[i], m)]
    BY <1>0, <1>2, <2>1 DEF SendSeed, Put
  <2>4. seeds' = seeds + 1 /\ trace' = trace
    BY <1>2 DEF SendSeed
  <2>5. PICK l \in Letters : l = m
    BY <2>2
  <2>6. l.by = 0 /\ l.n = seeds + 1 /\ accepted' = [accepted EXCEPT ![i] = Append(accepted[i], l)]
    BY <2>2, <2>3, <2>5
  <2> HIDE DEF m
  <2>7. l.n <= SentBy(l)' /\ seeds' >= seeds /\ \A j \in Runners : Sends(j)' >= Sends(j)
    BY <1>0, <2>4, <2>6 DEF SentBy, Sends
  <2>8. \E c \in Runners, k \in Letters :
          k.n <= SentBy(k)' /\ accepted' = [accepted EXCEPT ![c] = Append(accepted[c], k)]
    BY <2>3, <2>6, <2>7
  <2> QED BY <2>7, <2>8, NumberKept
<1>3. ASSUME NEW i \in 1..Len(setup), Perform(i) PROVE NumberInv'
  <2>1. /\ pending # NoAction /\ seeds' = seeds
        /\ \A j \in Runners : Sends(j)' >= Sends(j)
    BY <1>3, PerformCases
  <2>2. CASE UNCHANGED <<mailbox, histories>>
    BY <1>0, <2>1, <2>2, NumberKept DEF histories
  <2>3. ASSUME NEW b \in open, Put(b, Letter(i)), Sends(i)' >= Sends(i) + 1 PROVE NumberInv'
    <3> DEFINE m == Letter(i)
    <3>1. m \in Letters /\ m.by = i /\ m.n = Sends(i) + 1 /\ i # 0
      BY <2>1, LetterType, RunnersPositive, RunnersOf DEF TypeInv
    <3>2. b \in Runners /\ accepted' = [accepted EXCEPT ![b] = Append(accepted[b], m)]
      BY <1>0, <2>3 DEF Put
    <3> HIDE DEF m
    <3>3. PICK l \in Letters : l = m
      BY <3>1
    <3>4. l.n <= SentBy(l)'
      BY <2>3, <3>1, <3>3 DEF SentBy
    <3>5. \E c \in Runners, k \in Letters :
            k.n <= SentBy(k)' /\ accepted' = [accepted EXCEPT ![c] = Append(accepted[c], k)]
      BY <3>2, <3>3, <3>4
    <3>6. seeds' >= seeds
      BY <1>0, <2>1
    <3> QED BY <2>1, <3>5, <3>6, NumberKept
  <2> QED BY <1>3, <2>2, <2>3, PerformCases
<1>4. ASSUME NEW i \in 1..Len(setup), Take(i) PROVE NumberInv'
  BY <1>1, <1>4 DEF Take, Handled
<1>5. ASSUME NEW i \in 1..Len(setup), Drained(i) PROVE NumberInv'
  BY <1>1, <1>5, DrainedMeans DEF histories
<1>6. ASSUME NEW i \in 1..Len(setup), Close(i) PROVE NumberInv'
  BY <1>1, <1>6 DEF Close, histories
<1>7. CASE Build
  BY <1>1, <1>7 DEF Build, histories
<1>8. CASE StartDraining
  BY <1>1, <1>8 DEF StartDraining, histories
<1>9. CASE UNCHANGED vars
  BY <1>1, <1>9 DEF vars, histories
<1> QED BY <1>2, <1>3, <1>4, <1>5, <1>6, <1>7, <1>8, <1>9, Steps DEF FinalizeEarly, Finalize

-----------------------------------------------------------------------------
(* The driver stops when nothing waits: as long as no message was processed *)
(* in a round, the mailboxes it has been to are empty.                      *)

QuietInv ==
  /\ turn \in 1..Len(setup)
  /\ phase = "building" => turn = 1
  /\ pending # NoAction => moved > 0
  /\ phase = "draining" /\ moved = 0 => \A i \in 1..(turn - 1) : mailbox[i] = <<>>
  /\ AllRead

LEMMA QuietInit == Init => QuietInv
BY RunnersOf DEF Init, QuietInv, AllRead

LEMMA QuietStep == TypeInv /\ QueueInv /\ QuietInv /\ [Next]_vars => QuietInv'
<1> SUFFICES ASSUME TypeInv, QueueInv, QuietInv, [Next]_vars PROVE QuietInv'
  OBVIOUS
<1>0. Len(setup) \in Nat /\ Len(setup) > 0 /\ 1..Len(setup) \subseteq Runners
  BY RunnersOf DEF TypeInv
<1>1. CASE Build
  BY <1>1 DEF Build, progress, QuietInv, AllRead
<1>2. CASE StartDraining
  BY <1>2 DEF StartDraining, world, QuietInv, AllRead
<1>3. CASE UNCHANGED vars
  BY <1>3 DEF vars, world, progress, QuietInv, AllRead
<1>4. ASSUME NEW i \in 1..Len(setup), SendSeed(i) PROVE QuietInv'
  <2>1. /\ phase = "building" /\ UNCHANGED <<world, pending, progress>>
    BY <1>4 DEF SendSeed
  <2> QED BY <2>1 DEF world, progress, QuietInv, AllRead
<1>5. ASSUME NEW i \in 1..Len(setup), Take(i) PROVE QuietInv'
  <2>1. /\ phase = "draining" /\ phase' \in {"draining", "panicked"}
        /\ moved' = moved + 1 /\ UNCHANGED <<world, turn>>
    BY <1>5 DEF Take, Handled, At
  <2>2. moved' > 0
    BY <2>1 DEF TypeInv
  <2> QED BY <2>1, <2>2 DEF world, QuietInv, AllRead
<1>6. ASSUME NEW i \in 1..Len(setup), Perform(i) PROVE QuietInv'
  <2>1. /\ phase = "draining" /\ pending # NoAction /\ pending' = NoAction
        /\ UNCHANGED <<world, progress>>
    BY <1>6, PerformCases DEF At
  <2>2. moved > 0
    BY <2>1 DEF QuietInv
  <2> QED BY <2>1, <2>2 DEF world, progress, QuietInv, AllRead
<1>7. ASSUME NEW i \in 1..Len(setup), Drained(i) PROVE QuietInv'
  <2>1. /\ phase = "draining" /\ turn = i /\ pending = NoAction /\ mailbox[i] = <<>>
        /\ turn' = IF i < Len(setup) THEN turn + 1 ELSE 1
        /\ moved' = IF i < Len(setup) THEN moved ELSE 0
        /\ i < Len(setup) => phase' = phase
        /\ i = Len(setup) => (phase' = "settled" => moved = 0)
        /\ UNCHANGED <<setup, mailbox, open, pending>>
    BY <1>7, DrainedMeans DEF At, world
  <2>2. phase' # "building"
    BY <1>7 DEF Drained, At
  <2>3. CASE i < Len(setup)
    <3>1. turn' = i + 1 /\ moved' = moved /\ phase' = "draining"
      BY <2>1, <2>3
    <3>2. turn' \in 1..Len(setup)'
      BY <1>0, <2>1, <2>3, <3>1
    <3>3. ASSUME moved = 0, NEW j \in 1..i PROVE mailbox[j] = <<>>
      <4>1. j = i \/ j \in 1..(turn - 1)
        BY <2>1
      <4> QED BY <2>1, <3>3, <4>1 DEF QuietInv
    <3> QED BY <2>1, <3>1, <3>2, <3>3 DEF QuietInv, AllRead
  <2>4. CASE i = Len(setup)
    <3>1. turn' = 1 /\ moved' = 0
      BY <1>0, <2>1, <2>4
    <3>2. ASSUME moved = 0, NEW j \in Runners PROVE mailbox[j] = <<>>
      <4>1. CASE j \notin open
        BY <4>1 DEF QueueInv
      <4>2. CASE j \in open
        <5>1. j = i \/ j \in 1..(turn - 1)
          BY <1>0, <2>1, <2>4, <4>2, OpenRunners
        <5> QED BY <2>1, <3>2, <5>1 DEF QuietInv
      <4> QED BY <4>1, <4>2
    <3>3. AllRead'
      BY <2>1, <2>4, <3>2 DEF AllRead
    <3> QED BY <1>0, <2>1, <2>2, <3>1, <3>3 DEF QuietInv
  <2> QED BY <1>0, <2>3, <2>4
<1>8. ASSUME NEW i \in 1..Len(setup), Close(i) PROVE QuietInv'
  <2>1. mailbox' = [mailbox EXCEPT ![i] = <<>>] /\ UNCHANGED <<world, pending, progress>>
    BY <1>8 DEF Close
  <2>2. \A j \in Runners : mailbox[j] = <<>> => mailbox'[j] = <<>>
    BY <2>1 DEF TypeInv
  <2>3. turn \in 1..Len(setup)
    BY DEF QuietInv
  <2>4. 1..(turn - 1) \subseteq Runners
    BY <1>0, <2>3
  <2> QED BY <2>1, <2>2, <2>4 DEF world, progress, QuietInv, AllRead
<1> QED BY <1>1, <1>2, <1>3, <1>4, <1>5, <1>6, <1>7, <1>8, Steps DEF FinalizeEarly, Finalize

-----------------------------------------------------------------------------
(* Theorems.                                                               *)

RouterInv == TypeInv /\ QueueInv /\ NumberInv /\ QuietInv

LEMMA RouterInvHolds == FairSpec => []RouterInv
<1>1. Init => RouterInv
  BY TypeInit, QueueInit, NumberInit, QuietInit DEF RouterInv
<1>2. RouterInv /\ [Next]_vars => RouterInv'
  BY TypeStep, QueueStep, NumberStep, QuietStep DEF RouterInv
<1> QED BY <1>1, <1>2, PTL DEF FairSpec

\* The driver of the agents reports that they have settled only when no
\* message waits for any of them, however many there are, whatever they send
\* each other and whoever is finalized before (multi_depot.rs:137-156).
THEOREM SettledMeansRead == FairSpec => []AllRead
<1>1. RouterInv => AllRead
  BY DEF RouterInv, QuietInv
<1> QED BY <1>1, RouterInvHolds, PTL

LEMMA PutAccepts ==
  ASSUME TypeInv, NumberInv, NEW b \in Runners, NEW m \in Letters, m.n = SentBy(m) + 1,
         Put(b, m)
  PROVE  Transport!Accept(b)
<1>1. m \notin ToSet(accepted[b])
  BY NextIsNew
<1>2. /\ accepted' = [accepted EXCEPT ![b] = Append(accepted[b], m)]
      /\ confirmed' = confirmed \cup {<<b, m>>} /\ received' = received
  BY DEF Put
<1>3. accepted[b] \in Seq(Letters) /\ accepted'[b] = Append(accepted[b], m)
  BY <1>2 DEF TypeInv
<1>4. accepted'[b] # <<>> /\ accepted'[b][Len(accepted'[b])] = m
  BY <1>3, AppendProperties
<1>5. Transport!Last(accepted'[b]) = m
  BY <1>4 DEF Transport!Last
<1>6. m \notin Transport!ToSet(accepted[b])
  BY <1>1 DEF ToSet, Transport!ToSet
<1> QED BY <1>2, <1>4, <1>5, <1>6 DEF Transport!Accept

LEMMA ChannelInit == Init => Transport!Init
BY DEF Init, Transport!Init

LEMMA ChannelStep ==
  RouterInv /\ [Next]_vars => [Transport!Next]_(Transport!channelVars)
<1> DEFINE Goal == [Transport!Next]_(Transport!channelVars)
<1> SUFFICES ASSUME RouterInv, [Next]_vars PROVE Goal
  OBVIOUS
<1>0. TypeInv /\ QueueInv /\ NumberInv
  BY DEF RouterInv
<1>1. ASSUME UNCHANGED histories PROVE Goal
  BY <1>1 DEF histories, Transport!channelVars
<1>2. ASSUME NEW i \in 1..Len(setup), SendSeed(i) PROVE Goal
  <2>1. PICK from \in Senders :
          Put(i, [by |-> 0, n |-> seeds + 1, from |-> from, topic |-> Seed.topic])
    BY <1>2 DEF SendSeed
  <2> DEFINE m == [by |-> 0, n |-> seeds + 1, from |-> from, topic |-> Seed.topic]
  <2>2. m \in Letters /\ m.n = SentBy(m) + 1
    BY <1>0, SeedType DEF SentBy
  <2>3. i \in Runners
    BY <1>0, <1>2, OpenRunners DEF SendSeed
  <2>4. Transport!Accept(i)
    BY <1>0, <2>1, <2>2, <2>3, PutAccepts
  <2> QED BY <2>3, <2>4 DEF Transport!Next
<1>3. ASSUME NEW i \in 1..Len(setup), Perform(i) PROVE Goal
  <2>1. CASE UNCHANGED <<mailbox, histories>>
    BY <1>1, <2>1
  <2>2. ASSUME NEW b \in open, Put(b, Letter(i)) PROVE Goal
    <3>1. pending # NoAction
      BY <1>0, <1>3, PerformCases
    <3>2. Letter(i) \in Letters /\ Letter(i).by = i /\ Letter(i).n = Sends(i) + 1
      BY <1>0, <3>1, LetterType
    <3>3. i # 0
      BY <1>0, RunnersOf DEF TypeInv
    <3>4. Letter(i).n = SentBy(Letter(i)) + 1
      BY <3>2, <3>3 DEF SentBy
    <3>5. b \in Runners
      BY <1>0, OpenRunners
    <3>6. Transport!Accept(b)
      BY <1>0, <2>2, <3>2, <3>4, <3>5, PutAccepts
    <3> QED BY <3>5, <3>6 DEF Transport!Next
  <2> QED BY <1>0, <1>3, <2>1, <2>2, PerformCases
<1>4. ASSUME NEW i \in 1..Len(setup), Take(i) PROVE Goal
  <2>1. i \in Runners /\ mailbox[i] # <<>>
    BY <1>0, <1>4, RunnersOf DEF TypeInv, Take
  <2>2. Queue(accepted[i], received[i], mailbox[i])
    BY <1>0, <2>1 DEF QueueInv
  <2>3. /\ mailbox[i] \in Seq(Letters) /\ received[i] \in Seq(Letters)
        /\ accepted[i] \in Seq(Letters)
    BY <1>0, <2>1 DEF TypeInv
  <2>4. /\ Len(received[i]) + 1 <= Len(accepted[i])
        /\ Head(mailbox[i]) = accepted[i][Len(received[i]) + 1]
    BY SMTT(40), <2>1, <2>2, <2>3, QueueTake
  <2>5. /\ received' = [received EXCEPT ![i] = Append(received[i], Head(mailbox[i]))]
        /\ UNCHANGED <<accepted, confirmed>>
    BY <1>4 DEF Take, Handled
  <2>6. 0 + Len(received[i]) + 1 = Len(received[i]) + 1
    BY <2>3, LenProperties
  <2>7. Transport!Receive(i)
    BY <2>1, <2>4, <2>5, <2>6 DEF Transport!Receive
  <2> QED BY <2>1, <2>7 DEF Transport!Next
<1>5. ASSUME NEW i \in 1..Len(setup), Drained(i) PROVE Goal
  BY <1>0, <1>1, <1>5, DrainedMeans
<1>6. ASSUME NEW i \in 1..Len(setup), Close(i) PROVE Goal
  BY <1>1, <1>6 DEF Close
<1>7. CASE Build
  BY <1>1, <1>7 DEF Build
<1>8. CASE StartDraining
  BY <1>1, <1>8 DEF StartDraining
<1>9. CASE UNCHANGED vars
  BY <1>1, <1>9 DEF vars
<1> HIDE DEF Goal
<1> QED BY <1>0, <1>2, <1>3, <1>4, <1>5, <1>6, <1>7, <1>8, <1>9, Steps DEF FinalizeEarly, Finalize

\* The router implements Channel, whatever runners there are, under whatever
\* names, and whatever their handlers send: a sender is told Ok only for what
\* a mailbox accepted, nothing is accepted twice, and a runner takes what was
\* accepted in that order (router.rs:48-84, mailbox.rs:42-50).
THEOREM RouterImplementsChannel == FairSpec => ImplementsChannel
<1>1. Init => Transport!Init
  BY ChannelInit
<1>2. RouterInv /\ [Next]_vars => [Transport!Next]_(Transport!channelVars)
  BY ChannelStep
<1> QED
  BY <1>1, <1>2, RouterInvHolds, PTL DEF FairSpec, ImplementsChannel, Transport!Spec
=============================================================================

---------------------------- MODULE ReadersProofs ----------------------------
(***************************************************************************)
(* Theorems about TraceReaders, for any stores of traces of any length, any *)
(* queries and any command line.                                           *)
(***************************************************************************)
EXTENDS TraceReaders, SequenceTheorems, FiniteSetTheorems, TLAPS

-----------------------------------------------------------------------------
(* What the counts of a trace tell.                                        *)

TraceNodes == {Proposal} \cup Verdicts \cup Ends

LEMMA NodeFacts ==
  ASSUME NEW n \in TraceNodes
  PROVE  /\ n = Proposal => n.target = "action.proposed"
         /\ n.target = "gate.verdict" =>
              n \in Verdicts /\ VerdictKind(n) \in {"allow", "deny", "inconclusive"}
         /\ n.target = "action.executed" => n \in Ends
         /\ n \in Verdicts => n.target = "gate.verdict"
         /\ n \in Ends => n.target # "gate.verdict" /\ n # Proposal
         /\ n.target # "absent" /\ n.target # "partial"
BY DEF TraceNodes, Proposal, Verdicts, Ends, Node, VerdictKind

LEMMA TraceShape ==
  ASSUME NEW tr \in Traces
  PROVE  /\ tr \in Seq(TraceNodes) /\ Len(tr) \in Nat /\ DOMAIN tr = 1..Len(tr)
         /\ IsTrace(tr)
<1>1. PICK length \in 0..(3 * MaxActions) : tr \in [1..length -> TraceNodes] /\ IsTrace(tr)
  BY DEF Traces, TracesOf, TraceNodes
<1>2. length \in Nat
  BY ReadersAssumption
<1>3. tr \in Seq(TraceNodes)
  BY <1>1, <1>2, SeqDef
<1> QED BY <1>1, <1>3, LenProperties

LEMMA TraceWhole ==
  ASSUME NEW tr \in Traces
  PROVE  Whole(tr)
<1> SUFFICES ASSUME tr \in {Absent, Partial} PROVE FALSE
  BY DEF Whole
<1>1. DOMAIN tr = 1..1 /\ tr[1].target \in {"absent", "partial"}
  BY DEF Absent, Partial
<1>2. tr[1] \in TraceNodes
  <2>1. tr \in Seq(TraceNodes) /\ DOMAIN tr = 1..Len(tr)
    BY TraceShape
  <2>2. 1 \in DOMAIN tr
    BY <1>1
  <2>3. 1 \in 1..Len(tr)
    BY <2>1, <2>2
  <2> QED BY <2>1, <2>3, ElementOfSeq
<1> QED BY <1>1, <1>2, NodeFacts

LEMMA PositionsFinite ==
  ASSUME NEW T, NEW tr \in Seq(T), NEW target, NEW kind
  PROVE  /\ IsFiniteSet(TargetAt(tr, target)) /\ IsFiniteSet(VerdictAt(tr, kind))
         /\ Cardinality(TargetAt(tr, target)) \in Nat /\ Cardinality(VerdictAt(tr, kind)) \in Nat
<1>1. IsFiniteSet(1..Len(tr))
  BY LenProperties, FS_Interval
<1>2. TargetAt(tr, target) \in SUBSET (1..Len(tr)) /\ VerdictAt(tr, kind) \in SUBSET (1..Len(tr))
  BY LenProperties DEF TargetAt, VerdictAt
<1>3. IsFiniteSet(TargetAt(tr, target)) /\ IsFiniteSet(VerdictAt(tr, kind))
  BY <1>1, <1>2, FS_Subset
<1> QED BY <1>3, FS_CardinalityType

LEMMA ViolationMeans ==
  ASSUME NEW tr \in Traces
  PROVE  /\ Cardinality(VerdictAt(tr, "allow")) \in Nat
         /\ Cardinality(TargetAt(tr, "action.executed")) \in Nat
         /\ HasViolation(ScanTrace(tr)) <=>
              /\ TargetAt(tr, "gate.verdict") # {}
              /\ Cardinality(TargetAt(tr, "action.executed")) > Cardinality(VerdictAt(tr, "allow"))
<1> DEFINE a == VerdictAt(tr, "allow")
           d == VerdictAt(tr, "deny")
           u == VerdictAt(tr, "inconclusive")
<1>1. tr \in Seq(TraceNodes) /\ DOMAIN tr = 1..Len(tr)
  BY TraceShape
<1>2. /\ IsFiniteSet(a) /\ IsFiniteSet(d) /\ IsFiniteSet(u)
      /\ Cardinality(a) \in Nat /\ Cardinality(d) \in Nat /\ Cardinality(u) \in Nat
      /\ Cardinality(TargetAt(tr, "action.executed")) \in Nat
  BY <1>1, PositionsFinite
<1>3. \A i \in TargetAt(tr, "gate.verdict") : i \in a \/ i \in d \/ i \in u
  <2>1. ASSUME NEW i \in TargetAt(tr, "gate.verdict")
        PROVE  VerdictKind(tr[i]) \in {"allow", "deny", "inconclusive"}
    <3>1. tr[i] \in TraceNodes /\ tr[i].target = "gate.verdict"
      BY <1>1, ElementOfSeq DEF TargetAt
    <3> QED BY <3>1, NodeFacts
  <2> QED BY <2>1 DEF VerdictAt
<1>4. a \subseteq TargetAt(tr, "gate.verdict") /\ d \subseteq TargetAt(tr, "gate.verdict")
      /\ u \subseteq TargetAt(tr, "gate.verdict")
  BY DEF VerdictAt
<1>5. /\ Cardinality(a) = 0 <=> a = {}
      /\ Cardinality(d) = 0 <=> d = {}
      /\ Cardinality(u) = 0 <=> u = {}
  BY <1>2, FS_EmptySet
<1>6. IsGated(ScanTrace(tr)) <=> Cardinality(a) + Cardinality(d) + Cardinality(u) > 0
  BY DEF IsGated, ScanTrace
<1>7. HasViolation(ScanTrace(tr)) <=>
        /\ IsGated(ScanTrace(tr))
        /\ Cardinality(TargetAt(tr, "action.executed")) > Cardinality(a)
  BY DEF HasViolation, ScanTrace
<1> HIDE DEF a, d, u
<1>8. IsGated(ScanTrace(tr)) <=> TargetAt(tr, "gate.verdict") # {}
  <2>1. IsGated(ScanTrace(tr)) <=> ~(a = {} /\ d = {} /\ u = {})
    BY <1>2, <1>5, <1>6
  <2> QED BY <1>3, <1>4, <2>1
<1> QED BY <1>2, <1>7, <1>8 DEF a

\* A bypass shows in the counts, if every Allow is used.
LEMMA BypassShows ==
  ASSUME NEW tr \in Traces, Bypassed(tr), ~Unused(tr)
  PROVE  HasViolation(ScanTrace(tr))
<1> DEFINE Allowed == VerdictAt(tr, "allow")
           Executed == TargetAt(tr, "action.executed")
           f == [i \in Allowed |-> i + 1]
<1>1. tr \in Seq(TraceNodes) /\ DOMAIN tr = 1..Len(tr) /\ Len(tr) \in Nat
  BY TraceShape
<1>2. PICK k \in 2..Len(tr) : /\ tr[k].target = "action.executed"
                              /\ tr[k - 1].target = "gate.verdict"
                              /\ VerdictKind(tr[k - 1]) # "allow"
  BY DEF Bypassed
<1>3. k \in Executed /\ k - 1 \in TargetAt(tr, "gate.verdict") /\ k - 1 \notin Allowed
  BY <1>1, <1>2 DEF TargetAt, VerdictAt
<1>4. \A i \in Allowed : i \in Nat /\ i + 1 \in Executed \ {k}
  <2>1. ASSUME NEW i \in Allowed PROVE i \in Nat /\ i + 1 \in Executed
    <3>1. i \in DOMAIN tr /\ tr[i].target = "gate.verdict" /\ VerdictKind(tr[i]) = "allow"
      BY DEF TargetAt, VerdictAt
    <3>2. i + 1 \in DOMAIN tr /\ tr[i + 1].target = "action.executed"
      BY <3>1 DEF Unused
    <3> QED BY <1>1, <3>1, <3>2 DEF TargetAt
  <2> QED BY <1>2, <1>3, <2>1
<1>5. f \in Injection(Allowed, Executed \ {k})
  <2> HIDE DEF Allowed, Executed
  <2> QED BY <1>4 DEF Injection, IsInjective
<1>6. IsFiniteSet(Executed) /\ IsFiniteSet(Allowed)
  BY <1>1, PositionsFinite
<1>7. Cardinality(Executed \ {k}) = Cardinality(Executed) - 1 /\ IsFiniteSet(Executed \ {k})
  BY <1>3, <1>6, FS_RemoveElement
<1>8. Cardinality(Allowed) <= Cardinality(Executed) - 1
  BY <1>5, <1>7, FS_Injection
<1> QED BY <1>3, <1>8, ViolationMeans

\* More executions than allowances are a bypass.
LEMMA ViolationIsBypass ==
  ASSUME NEW tr \in Traces, HasViolation(ScanTrace(tr))
  PROVE  Bypassed(tr)
<1> SUFFICES ASSUME ~Bypassed(tr) PROVE FALSE
  OBVIOUS
<1> DEFINE Allowed == VerdictAt(tr, "allow")
           Executed == TargetAt(tr, "action.executed")
           f == [i \in Executed |-> i - 1]
<1>1. /\ tr \in Seq(TraceNodes) /\ DOMAIN tr = 1..Len(tr) /\ Len(tr) \in Nat
      /\ tr # <<>> => tr[1] = Proposal
  BY TraceShape DEF IsTrace
<1>2. \A i \in 1..Len(tr) : tr[i] \in TraceNodes
  BY <1>1, ElementOfSeq
<1>3. PICK gated \in BOOLEAN : \A i \in 2..Len(tr) : <<tr[i - 1], tr[i]>> \in MayFollow(gated)
  BY TraceShape DEF IsTrace
<1>4. PICK v \in DOMAIN tr : tr[v].target = "gate.verdict"
  BY ViolationMeans DEF TargetAt
<1>5. tr # <<>> /\ tr[1] = Proposal
  BY <1>1, <1>4, EmptySeq
<1>6. \A i \in 1..Len(tr) : tr[i] # Proposal => i \in 2..Len(tr)
  BY <1>1, <1>5
<1>7. gated
  <2>1. tr[v] \in Verdicts /\ tr[v] # Proposal /\ v \in 2..Len(tr)
    BY <1>1, <1>2, <1>4, <1>6, NodeFacts
  <2>2. tr[v] \notin Ends /\ tr[v] # Proposal
    BY <1>1, <1>2, <1>4, <2>1, NodeFacts
  <2>3. <<tr[v - 1], tr[v]>> \in MayFollow(gated)
    BY <1>3, <2>1
  <2> QED BY <2>2, <2>3 DEF MayFollow
<1>8. ASSUME NEW i \in Executed PROVE i \in Nat /\ i - 1 \in Allowed
  <2>1. i \in 1..Len(tr) /\ tr[i].target = "action.executed"
    BY <1>1 DEF TargetAt
  <2>2. tr[i] \in Ends /\ tr[i] # Proposal /\ tr[i] \notin Verdicts
    BY <1>2, <2>1, NodeFacts
  <2>3. i \in 2..Len(tr) /\ i - 1 \in 1..Len(tr)
    BY <1>1, <1>6, <2>1, <2>2
  <2>4. <<tr[i - 1], tr[i]>> \in MayFollow(gated)
    BY <1>3, <2>3
  <2>5. tr[i - 1] \in Verdicts
    BY <1>7, <2>2, <2>4 DEF MayFollow
  <2>6. tr[i - 1].target = "gate.verdict"
    BY <1>2, <2>3, <2>5, NodeFacts
  <2>7. VerdictKind(tr[i - 1]) = "allow"
    BY <2>1, <2>3, <2>6 DEF Bypassed
  <2> QED BY <1>1, <2>1, <2>3, <2>6, <2>7 DEF TargetAt, VerdictAt
<1>9. f \in Injection(Executed, Allowed)
  <2> HIDE DEF Allowed, Executed
  <2> QED BY <1>8 DEF Injection, IsInjective
<1>10. IsFiniteSet(Allowed)
  BY <1>1, PositionsFinite
<1>11. Cardinality(Executed) <= Cardinality(Allowed)
  BY <1>9, <1>10, FS_Injection
<1> QED BY <1>11, ViolationMeans

-----------------------------------------------------------------------------
(* Types.                                                                  *)

Stored == Traces \cup {Absent, Partial}

TypeInv ==
  /\ store \in [RunIds -> Stored] /\ listing \in [RunIds -> Stored]
  /\ job \in Jobs \cup {NoJob}
  /\ asked \in Seq(RunIds) /\ runs \in Seq(RunIds) /\ results \in Seq(RunIds)
  /\ loaded \in Seq(Stored)
  /\ violations \in Nat

LEMMA JobFacts ==
  ASSUME NEW j \in Jobs
  PROVE  /\ j.kind \in {"replay", "show", "list", "search"}
         /\ j.kind \in {"replay", "show"} => j.args \in Seq(RunIds)
<1>1. \A n \in 0..MaxArgs : n \in Nat
  BY ReadersAssumption
<1>2. \A n \in 0..MaxArgs : [1..n -> RunIds] \subseteq Seq(RunIds)
  BY <1>1, SeqDef
<1>3. [1..1 -> RunIds] \subseteq Seq(RunIds)
  BY SeqDef
<1>4. CASE j \in [kind : {"replay"}, args : UNION {[1..n -> RunIds] : n \in 0..MaxArgs}]
  BY <1>2, <1>4
<1>5. CASE j \in [kind : {"show"}, args : [1..1 -> RunIds]]
  BY <1>3, <1>5
<1> QED BY <1>4, <1>5 DEF Jobs

\* A listing holds every run once.
LEMMA ListingFacts ==
  ASSUME NEW S \in SUBSET RunIds, NEW ids \in SetToSeqs(S)
  PROVE  ids \in Seq(RunIds) /\ IsInjective(ids) /\ ToSet(ids) = S
<1> DEFINE n == Cardinality(S)
<1>1. IsFiniteSet(S)
  BY ReadersAssumption, FS_Subset
<1>2. n \in Nat
  BY <1>1, FS_CardinalityType
<1>3. ids \in [1..n -> S] /\ \A i, j \in 1..n : i # j => ids[i] # ids[j]
  BY DEF SetToSeqs
<1>4. IsFiniteSet(1..n) /\ Cardinality(1..n) = n
  BY <1>2, FS_Interval
<1> HIDE DEF n
<1>5. ids \in Injection(1..n, S) /\ IsInjective(ids)
  BY <1>3 DEF Injection, IsInjective
<1>6. ids \in Surjection(1..n, S)
  BY <1>1, <1>4, <1>5, FS_Injection DEF n
<1>7. ToSet(ids) = S
  BY <1>3, <1>6 DEF ToSet, Surjection
<1>8. ids \in [1..n -> RunIds]
  BY <1>3
<1> QED BY <1>2, <1>5, <1>7, <1>8, SeqDef

LEMMA LoadFacts ==
  ASSUME TypeInv, Load
  PROVE  /\ Head(runs) \in RunIds /\ store[Head(runs)] \in Stored
         /\ runs' = Tail(runs) /\ runs' \in Seq(RunIds)
         /\ loaded' = Append(loaded, store[Head(runs)]) /\ loaded' \in Seq(Stored)
         /\ UNCHANGED <<store, job, asked, listing>>
<1>1. runs # <<>> /\ runs \in Seq(RunIds) /\ loaded \in Seq(Stored)
  BY DEF TypeInv, Load
<1>2. Head(runs) \in RunIds /\ Tail(runs) \in Seq(RunIds)
  BY <1>1, HeadTailProperties
<1>3. store[Head(runs)] \in Stored
  BY <1>2 DEF TypeInv
<1>4. Append(loaded, store[Head(runs)]) \in Seq(Stored)
  BY <1>1, <1>3, AppendProperties
<1> QED BY <1>2, <1>3, <1>4 DEF Load

-----------------------------------------------------------------------------
(* The loop over the traces: what is left to read, what was read, and what  *)
(* of it is still so.                                                      *)

LoopInv ==
  /\ asked = <<>> => runs = <<>> /\ loaded = <<>> /\ violations = 0 /\ results = <<>>
  /\ job = NoJob => asked = <<>> /\ exit = "running"
  /\ Len(loaded) <= Len(asked)
  /\ job.kind # "list" =>
       /\ Len(asked) = Len(loaded) + Len(runs)
       /\ \A k \in 1..Len(runs) : runs[k] = asked[Len(loaded) + k]
  /\ \A k \in 1..Len(loaded) :
       /\ Whole(loaded[k]) => store[asked[k]] = loaded[k]
       /\ Whole(listing[asked[k]]) => loaded[k] = listing[asked[k]]

ListingInv ==
  /\ ~Named => IsInjective(asked)
  /\ ~Named /\ asked # <<>> => ToSet(asked) = {id \in RunIds : listing[id] # Absent}
  /\ \A id \in RunIds : Whole(listing[id]) => store[id] = listing[id]

Clean(tr) == Whole(tr) /\ ~HasViolation(ScanTrace(tr))
Hit(tr) == Whole(tr) /\ Matches(tr, job.query)

ReplayInv ==
  job.kind = "replay" => (violations = 0 <=> \A k \in 1..Len(loaded) : Clean(loaded[k]))

SearchInv ==
  job.kind = "search" =>
    /\ \A r \in 1..Len(results) : \E k \in 1..Len(loaded) : asked[k] = results[r] /\ Hit(loaded[k])
    /\ \A k \in 1..Len(loaded) : Hit(loaded[k]) => \E r \in 1..Len(results) : results[r] = asked[k]
    /\ \A i, j \in 1..Len(results) :
         i < j => \E k, l \in 1..Len(loaded) :
                    k < l /\ asked[k] = results[i] /\ asked[l] = results[j]

\* The loop has come to its end, or there was nothing to list.
Finished ==
  runs = <<>> /\ (asked = <<>> => ~Named /\ \A id \in RunIds : listing[id] = Absent)

ExitInv ==
  /\ exit = "0" => job.kind = "replay" /\ violations = 0 /\ Finished
  /\ exit = "1" => job.kind = "replay" /\ violations # 0
  /\ exit = "200" /\ job.kind = "search" => job.query = "" \/ Finished

ReadersInv == TypeInv /\ LoopInv /\ ListingInv /\ ReplayInv /\ SearchInv /\ ExitInv

LEMMA WholeMeans ==
  ASSUME NEW tr \in Stored
  PROVE  /\ Whole(tr) <=> tr \in Traces
         /\ ~Whole(Absent) /\ ~Whole(Partial)
BY TraceWhole DEF Stored, Whole

LEMMA InvInit == Init => ReadersInv
<1> SUFFICES ASSUME Init PROVE ReadersInv
  OBVIOUS
<1>1. /\ asked = <<>> /\ runs = <<>> /\ loaded = <<>> /\ results = <<>> /\ violations = 0
      /\ exit = "running" /\ job = NoJob /\ listing = store
      /\ store = [id \in RunIds |-> Absent]
  BY DEF Init
<1>2. job.kind = "none"
  BY <1>1 DEF NoJob
<1>3. Len(asked) = 0 /\ Len(runs) = 0 /\ Len(loaded) = 0 /\ Len(results) = 0
  BY <1>1, EmptySeq
<1>4. TypeInv
  BY <1>1, EmptySeq DEF TypeInv, Stored
<1>5. LoopInv
  BY <1>1, <1>3 DEF LoopInv
<1>6. ListingInv
  BY <1>1, EmptySeq DEF ListingInv, IsInjective
<1>7. ReplayInv /\ SearchInv /\ ExitInv
  BY <1>1, <1>2 DEF ReplayInv, SearchInv, ExitInv
<1> QED BY <1>4, <1>5, <1>6, <1>7 DEF ReadersInv

\* A store in which whole traces stay as they are is as good as the one before.
LEMMA StoreStep ==
  ASSUME ReadersInv, store' \in [RunIds -> Stored],
         \A id \in RunIds : Whole(store[id]) => store'[id] = store[id],
         UNCHANGED <<job, asked, runs, listing, loaded, violations, results, exit>>
  PROVE  ReadersInv'
<1>1. TypeInv'
  BY DEF ReadersInv, TypeInv
<1>2. LoopInv'
  <2>1. ASSUME NEW k \in 1..Len(loaded), Whole(loaded[k])
        PROVE  store'[asked[k]] = loaded[k]
    <3>1. k \in 1..Len(asked)
      BY LenProperties DEF ReadersInv, TypeInv, LoopInv
    <3>2. asked[k] \in RunIds
      BY <3>1, ElementOfSeq DEF ReadersInv, TypeInv
    <3>3. store[asked[k]] = loaded[k]
      BY <2>1 DEF ReadersInv, LoopInv
    <3> QED BY <2>1, <3>2, <3>3
  <2> QED BY <2>1 DEF ReadersInv, LoopInv
<1>3. ListingInv'
  <2>1. \A id \in RunIds : Whole(listing[id]) => store'[id] = listing[id]
    BY DEF ReadersInv, ListingInv
  <2> QED BY <2>1 DEF ReadersInv, ListingInv, Named
<1>4. ReplayInv'
  BY DEF ReadersInv, ReplayInv, Clean
<1>5. SearchInv'
  BY DEF ReadersInv, SearchInv, Hit
<1>6. ExitInv'
  BY DEF ReadersInv, ExitInv, Finished, Named
<1> QED BY <1>1, <1>2, <1>3, <1>4, <1>5, <1>6 DEF ReadersInv

LEMMA SaveStep ==
  ASSUME ReadersInv, NEW id \in RunIds, BeginSave(id) \/ EndSave(id)
  PROVE  ReadersInv'
<1>1. /\ store[id] \in {Absent, Partial}
      /\ \E tr \in Traces \cup {Partial} : store' = [store EXCEPT ![id] = tr]
      /\ UNCHANGED <<job, asked, runs, listing, loaded, violations, results, exit>>
  BY DEF BeginSave, EndSave
<1>2. ~Whole(store[id])
  BY <1>1 DEF Whole
<1>3. store' \in [RunIds -> Stored]
  BY <1>1 DEF ReadersInv, TypeInv, Stored
<1>4. \A x \in RunIds : Whole(store[x]) => store'[x] = store[x]
  BY <1>1, <1>2 DEF ReadersInv, TypeInv
<1> QED BY <1>1, <1>3, <1>4, StoreStep

\* Before anything is read.
LEMMA Nothing ==
  ASSUME ReadersInv, asked = <<>>
  PROVE  /\ runs = <<>> /\ loaded = <<>> /\ results = <<>> /\ violations = 0
         /\ Len(asked) = 0 /\ Len(runs) = 0 /\ Len(loaded) = 0 /\ Len(results) = 0
BY EmptySeq DEF ReadersInv, LoopInv

LEMMA StartStep ==
  ASSUME ReadersInv, NEW j \in Jobs, Start(j)
  PROVE  ReadersInv'
<1>1. /\ job = NoJob /\ job' = j
      /\ UNCHANGED <<store, asked, runs, listing, loaded, violations, results>>
  BY Zenon DEF Start
<1>2. asked = <<>> /\ exit = "running"
  BY <1>1 DEF ReadersInv, LoopInv
<1>3. /\ runs = <<>> /\ loaded = <<>> /\ results = <<>> /\ violations = 0
      /\ Len(asked) = 0 /\ Len(runs) = 0 /\ Len(loaded) = 0 /\ Len(results) = 0
  BY <1>2, Nothing
<1>4. job' # NoJob
  <2>1. j.kind # "none" /\ NoJob.kind = "none"
    BY JobFacts DEF NoJob
  <2> QED BY <1>1, <2>1
<1>5. TypeInv'
  BY <1>1 DEF ReadersInv, TypeInv
<1>6. LoopInv'
  BY <1>1, <1>2, <1>3, <1>4 DEF LoopInv
<1>7. ListingInv'
  BY <1>1, <1>2, EmptySeq DEF ReadersInv, ListingInv, IsInjective
<1>8. ReplayInv' /\ SearchInv'
  BY <1>1, <1>3 DEF ReplayInv, SearchInv
<1>9. ExitInv'
  <2>1. exit' = IF j.kind = "search" /\ j.query = "" THEN "200" ELSE exit
    BY Zenon DEF Start
  <2>2. exit' = "running" \/ (exit' = "200" /\ job'.query = "")
    BY <1>1, <1>2, <2>1
  <2> QED BY <2>2 DEF ExitInv
<1> QED BY <1>5, <1>6, <1>7, <1>8, <1>9 DEF ReadersInv

LEMMA FailStep ==
  ASSUME ReadersInv, Fail
  PROVE  ReadersInv'
<1>1. /\ exit' \in {"2", "500"} /\ job.kind # "none"
      /\ UNCHANGED <<store, job, asked, runs, listing, loaded, violations, results>>
  BY DEF Fail, Running
<1>2. job # NoJob
  BY <1>1 DEF NoJob
<1>3. TypeInv' /\ LoopInv'
  BY <1>1, <1>2 DEF ReadersInv, TypeInv, LoopInv
<1>4. ListingInv' /\ ReplayInv' /\ SearchInv'
  BY <1>1 DEF ReadersInv, ListingInv, ReplayInv, SearchInv, Named, Clean, Hit
<1>5. ExitInv'
  BY <1>1 DEF ExitInv
<1> QED BY <1>3, <1>4, <1>5 DEF ReadersInv

LEMMA TakeArgsStep ==
  ASSUME ReadersInv, TakeArgs
  PROVE  ReadersInv'
<1>1. /\ asked = <<>> /\ Named /\ job.kind \in {"replay", "show"} /\ exit = "running"
      /\ asked' = job.args /\ runs' = job.args
      /\ UNCHANGED <<store, job, listing, loaded, violations, results, exit>>
  BY DEF TakeArgs, Running
<1>2. job # NoJob
  BY <1>1 DEF NoJob
<1>3. job.args \in Seq(RunIds)
  BY <1>1, <1>2, JobFacts DEF ReadersInv, TypeInv
<1>4. /\ loaded = <<>> /\ results = <<>> /\ violations = 0
      /\ Len(loaded) = 0 /\ Len(results) = 0
  BY <1>1, Nothing
<1>5. TypeInv'
  BY <1>1, <1>3 DEF ReadersInv, TypeInv
<1>6. LoopInv'
  <2>1. Len(asked') \in Nat
    BY <1>1, <1>3, LenProperties
  <2> QED BY <1>1, <1>2, <1>4, <2>1 DEF LoopInv
<1>7. ListingInv'
  BY <1>1 DEF ReadersInv, ListingInv, Named
<1>8. ReplayInv' /\ SearchInv' /\ ExitInv'
  BY <1>1, <1>4 DEF ReplayInv, SearchInv, ExitInv
<1> QED BY <1>5, <1>6, <1>7, <1>8 DEF ReadersInv

LEMMA ListTracesStep ==
  ASSUME ReadersInv, ListTraces
  PROVE  ReadersInv'
<1> DEFINE S == {id \in RunIds : store[id] # Absent}
<1>1. PICK ids \in SetToSeqs(S) :
        /\ asked' = ids
        /\ runs' = IF job.kind = "list" THEN <<>> ELSE ids
        /\ exit' = IF runs' # <<>> THEN exit ELSE IF job.kind = "replay" THEN "0" ELSE "200"
  BY DEF ListTraces
<1>2. /\ job.kind \in {"replay", "list", "search"} /\ exit = "running"
      /\ asked = <<>> /\ ~Named /\ listing' = store
      /\ UNCHANGED <<store, job, loaded, violations, results>>
  BY DEF ListTraces, Running
<1>3. ids \in Seq(RunIds) /\ IsInjective(ids) /\ ToSet(ids) = S
  BY ListingFacts
<1>4. /\ loaded = <<>> /\ results = <<>> /\ violations = 0
      /\ Len(loaded) = 0 /\ Len(results) = 0
  BY <1>2, Nothing
<1>5. job # NoJob /\ ~Named'
  BY <1>2 DEF NoJob, Named
<1>6. TypeInv'
  BY <1>1, <1>2, <1>3, EmptySeq DEF ReadersInv, TypeInv
<1>7. LoopInv'
  <2>1. Len(asked') \in Nat
    BY <1>1, <1>3, LenProperties
  <2> QED BY <1>1, <1>2, <1>4, <1>5, <2>1 DEF LoopInv
<1>8. ListingInv'
  BY <1>1, <1>2, <1>3, <1>5 DEF ListingInv
<1>9. ReplayInv' /\ SearchInv'
  BY <1>2, <1>4 DEF ReplayInv, SearchInv
<1>10. ExitInv'
  <2>1. CASE runs' # <<>>
    BY <1>1, <1>2, <2>1 DEF ExitInv
  <2>2. CASE runs' = <<>>
    <3>1. asked' = <<>> => \A id \in RunIds : listing'[id] = Absent
      <4>1. asked' = <<>> => S = {}
        BY <1>1, <1>3, EmptySeq DEF ToSet
      <4> QED BY <1>2, <4>1
    <3>2. Finished'
      BY <1>5, <2>2, <3>1 DEF Finished
    <3>3. exit' = IF job.kind = "replay" THEN "0" ELSE "200"
      BY <1>1, <2>2
    <3> QED BY <1>2, <1>4, <3>2, <3>3 DEF ExitInv
  <2> QED BY <2>1, <2>2
<1> QED BY <1>6, <1>7, <1>8, <1>9, <1>10 DEF ReadersInv

\* One trace more is read: it is the next one asked for.
LEMMA LoadShape ==
  ASSUME ReadersInv, job.kind # "list", Load
  PROVE  LET n == Len(loaded)
         IN  /\ n \in Nat /\ n + 1 <= Len(asked) /\ Len(asked) \in Nat /\ asked # <<>>
             /\ Head(runs) = asked[n + 1]
             /\ Len(loaded') = n + 1 /\ loaded'[n + 1] = store[Head(runs)]
             /\ \A k \in 1..n : loaded'[k] = loaded[k]
             /\ Len(runs') = Len(asked) - (n + 1)
             /\ \A k \in 1..Len(runs') : runs'[k] = asked[n + 1 + k]
             /\ UNCHANGED <<store, job, asked, listing>>
<1> DEFINE n == Len(loaded)
<1>1. /\ runs \in Seq(RunIds) /\ loaded \in Seq(Stored) /\ asked \in Seq(RunIds)
      /\ runs # <<>>
  BY DEF ReadersInv, TypeInv, Load
<1>2. /\ runs' = Tail(runs) /\ loaded' = Append(loaded, store[Head(runs)])
      /\ store[Head(runs)] \in Stored /\ UNCHANGED <<store, job, asked, listing>>
  BY LoadFacts DEF ReadersInv
<1>3. /\ n \in Nat /\ Len(runs) \in Nat /\ Len(runs) >= 1 /\ Len(asked) \in Nat
      /\ Head(runs) = runs[1] /\ Len(runs') = Len(runs) - 1
      /\ \A k \in 1..(Len(runs) - 1) : runs'[k] = runs[k + 1]
  BY <1>1, <1>2, LenProperties, EmptySeq, HeadTailProperties
<1>4. /\ Len(loaded') = n + 1 /\ loaded'[n + 1] = store[Head(runs)]
      /\ \A k \in 1..n : loaded'[k] = loaded[k]
  BY <1>1, <1>2, AppendProperties
<1>5. /\ Len(asked) = n + Len(runs)
      /\ \A k \in 1..Len(runs) : runs[k] = asked[n + k]
  BY DEF ReadersInv, LoopInv
<1>6. asked # <<>>
  BY <1>1 DEF ReadersInv, LoopInv
<1> HIDE DEF n
<1>7. Head(runs) = asked[n + 1] /\ n + 1 <= Len(asked) /\ Len(runs') = Len(asked) - (n + 1)
  BY <1>3, <1>5
<1>8. ASSUME NEW k \in 1..Len(runs') PROVE runs'[k] = asked[n + 1 + k]
  <2>1. k + 1 \in 1..Len(runs) /\ n + (k + 1) = n + 1 + k /\ k \in 1..(Len(runs) - 1)
    BY <1>3
  <2> QED BY <1>3, <1>5, <2>1
<1> QED BY <1>2, <1>3, <1>4, <1>6, <1>7, <1>8 DEF n

LEMMA LoadStep ==
  ASSUME ReadersInv, job.kind # "list", Load
  PROVE  LoopInv' /\ ListingInv' /\ job # NoJob
<1> DEFINE n == Len(loaded)
<1>1. /\ n \in Nat /\ n + 1 <= Len(asked) /\ Len(asked) \in Nat /\ asked # <<>>
      /\ Head(runs) = asked[n + 1]
      /\ Len(loaded') = n + 1 /\ loaded'[n + 1] = store[Head(runs)]
      /\ \A k \in 1..n : loaded'[k] = loaded[k]
      /\ Len(runs') = Len(asked) - (n + 1)
      /\ \A k \in 1..Len(runs') : runs'[k] = asked[n + 1 + k]
      /\ UNCHANGED <<store, job, asked, listing>>
  BY LoadShape
<1>2. job # NoJob
  BY <1>1 DEF ReadersInv, LoopInv
<1>3. Head(runs) \in RunIds
  BY LoadFacts DEF ReadersInv
<1>4. ASSUME NEW k \in 1..(n + 1)
      PROVE  /\ Whole(loaded'[k]) => store[asked[k]] = loaded'[k]
             /\ Whole(listing[asked[k]]) => loaded'[k] = listing[asked[k]]
  <2>1. CASE k \in 1..n
    BY <1>1, <2>1 DEF ReadersInv, LoopInv
  <2>2. CASE k = n + 1
    <3>1. loaded'[k] = store[asked[k]] /\ asked[k] \in RunIds
      BY <1>1, <1>3, <2>2
    <3> QED BY <3>1 DEF ReadersInv, ListingInv
  <2>3. k \in 1..n \/ k = n + 1
    BY <1>1
  <2> QED BY <2>1, <2>2, <2>3
<1> HIDE DEF n
<1>5. LoopInv'
  BY <1>1, <1>2, <1>4 DEF LoopInv
<1>6. ListingInv'
  BY <1>1 DEF ReadersInv, ListingInv, Named
<1> QED BY <1>2, <1>5, <1>6

LEMMA ScanStep ==
  ASSUME ReadersInv, Scan
  PROVE  ReadersInv'
<1> DEFINE n == Len(loaded)
           tr == store[Head(runs)]
<1>1. /\ job.kind = "replay" /\ exit = "running" /\ Load /\ UNCHANGED <<results, exit>>
      /\ violations' = IF ~Whole(tr) \/ HasViolation(ScanTrace(tr))
                       THEN violations + 1 ELSE violations
  BY DEF Scan, Running
<1>2. /\ runs' \in Seq(RunIds) /\ loaded' \in Seq(Stored)
      /\ UNCHANGED <<store, job, asked, listing>>
  BY <1>1, LoadFacts DEF ReadersInv
<1>3. violations \in Nat /\ violations' = IF Clean(tr) THEN violations ELSE violations + 1
  BY <1>1 DEF ReadersInv, TypeInv, Clean
<1>4. TypeInv'
  BY <1>1, <1>2, <1>3 DEF ReadersInv, TypeInv
<1>5. LoopInv' /\ ListingInv'
  BY <1>1, LoadStep
<1>6. ReplayInv'
  <2>1. /\ n \in Nat /\ Len(loaded') = n + 1 /\ loaded'[n + 1] = tr
        /\ \A k \in 1..n : loaded'[k] = loaded[k]
    BY <1>1, LoadShape
  <2>2. violations = 0 <=> \A k \in 1..n : Clean(loaded[k])
    BY <1>1 DEF ReadersInv, ReplayInv
  <2> HIDE DEF n, tr
  <2>3. (\A k \in 1..(n + 1) : Clean(loaded'[k])) <=>
          (\A k \in 1..n : Clean(loaded[k])) /\ Clean(tr)
    <3>1. \A k \in 1..(n + 1) : k \in 1..n \/ k = n + 1
      BY <2>1
    <3>2. n + 1 \in 1..(n + 1) /\ \A k \in 1..n : k \in 1..(n + 1)
      BY <2>1
    <3> QED BY <2>1, <3>1, <3>2
  <2>4. violations' = 0 <=> violations = 0 /\ Clean(tr)
    BY <1>3
  <2>5. violations' = 0 <=> \A k \in 1..Len(loaded') : Clean(loaded'[k])
    BY <2>1, <2>2, <2>3, <2>4
  <2> QED BY <2>5 DEF ReplayInv, Clean
<1>7. SearchInv' /\ ExitInv'
  BY <1>1, <1>2 DEF SearchInv, ExitInv
<1> QED BY <1>4, <1>5, <1>6, <1>7 DEF ReadersInv

LEMMA ReportStep ==
  ASSUME ReadersInv, Report
  PROVE  ReadersInv'
<1>1. /\ job.kind = "replay" /\ asked # <<>> /\ runs = <<>>
      /\ exit' = IF violations = 0 THEN "0" ELSE "1"
      /\ UNCHANGED <<store, job, asked, runs, listing, loaded, violations, results>>
  BY DEF Report, Running
<1>2. TypeInv' /\ LoopInv'
  BY <1>1 DEF ReadersInv, TypeInv, LoopInv
<1>3. ListingInv' /\ ReplayInv'
  BY <1>1 DEF ReadersInv, ListingInv, ReplayInv, Named, Clean
<1>4. SearchInv'
  BY <1>1 DEF SearchInv
<1>5. ExitInv'
  BY <1>1 DEF ExitInv, Finished
<1> QED BY <1>2, <1>3, <1>4, <1>5 DEF ReadersInv

LEMMA ShowStep ==
  ASSUME ReadersInv, Show
  PROVE  ReadersInv'
<1>1. /\ job.kind = "show" /\ Load /\ UNCHANGED <<violations, results>>
      /\ exit' \in {"200", "404"}
  BY DEF Show, Running
<1>2. /\ runs' \in Seq(RunIds) /\ loaded' \in Seq(Stored)
      /\ UNCHANGED <<store, job, asked, listing>>
  BY <1>1, LoadFacts DEF ReadersInv
<1>3. TypeInv'
  BY <1>1, <1>2 DEF ReadersInv, TypeInv
<1>4. LoopInv' /\ ListingInv'
  BY <1>1, LoadStep
<1>5. ReplayInv' /\ SearchInv' /\ ExitInv'
  BY <1>1, <1>2 DEF ReplayInv, SearchInv, ExitInv
<1> QED BY <1>3, <1>4, <1>5 DEF ReadersInv

LEMMA SearchStep ==
  ASSUME ReadersInv, Search
  PROVE  ReadersInv'
<1> DEFINE n == Len(loaded)
           m == Len(results)
           id == Head(runs)
           tr == store[id]
<1>1. /\ job.kind = "search" /\ Load /\ UNCHANGED violations
      /\ results' = IF Hit(tr) THEN Append(results, id) ELSE results
      /\ exit' = IF runs' = <<>> THEN "200" ELSE exit
      /\ exit = "running"
  BY DEF Search, Running, Hit
<1>2. /\ runs' \in Seq(RunIds) /\ loaded' \in Seq(Stored) /\ id \in RunIds
      /\ UNCHANGED <<store, job, asked, listing>>
  BY <1>1, LoadFacts DEF ReadersInv
<1>3. results \in Seq(RunIds) /\ m \in Nat
  BY LenProperties DEF ReadersInv, TypeInv
<1>4. /\ Append(results, id) \in Seq(RunIds) /\ Len(Append(results, id)) = m + 1
      /\ \A r \in 1..m : Append(results, id)[r] = results[r]
      /\ Append(results, id)[m + 1] = id
  BY <1>2, <1>3, AppendProperties
<1>5. TypeInv'
  BY <1>1, <1>2, <1>3, <1>4 DEF ReadersInv, TypeInv
<1>6. LoopInv' /\ ListingInv'
  BY <1>1, LoadStep
<1>7. ReplayInv'
  BY <1>1, <1>2 DEF ReplayInv
<1>8. /\ n \in Nat /\ Len(loaded') = n + 1 /\ loaded'[n + 1] = tr /\ id = asked[n + 1]
      /\ \A k \in 1..n : loaded'[k] = loaded[k]
      /\ asked # <<>>
  BY <1>1, LoadShape
<1>9. /\ \A r \in 1..m : \E k \in 1..n : asked[k] = results[r] /\ Hit(loaded[k])
      /\ \A k \in 1..n : Hit(loaded[k]) => \E r \in 1..m : results[r] = asked[k]
      /\ \A i, j \in 1..m :
           i < j => \E k, l \in 1..n : k < l /\ asked[k] = results[i] /\ asked[l] = results[j]
  BY <1>1 DEF ReadersInv, SearchInv
<1>10. ExitInv'
  BY <1>1, <1>2, <1>8 DEF ExitInv, Finished
<1>11. \A x : Hit(x)' <=> Hit(x)
  BY <1>2 DEF Hit
<1> HIDE DEF n, m, id, tr
<1>12. n + 1 \in 1..(n + 1) /\ \A k \in 1..n : k \in 1..(n + 1) /\ k < n + 1
  BY <1>8
<1>13. \A k \in 1..(n + 1) : k \in 1..n \/ k = n + 1
  BY <1>8
<1> DEFINE found == results'
<1>14. CASE ~Hit(tr)
  <2>1. found = results /\ Len(found) = m
    BY <1>1, <1>14 DEF m
  <2> HIDE DEF found
  <2>2. \A r \in 1..m : \E k \in 1..(n + 1) : asked[k] = found[r] /\ Hit(loaded'[k])
    BY <1>8, <1>9, <1>12, <2>1
  <2>3. \A k \in 1..(n + 1) : Hit(loaded'[k]) => \E r \in 1..m : found[r] = asked[k]
    BY <1>8, <1>9, <1>13, <1>14, <2>1
  <2>4. ASSUME NEW i \in 1..m, NEW j \in 1..m, i < j
        PROVE  \E k, l \in 1..(n + 1) : k < l /\ asked[k] = found[i] /\ asked[l] = found[j]
    <3>1. PICK k \in 1..n, l \in 1..n : k < l /\ asked[k] = results[i] /\ asked[l] = results[j]
      BY <1>9, <2>4
    <3> QED BY <1>12, <2>1, <3>1
  <2>5. SearchInv'
    BY <1>2, <1>8, <2>1, <2>2, <2>3, <2>4 DEF SearchInv, Hit, found
  <2> QED BY <1>5, <1>6, <1>7, <1>10, <2>5 DEF ReadersInv
<1>15. CASE Hit(tr)
  <2>1. /\ Len(found) = m + 1 /\ \A r \in 1..m : found[r] = results[r]
        /\ found[m + 1] = asked[n + 1]
    BY <1>1, <1>4, <1>8, <1>15
  <2>a. m + 1 \in 1..(m + 1) /\ \A r \in 1..m : r \in 1..(m + 1)
    BY <1>3
  <2>b. \A r \in 1..(m + 1) : r \in 1..m \/ r = m + 1
    BY <1>3
  <2> HIDE DEF found
  <2>2. ASSUME NEW r \in 1..(m + 1)
        PROVE  \E k \in 1..(n + 1) : asked[k] = found[r] /\ Hit(loaded'[k])
    <3>1. CASE r \in 1..m
      <4>1. PICK k \in 1..n : asked[k] = results[r] /\ Hit(loaded[k])
        BY <1>9, <3>1
      <4>2. asked[k] = found[r] /\ Hit(loaded'[k]) /\ k \in 1..(n + 1)
        BY <1>8, <1>12, <2>1, <3>1, <4>1
      <4> QED BY <4>2
    <3>2. CASE r = m + 1
      BY <1>8, <1>12, <1>15, <2>1, <3>2
    <3> QED BY <2>b, <3>1, <3>2
  <2>3. \A k \in 1..(n + 1) : Hit(loaded'[k]) => \E r \in 1..(m + 1) : found[r] = asked[k]
    BY <1>8, <1>9, <1>13, <2>1, <2>a
  <2>4. ASSUME NEW i \in 1..(m + 1), NEW j \in 1..(m + 1), i < j
        PROVE  \E k, l \in 1..(n + 1) : k < l /\ asked[k] = found[i] /\ asked[l] = found[j]
    <3>1. i \in 1..m
      BY <1>3, <2>4
    <3>2. CASE j \in 1..m
      <4>1. PICK k \in 1..n, l \in 1..n : k < l /\ asked[k] = results[i] /\ asked[l] = results[j]
        BY <1>9, <2>4, <3>1, <3>2
      <4> QED BY <1>12, <2>1, <3>1, <3>2, <4>1
    <3>3. CASE j = m + 1
      <4>1. PICK k \in 1..n : asked[k] = results[i]
        BY <1>9, <3>1
      <4> QED BY <1>12, <2>1, <3>1, <3>3, <4>1
    <3> QED BY <2>b, <3>2, <3>3
  <2>5. SearchInv'
    BY <1>2, <1>8, <2>1, <2>2, <2>3, <2>4 DEF SearchInv, Hit, found
  <2> QED BY <1>5, <1>6, <1>7, <1>10, <2>5 DEF ReadersInv
<1> QED BY <1>14, <1>15

LEMMA InvStep == ReadersInv /\ [Next]_vars => ReadersInv'
<1> SUFFICES ASSUME ReadersInv, [Next]_vars PROVE ReadersInv'
  OBVIOUS
<1>1. CASE UNCHANGED vars
  <2>1. \A id \in RunIds : Whole(store[id]) => store'[id] = store[id]
    BY <1>1 DEF vars
  <2>2. store' \in [RunIds -> Stored]
    BY <1>1 DEF vars, ReadersInv, TypeInv
  <2> QED BY <1>1, <2>1, <2>2, StoreStep DEF vars
<1>2. CASE Next
  BY <1>2, SaveStep, StartStep, FailStep, TakeArgsStep, ListTracesStep, ScanStep, ReportStep,
     ShowStep, SearchStep DEF Next
<1> QED BY <1>1, <1>2

LEMMA InvHolds == Spec => []ReadersInv
BY InvInit, InvStep, PTL DEF Spec

-----------------------------------------------------------------------------
(* Theorems.                                                               *)

\* What was asked for was read.
LEMMA AllRead ==
  ASSUME ReadersInv, Finished, job.kind \in {"replay", "search"}
  PROVE  /\ Len(loaded) = Len(asked) /\ DOMAIN asked = 1..Len(asked)
         /\ asked = <<>> => ~Named /\ \A id \in RunIds : listing[id] = Absent
<1>1. Len(asked) \in Nat /\ Len(loaded) \in Nat /\ DOMAIN asked = 1..Len(asked)
  BY LenProperties DEF ReadersInv, TypeInv
<1>2. Len(runs) = 0
  BY EmptySeq DEF Finished
<1> QED BY <1>1, <1>2 DEF ReadersInv, LoopInv, Finished

\* A trace that was whole when it was listed was asked for.
LEMMA ListedIsAsked ==
  ASSUME ReadersInv, Finished, job.kind \in {"replay", "search"}, ~Named,
         NEW id \in RunIds, Whole(listing[id])
  PROVE  \E k \in 1..Len(loaded) : asked[k] = id
<1>1. listing[id] # Absent
  BY DEF Whole
<1>2. asked # <<>>
  BY <1>1, AllRead
<1>3. id \in ToSet(asked)
  BY <1>1, <1>2 DEF ReadersInv, ListingInv
<1> QED BY <1>3, AllRead DEF ToSet

\* Whatever agents store meanwhile, and however long their traces are, exit
\* code 0 of soft-replay tells that every trace it is answerable for was read,
\* and a bypass in it has an Allow to hide behind (soft_replay.rs:30-108,
\* replay.rs:43-49).
THEOREM SuccessMeansCleanHolds == Spec => []SuccessMeansClean
<1>1. ReadersInv => SuccessMeansClean
  <2> SUFFICES ASSUME ReadersInv, exit = "0", NEW id \in Due
               PROVE  Whole(store[id]) /\ (Bypassed(store[id]) => Unused(store[id]))
    BY DEF SuccessMeansClean
  <2>1. job.kind = "replay" /\ violations = 0 /\ Finished
    BY DEF ReadersInv, ExitInv
  <2>2. PICK k \in 1..Len(loaded) : asked[k] = id
    <3>1. CASE Named
      <4>1. id \in ToSet(asked)
        BY <3>1 DEF Due
      <4> QED BY <2>1, <4>1, AllRead DEF ToSet
    <3>2. CASE ~Named
      BY <2>1, <3>2, ListedIsAsked DEF Due
    <3> QED BY <3>1, <3>2
  <2>3. Clean(loaded[k])
    BY <2>1 DEF ReadersInv, ReplayInv
  <2>4. loaded[k] \in Stored
    BY ElementOfSeq DEF ReadersInv, TypeInv
  <2>5. store[id] = loaded[k] /\ Whole(loaded[k])
    BY <2>2, <2>3 DEF Clean, ReadersInv, LoopInv
  <2>6. loaded[k] \in Traces
    BY <2>4, <2>5, WholeMeans
  <2> QED BY <2>3, <2>5, <2>6, BypassShows DEF Clean
<1> QED BY <1>1, InvHolds, PTL

\* Exit code 1 of soft-replay has a cause, in any store: a trace that could
\* not be read, or one with an execution its gate had refused; the counts of a
\* run without a gate never are one (soft_replay.rs:55-107, replay.rs:34-49).
THEOREM FailureHasCauseHolds == Spec => []FailureHasCause
<1>1. ReadersInv => FailureHasCause
  <2> SUFFICES ASSUME ReadersInv, exit = "1"
               PROVE  \E i \in DOMAIN loaded : ~Whole(loaded[i]) \/ Bypassed(loaded[i])
    BY DEF FailureHasCause
  <2>1. job.kind = "replay" /\ violations # 0
    BY DEF ReadersInv, ExitInv
  <2>2. PICK k \in 1..Len(loaded) : ~Clean(loaded[k])
    BY <2>1 DEF ReadersInv, ReplayInv
  <2>3. loaded[k] \in Stored /\ k \in DOMAIN loaded
    BY ElementOfSeq, LenProperties DEF ReadersInv, TypeInv
  <2>4. Whole(loaded[k]) => loaded[k] \in Traces /\ HasViolation(ScanTrace(loaded[k]))
    BY <2>2, <2>3, WholeMeans DEF Clean
  <2> QED BY <2>3, <2>4, ViolationIsBypass
<1> QED BY <1>1, InvHolds, PTL

\* A search finds what was stored when it began, and only traces with the
\* query, each once and in the order of the listing, whatever is stored
\* meanwhile (soft-trace-viewer/main.rs:149-201).
THEOREM SearchFaithfulHolds == Spec => []SearchFaithful
<1>1. ReadersInv => SearchFaithful
  <2> SUFFICES ASSUME ReadersInv, job.kind = "search", exit = "200", job.query # ""
               PROVE  SearchFaithful
    BY DEF SearchFaithful
  <2>1. Finished /\ ~Named
    BY DEF ReadersInv, ExitInv, Named
  <2>2. Len(loaded) = Len(asked) /\ DOMAIN asked = 1..Len(asked)
    BY <2>1, AllRead
  <2>3. DOMAIN results = 1..Len(results)
    BY LenProperties DEF ReadersInv, TypeInv
  <2>4. ASSUME NEW i \in DOMAIN results, NEW j \in DOMAIN results, i < j
        PROVE  \E k, l \in DOMAIN asked : k < l /\ asked[k] = results[i] /\ asked[l] = results[j]
    <3>1. \A p, q \in 1..Len(results) :
            p < q => \E k, l \in 1..Len(loaded) :
                       k < l /\ asked[k] = results[p] /\ asked[l] = results[q]
      BY DEF ReadersInv, SearchInv
    <3>2. i \in 1..Len(results) /\ j \in 1..Len(results) /\ i < j
      BY <2>3, <2>4
    <3>3. PICK k \in 1..Len(loaded), l \in 1..Len(loaded) :
            k < l /\ asked[k] = results[i] /\ asked[l] = results[j]
      BY <3>1, <3>2
    <3> QED BY <2>2, <3>3
  <2>5. IsInjective(asked)
    BY <2>1 DEF ReadersInv, ListingInv
  <2>6. ASSUME NEW id \in ToSet(results) PROVE Matches(store[id], job.query)
    <3>1. PICK r \in 1..Len(results) : results[r] = id
      BY <2>3 DEF ToSet
    <3>2. PICK k \in 1..Len(loaded) : asked[k] = results[r] /\ Hit(loaded[k])
      BY DEF ReadersInv, SearchInv
    <3>3. store[id] = loaded[k]
      BY <3>1, <3>2 DEF ReadersInv, LoopInv, Hit
    <3> QED BY <3>2, <3>3 DEF Hit
  <2>7. ASSUME NEW id \in RunIds, Whole(listing[id]), Matches(listing[id], job.query)
        PROVE  id \in ToSet(results)
    <3>1. PICK k \in 1..Len(loaded) : asked[k] = id
      BY <2>1, <2>7, ListedIsAsked
    <3>2. loaded[k] = listing[id]
      BY <2>7, <3>1 DEF ReadersInv, LoopInv
    <3>3. PICK r \in 1..Len(results) : results[r] = asked[k]
      BY <2>7, <3>2 DEF ReadersInv, SearchInv, Hit
    <3> QED BY <2>3, <3>1, <3>3 DEF ToSet
  <2> QED BY <2>4, <2>5, <2>6, <2>7 DEF SearchFaithful
<1> QED BY <1>1, InvHolds, PTL
=============================================================================

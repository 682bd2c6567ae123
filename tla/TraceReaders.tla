---------------------------- MODULE TraceReaders ----------------------------
(***************************************************************************)
(* The two programs that read stored traces while agents still store them:  *)
(* soft-replay (crates/soft-agent/src/bin/soft_replay.rs), which scans the   *)
(* traces it is asked for, or all, and exits with what it found, and        *)
(* soft-trace-viewer (crates/soft-trace-viewer/src/main.rs), which lists,   *)
(* shows and searches them.  The traces are any a gate could have left,     *)
(* also one that was bypassed: that is what soft-replay is there to find.   *)
(***************************************************************************)
EXTENDS ReplayScan, SequencesExt

CONSTANTS
  RunIds,       \* names of runs
  Queries,      \* what a search looks for; "" is a blank query
  MaxActions,   \* bound: actions in one trace
  MaxArgs       \* bound: run ids on the command line

ASSUME ReadersAssumption ==
  MaxActions \in Nat /\ MaxArgs \in Nat /\ IsFiniteSet(RunIds)

VARIABLES
  store,       \* run id -> its trace, Absent, or Partial while it is written
  job,         \* what is asked for
  asked,       \* run_ids, as given or listed
  runs,        \* run ids left to look at; the loop variable
  listing,     \* history: the store when it was listed
  loaded,      \* history: what load_trace returned for each
  violations,
  results,     \* run ids a search has found
  exit         \* exit code or status; "running" until there is one

vars == <<store, job, asked, runs, listing, loaded, violations, results, exit>>

-----------------------------------------------------------------------------
(* Traces.                                                                 *)

Node(target, verdict) ==
  [target |-> target, shape |-> IF verdict = "none" THEN "none" ELSE "object",
   verdict |-> verdict]

Proposal == Node("action.proposed", "none")
Verdicts == {Node("gate.verdict", v) : v \in {"allow", "deny", "inconclusive"}}
Ends == {Node(end, "none") : end \in {"action.executed", "action.skipped"}}

\* What one action leaves in a trace: its proposal, with a gate the verdict,
\* and whether it was executed, skipped for its MCP server, or, behind a gate,
\* neither.
MayFollow(gated) ==
  ({Proposal} \X (IF gated THEN Verdicts ELSE Ends))
    \cup (Verdicts \X (Ends \cup {Proposal}))
    \cup (Ends \X {Proposal})

\* A run has a gate or it has none.
IsTrace(tr) ==
  /\ tr # <<>> => tr[1] = Proposal /\ tr[Len(tr)] # Proposal
  /\ \E gated \in BOOLEAN : \A i \in 2..Len(tr) : <<tr[i - 1], tr[i]>> \in MayFollow(gated)

TracesOf(length) ==
  {tr \in [1..length -> {Proposal} \cup Verdicts \cup Ends] :
     IsTrace(tr) /\ Cardinality(TargetAt(tr, "action.proposed")) <= MaxActions}

Traces == UNION {TracesOf(length) : length \in 0..(3 * MaxActions)}

Absent == <<[target |-> "absent"]>>
Partial == <<[target |-> "partial"]>>
Whole(tr) == tr \notin {Absent, Partial}

\* The serialized trace contains the query.
Matches(tr, query) == \E i \in DOMAIN tr : query \in {tr[i].target, tr[i].verdict}

NoJob == [kind |-> "none"]
Jobs ==
  [kind : {"replay"}, args : UNION {[1..n -> RunIds] : n \in 0..MaxArgs}]
    \cup [kind : {"show"}, args : [1..1 -> RunIds]]
    \cup [kind : {"list"}]
    \cup [kind : {"search"}, query : Queries]

-----------------------------------------------------------------------------
Init ==
  /\ store = [id \in RunIds |-> Absent]
  /\ job = NoJob
  /\ asked = <<>> /\ runs = <<>>
  /\ listing = store
  /\ loaded = <<>> /\ violations = 0 /\ results = <<>>
  /\ exit = "running"

\* TraceWriter::finalize stores a trace under a name of its own, in more than
\* one step; the process may die between them.
BeginSave(id) ==
  /\ store[id] = Absent
  /\ store' = [store EXCEPT ![id] = Partial]
  /\ UNCHANGED <<job, asked, runs, listing, loaded, violations, results, exit>>

EndSave(id) ==
  /\ store[id] = Partial
  /\ \E tr \in Traces : store' = [store EXCEPT ![id] = tr]
  /\ UNCHANGED <<job, asked, runs, listing, loaded, violations, results, exit>>

-----------------------------------------------------------------------------
(* main of soft-replay, handle of the viewer.                              *)

\* A command line or a request; a blank query is answered at once.
Start(j) ==
  /\ job = NoJob
  /\ job' = j
  /\ exit' = IF j.kind = "search" /\ j.query = "" THEN "200" ELSE exit
  /\ UNCHANGED <<store, asked, runs, listing, loaded, violations, results>>

Running(kinds) == exit = "running" /\ job.kind \in kinds
Named == job.kind = "show" \/ (job.kind = "replay" /\ job.args # <<>>)

\* The store cannot be opened or listed.
Fail ==
  /\ Running({"replay", "list", "search"})
  /\ asked = <<>>
  /\ exit' = IF job.kind = "replay" THEN "2" ELSE "500"
  /\ UNCHANGED <<store, job, asked, runs, listing, loaded, violations, results>>

\* The run ids of the command line or the path, which need not exist.
TakeArgs ==
  /\ Running({"replay", "show"})
  /\ asked = <<>> /\ Named
  /\ asked' = job.args /\ runs' = job.args
  /\ UNCHANGED <<store, job, listing, loaded, violations, results, exit>>

\* list_traces, in any order; with no trace all are done.
ListTraces ==
  /\ Running({"replay", "list", "search"})
  /\ asked = <<>> /\ ~Named
  /\ listing' = store
  /\ \E ids \in SetToSeqs({id \in RunIds : store[id] # Absent}) :
       /\ asked' = ids
       /\ runs' = IF job.kind = "list" THEN <<>> ELSE ids
       /\ exit' = IF runs' # <<>> THEN exit ELSE IF job.kind = "replay" THEN "0" ELSE "200"
  /\ UNCHANGED <<store, job, loaded, violations, results>>

Load ==
  /\ runs # <<>>
  /\ loaded' = Append(loaded, store[Head(runs)])
  /\ runs' = Tail(runs)
  /\ UNCHANGED <<store, job, asked, listing>>

\* One turn of soft-replay's loop: a trace that cannot be loaded counts as a
\* violation.
Scan ==
  /\ Running({"replay"}) /\ Load
  /\ LET tr == store[Head(runs)]
     IN  violations' = IF ~Whole(tr) \/ HasViolation(ScanTrace(tr))
                       THEN violations + 1 ELSE violations
  /\ UNCHANGED <<results, exit>>

Report ==
  /\ Running({"replay"}) /\ asked # <<>> /\ runs = <<>>
  /\ exit' = IF violations = 0 THEN "0" ELSE "1"
  /\ UNCHANGED <<store, job, asked, runs, listing, loaded, violations, results>>

\* GET /api/trace/<id>.
Show ==
  /\ Running({"show"}) /\ Load
  /\ exit' = IF Whole(store[Head(runs)]) THEN "200" ELSE "404"
  /\ UNCHANGED <<violations, results>>

\* A slip, see Runner: the search ends at a trace that cannot be loaded.
SearchUntil ==
  /\ Running({"search"}) /\ Load
  /\ LET tr == store[Head(runs)]
     IN  /\ results' = IF Whole(tr) /\ Matches(tr, job.query)
                       THEN Append(results, Head(runs)) ELSE results
         /\ exit' = IF runs' = <<>> \/ ~Whole(tr) THEN "200" ELSE exit
  /\ UNCHANGED violations

\* One turn of handle_search's loop: a trace that cannot be loaded is skipped.
\* The answer says how many were listed.
Search ==
  /\ Running({"search"}) /\ Load
  /\ LET tr == store[Head(runs)]
     IN  results' = IF Whole(tr) /\ Matches(tr, job.query)
                    THEN Append(results, Head(runs)) ELSE results
  /\ exit' = IF runs' = <<>> THEN "200" ELSE exit
  /\ UNCHANGED violations

Next ==
  \/ \E id \in RunIds : BeginSave(id) \/ EndSave(id)
  \/ \E j \in Jobs : Start(j)
  \/ Fail \/ TakeArgs \/ ListTraces \/ Scan \/ Report \/ Show \/ Search

Spec == Init /\ [][Next]_vars

-----------------------------------------------------------------------------
(* Properties.                                                             *)

\* An action was executed that the gate had just refused.
Bypassed(tr) ==
  \E i \in 2..Len(tr) :
    /\ tr[i].target = "action.executed"
    /\ tr[i - 1].target = "gate.verdict"
    /\ VerdictKind(tr[i - 1]) # "allow"

\* An Allow was not used: its action was skipped, or the trace ends there.
Unused(tr) ==
  \E i \in DOMAIN tr :
    /\ tr[i].target = "gate.verdict" /\ VerdictKind(tr[i]) = "allow"
    /\ i + 1 \in DOMAIN tr => tr[i + 1].target # "action.executed"

\* What a run of soft-replay is answerable for: what it was asked, or what was
\* stored when it looked.
Due == IF Named THEN ToSet(asked) ELSE {id \in RunIds : Whole(listing[id])}

\* Exit code 0 means that every trace asked for, or stored by the time of the
\* listing, was read and shows no bypass, provided every Allow in it was used,
\* also while others are still being stored (soft_replay.rs:4, 30-40,
\* replay.rs:43-49).
SuccessMeansClean ==
  exit = "0" =>
    \A id \in Due :
      /\ Whole(store[id])
      /\ Bypassed(store[id]) => Unused(store[id])

\* Exit code 1 has a cause: a trace that could not be read, when it was tried,
\* or a bypass (soft_replay.rs:55-107); a run without a gate is none
\* (replay.rs:34-38).
FailureHasCause ==
  exit = "1" =>
    \E i \in DOMAIN loaded : ~Whole(loaded[i]) \/ Bypassed(loaded[i])

\* A search finds every trace with the query that was stored when it began,
\* once, in the order of the listing, and none without it, also if others
\* cannot be read or are stored meanwhile (soft-trace-viewer/main.rs:149-201).
SearchFaithful ==
  job.kind = "search" /\ exit = "200" /\ job.query # "" =>
    /\ \A i, j \in DOMAIN results :
         i < j => \E k, l \in DOMAIN asked :
                    k < l /\ asked[k] = results[i] /\ asked[l] = results[j]
    /\ IsInjective(asked)
    /\ \A id \in ToSet(results) : Matches(store[id], job.query)
    /\ \A id \in RunIds :
         Whole(listing[id]) /\ Matches(listing[id], job.query) => id \in ToSet(results)

\* replay.rs:43-44 of has_violation: "True if the trace bypassed a
\* Deny/Inconclusive verdict".
BypassIsFlagged ==
  exit = "0" => \A i \in DOMAIN loaded : Whole(loaded[i]) => ~Bypassed(loaded[i])
=============================================================================

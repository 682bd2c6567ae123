----------------------------- MODULE ReplayScan -----------------------------
(***************************************************************************)
(* soft-replay's reading of one trace (crates/soft-agent/src/replay.rs):    *)
(* what scan_trace counts and what has_violation concludes.  A trace is the *)
(* sequence of its nodes in the order scan_node visits them, the nested     *)
(* ones included.                                                          *)
(***************************************************************************)
EXTENDS Naturals, Sequences, FiniteSets

\* verdict_kind: the verdict sits in the node's output under "verdict",
\* wrapped in an object (as the runner writes it) or as a bare string.  A node
\* that failed has no output, and any other shape has no kind.
VerdictKind(node) ==
  IF node.shape \in {"object", "string"} THEN node.verdict ELSE "none"

TargetAt(tr, target) == {i \in DOMAIN tr : tr[i].target = target}

VerdictAt(tr, kind) ==
  {i \in TargetAt(tr, "gate.verdict") : VerdictKind(tr[i]) = kind}

ScanTrace(tr) ==
  [proposed     |-> Cardinality(TargetAt(tr, "action.proposed")),
   allowed      |-> Cardinality(VerdictAt(tr, "allow")),
   denied       |-> Cardinality(VerdictAt(tr, "deny")),
   inconclusive |-> Cardinality(VerdictAt(tr, "inconclusive")),
   executed     |-> Cardinality(TargetAt(tr, "action.executed")),
   skipped      |-> Cardinality(TargetAt(tr, "action.skipped"))]

IsGated(c) == c.allowed + c.denied + c.inconclusive > 0

\* Slips, see Runner: at least as many instead of more; an inconclusive verdict
\* taken for an allowance.
HasViolationOffByOne(c) == IsGated(c) /\ c.executed >= c.allowed
HasViolationLenient(c) == IsGated(c) /\ c.executed > c.allowed + c.inconclusive

HasViolation(c) == IsGated(c) /\ c.executed > c.allowed
=============================================================================

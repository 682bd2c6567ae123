------------------------------- MODULE Scrape -------------------------------
(***************************************************************************)
(* GET /metrics while the runner works.  The server thread renders one       *)
(* metric family after the other, each under its own lock                  *)
(* (crates/soft-agent/src/metrics.rs), so a page mixes moments.  What may a *)
(* reader still conclude from it?                                          *)
(***************************************************************************)
EXTENDS Runner

VARIABLES
  next,   \* position in Families of the family to render; 0: page is finished
  page    \* the page, as far as it is rendered; before the first one, blank

scrapeVars == <<next, page>>

-----------------------------------------------------------------------------
(* A slip, see Runner: the histograms first.                               *)

FamiliesHistogramsFirst ==
  <<"executeDuration", "stepDuration", "messages", "proposed", "allowed",
    "denied", "verdict", "ticks", "steps">>

-----------------------------------------------------------------------------
\* The order of render_prometheus.
Families ==
  <<"messages", "proposed", "allowed", "denied", "verdict", "ticks", "steps",
    "stepDuration", "executeDuration">>

Blank == [c \in Counters |-> 0]

ScrapeInit == Init /\ next = 0 /\ page = Blank

\* The server thread, which outlives the runner, takes a GET /metrics.
BeginScrape ==
  /\ next = 0
  /\ status # "crashed"
  /\ next' = 1
  /\ page' = Blank
  /\ UNCHANGED vars

\* LabeledCounter::render and its siblings: the series of one family, under
\* the lock of the family; a series that was never incremented is not there,
\* which a reader takes for 0.  The page goes out after the last family.
Render ==
  /\ next > 0
  /\ status # "crashed"
  /\ page' = [c \in Counters |-> IF c[1] = Families[next] THEN metrics[c] ELSE page[c]]
  /\ next' = IF next = Len(Families) THEN 0 ELSE next + 1
  /\ UNCHANGED vars

ScrapeNext ==
  \/ Next /\ UNCHANGED scrapeVars
  \/ BeginScrape
  \/ Render

ScrapeSpec == ScrapeInit /\ [][ScrapeNext]_<<vars, scrapeVars>>

-----------------------------------------------------------------------------
(* Properties.                                                             *)

OverKinds(p, family) ==
  p[<<family, "call_mcp">>] + p[<<family, "send_a2a">>]
    + p[<<family, "local_llm">>] + p[<<family, "cloud_llm">>]

DeniedFor(p, reason) ==
  p[<<"denied", "call_mcp", reason>>] + p[<<"denied", "send_a2a", reason>>]
    + p[<<"denied", "local_llm", reason>>] + p[<<"denied", "cloud_llm", reason>>]

EndedSteps(p, family) == p[<<family, "Processed">>] + p[<<family, "Error">>]

\* What a page may be relied on for.  It never shows more than was counted,
\* however long ago it was rendered, so no counter goes back, as rate() needs
\* (metrics.rs:8 "monotonic_total").  Because the smaller number is rendered
\* first, every allowed action is in the execution histogram; every denial by
\* the gate has its Deny or Inconclusive verdict, and with a gate every action
\* that was allowed or skipped has its Allow; no message but the one being
\* worked on lacks a step, and no step but the last a duration
\* (metrics.rs:307-323, runner.rs:145-266).
PageBounds ==
  /\ \A c \in Counters : page[c] <= metrics[c]
  /\ next = 0 =>
       /\ \A k \in Kinds : page[<<"allowed", k>>] <= page[<<"executeDuration", k>>]
       /\ DeniedFor(page, "gate") <=
            page[<<"verdict", "Deny">>] + page[<<"verdict", "Inconclusive">>]
       /\ gate # NoGate =>
            OverKinds(page, "allowed") + DeniedFor(page, "mcp_allowlist")
              <= page[<<"verdict", "Allow">>]
       /\ \A t \in Topics : page[<<"messages", t>>] <= EndedSteps(page, "steps") + 1
       /\ EndedSteps(page, "steps") <= EndedSteps(page, "stepDuration") + 1
=============================================================================

------------------------------ MODULE MCLaunch ------------------------------
(* soft-run for TLC: the command lines of the Procfile and of compose and    *)
(* what a hand may type, programs good and bad, specs there or not.          *)
EXTENDS Launch, TLC

F(name) == <<name>>    \* a word without "="
File == F("agent.lex")
Port == <<F("--port"), F("8001")>>
Peer(url) == <<F("--peer"), <<"depot", url>>>>

\* Procfile; two of many flags; flags that take the next flag for a value.
MCCommandLines == {
  <<>>,
  <<File>> \o Port \o <<F("--store"), F("/tmp/s")>> \o Peer("http://d")
    \o <<F("--tick"), <<"Tick", "2s">>>>,
  <<File>> \o Peer("old") \o Port \o Peer("new")
    \o <<F("--budget"), F("9"), F("--bind"), F("127.0.0.2"), F("--budget"), F("1")>>,
  <<File>> \o Port \o <<F("--bind"), F("0.0.0.0")>>,
  <<File>> \o Port \o <<F("--bind"), F("--store"), F("/tmp/s")>>,
  <<File>> \o Port \o <<F("--bind"), F("0.0.0.0"), F("--shutdown-token"), F("t")>>
    \o <<F("--llm-cloud-provider"), F("anthropic")>>,
  <<File>> \o <<F("--port")>>,
  <<File, F("--peer"), F("depot")>> \o Port,
  <<File, F("--tick"), <<"Tick", "2">>>> \o Port,
  <<File, F("--store"), F("/tmp/s")>>}

\* docker-compose.yml, the vehicle.
ComposeCommandLines == {
  <<File, <<"--port", "8001">>, <<"--bind", "0.0.0.0">>, <<"--store", "/traces">>,
    <<"--peer", "depot", "http://depot:8002">>, <<"--state-json", "empty">>>>}

MCGood == [f \in Checked \cup {"--tick"} |->
  CASE f = "--tick" -> {F("2s")}
    [] f = "--port" -> {F("8001")}
    [] f = "--budget" -> {F("1"), F("9")}
    [] f = "--state-json" -> {F("empty")}
    [] f = "--llm-cloud-provider" -> {F("default"), F("anthropic")}]
MCLoopbacks == {F("127.0.0.1"), F("127.0.0.2"), F("::1")}
MCAddresses == {F("127.0.0.1"), F("127.0.0.2"), F("0.0.0.0")}

MCEnvironments == {
  [token |-> <<>>, budget |-> F("1"), key |-> TRUE],
  [token |-> F("t"), budget |-> F("many"), key |-> FALSE]}
ComposeEnvironments == {[token |-> F("localdev"), budget |-> <<>>, key |-> TRUE]}

Agent == [kind |-> "agent", named |-> TRUE, effects |-> <<"a2a">>, servers |-> {},
          specs |-> <<>>, handlers |-> <<>>]
Gated == [Agent EXCEPT !.specs = <<"a.spec", "b.spec">>,
            !.handlers = <<<<"Tick", "first">>, <<"Tick", "last">>, <<"Ask">>>>]
ComposePrograms == {Gated}
MCPrograms == {
  Missing, Uncompilable, Gated,
  [Agent EXCEPT !.handlers = <<<<"Ask", "ask">>>>],
  [Agent EXCEPT !.effects = <<"a2a", "llm_local", "llm_cloud">>],
  [Agent EXCEPT !.effects = <<"mcp">>]}
=============================================================================

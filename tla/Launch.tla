------------------------------- MODULE Launch -------------------------------
(***************************************************************************)
(* One soft-run process from its command line to its exit code             *)
(* (crates/soft-runner/src/main.rs), and the supervisor that starts it      *)
(* again: flags and environment, the agent's program and its config         *)
(* (lex_dsl.rs, agent.rs), the files of its spec gate, tick threads, signal *)
(* handler, listener, loop.  What it reads may change while it starts.      *)
(*                                                                         *)
(* A word of a command line is the sequence of its parts between "=".  What *)
(* the loop does with messages and requests in detail is the matter of      *)
(* Runner and Delivery.                                                    *)
(***************************************************************************)
EXTENDS Naturals, Sequences, FiniteSets, SequencesExt, FiniteSetsExt

CONSTANTS
  CommandLines,   \* the agent's file and the words after it
  Environments,   \* SOFT_SHUTDOWN_TOKEN, SOFT_BUDGET, ANTHROPIC_API_KEY
  Programs,       \* what the agent's file may hold
  SpecFiles,      \* paths agent_specs may name
  Good,           \* words each flag with a checked value takes; durations of ticks
  Loopbacks,      \* words that are a loopback IP address
  Addresses,      \* words that are the address of this host
  Topics,         \* topics of messages
  MaxMessages,    \* bound: messages waiting
  MaxChanges      \* bound: changes of files and port, and kills, together

Checked == {"--port", "--budget", "--state-json", "--llm-cloud-provider"}
Single == Checked \cup {"--bind", "--store", "--shutdown-token"}
Effects == {"llm_local", "llm_cloud", "a2a", "mcp", "time"}
NoWord == <<>>
Missing == [kind |-> "missing"]
Uncompilable == [kind |-> "broken"]

\* What a spec's file may hold: two versions that compile, or none that does.
GoodTexts == {"v1", "v2"}
SpecTexts == {"missing", "broken"} \cup GoodTexts

\* A word has at least one part; NoWord stands for one that is not there.
Words == Seq(STRING) \ {NoWord}

ASSUME LaunchAssumption ==
  /\ CommandLines \subseteq Seq(Words)
  /\ Environments \subseteq [token : Seq(STRING), budget : Seq(STRING), key : BOOLEAN]
  /\ \A p \in Programs : p \in {Missing, Uncompilable}
                          \/ (/\ p.kind = "agent" /\ p.specs \in Seq(SpecFiles)
                              /\ p.handlers \in Seq(Seq(STRING)))
  /\ Good \in [Checked \cup {"--tick"} -> SUBSET Words]
  /\ <<"127.0.0.1">> \in Loopbacks \cap Addresses
  /\ {MaxMessages, MaxChanges} \subseteq Nat

VARIABLES
  command, environment,   \* of every life of the process
  program, specs, busy,   \* the files, and whether the port is taken
  proc,                   \* the process
  changes

vars == <<command, environment, program, specs, busy, proc, changes>>
world == <<program, specs, busy>>
fixed == <<command, environment>>

-----------------------------------------------------------------------------
(* parse_args.                                                             *)

\* SOFT_BUDGET counts if it is a number; flags overwrite both.
Defaults ==
  [single |-> [f \in Single |->
     CASE f = "--bind" -> <<"127.0.0.1">>
       [] f = "--state-json" -> <<"empty">>
       [] f = "--llm-cloud-provider" -> <<"default">>
       [] f = "--shutdown-token" -> environment.token
       [] f = "--budget" /\ environment.budget \in Good[f] -> environment.budget
       [] OTHER -> NoWord],
   peers |-> <<>>, ticks |-> <<>>]

\* name=url, topic=duration, and values that parse.
Accepts(flag, value) ==
  \/ flag \in Checked /\ value \in Good[flag]
  \/ flag \in Single \ Checked
  \/ flag = "--peer" /\ Len(value) > 1
  \/ flag = "--tick" /\ Len(value) > 1 /\ Tail(value) \in Good[flag]

\* HashMap::insert.
Inserted(table, key, value) ==
  [k \in DOMAIN table \cup {key} |-> IF k = key THEN value ELSE table[k]]

\* A slip (see Runner): entry().or_insert for the peers.
AssignFirst(options, flag, value) ==
  CASE flag = "--peer" ->
         IF value[1] \in DOMAIN options.peers THEN options
         ELSE [options EXCEPT !.peers = Inserted(@, value[1], Tail(value))]
    [] flag = "--tick" -> [options EXCEPT !.ticks = Append(@, value)]
    [] OTHER -> [options EXCEPT !.single[flag] = value]

Assign(options, flag, value) ==
  CASE flag = "--peer" -> [options EXCEPT !.peers = Inserted(@, value[1], Tail(value))]
    [] flag = "--tick" -> [options EXCEPT !.ticks = Append(@, value)]
    [] OTHER -> [options EXCEPT !.single[flag] = value]

\* is_loopback_bind: a name is none, whatever it stands for.
Loopback(bind) == bind \in Loopbacks

-----------------------------------------------------------------------------
(* The config.                                                             *)

\* parse_lex_config: a name, and effects that exist.
Parses(c) == c.named /\ ToSet(c.effects) \subseteq Effects

\* AgentConfig::build.
Builds(c) ==
  LET effects == ToSet(c.effects)
  IN  /\ effects # {}
      /\ ~({"llm_local", "llm_cloud"} \subseteq effects)
      /\ "mcp" \in effects => c.servers # {}

ValidConfig(c) == Parses(c) /\ Builds(c)

-----------------------------------------------------------------------------
(* The process.                                                            *)

\* "born" and "told" are history: the changes there were before this life,
\* and whether somebody asked for its end.
Fresh ==
  [pc |-> "file", born |-> changes, words |-> command, options |-> Defaults,
   config |-> Missing, entries |-> 0, handlers |-> <<>>, sources |-> <<>>, gate |-> <<>>,
   handled |-> FALSE, flag |-> FALSE, told |-> FALSE, mailbox |-> <<>>,
   saved |-> FALSE, code |-> "none"]

At(label) == proc.pc = label
Go(label) == [proc EXCEPT !.pc = label]
Exited(code) == [proc EXCEPT !.pc = "exited", !.code = code]
Option(flag) == proc.options.single[flag]

\* Whether install_anthropic_handler fails.
KeyMissing == Option("--llm-cloud-provider") = <<"anthropic">> /\ ~environment.key

\* The port is taken, or the address is none of this host.
CannotBind == busy \/ Option("--bind") \notin Addresses

\* Slips: the first registration of a topic wins; with a spec that cannot be
\* read the agent runs without a gate; the first file is read for each;
\* an agent needs servers without mcp, too; the server gets a flag of its own;
\* two wrong exit codes.
RegisterFirst ==
  /\ At("handlers")
  /\ proc.entries < Len(proc.config.handlers)
  /\ LET h == proc.config.handlers[proc.entries + 1]
     IN  proc' = IF Len(h) = 2 /\ h[1] \notin DOMAIN proc.handlers
                 THEN [proc EXCEPT !.entries = @ + 1, !.handlers = Inserted(@, h[1], h[2])]
                 ELSE [proc EXCEPT !.entries = @ + 1]
  /\ UNCHANGED <<fixed, world, changes>>

ReadSpecLenient ==
  /\ At("specs")
  /\ Len(proc.sources) < Len(proc.config.specs)
  /\ LET text == specs[proc.config.specs[Len(proc.sources) + 1]]
     IN  proc' = IF text = "missing" THEN Go("build")
                 ELSE [proc EXCEPT !.sources = Append(@, text)]
  /\ UNCHANGED <<fixed, world, changes>>

ReadSpecOnce ==
  /\ At("specs")
  /\ Len(proc.sources) < Len(proc.config.specs)
  /\ LET text == specs[proc.config.specs[1]]
     IN  proc' = IF text = "missing" THEN Exited("2")
                 ELSE [proc EXCEPT !.sources = Append(@, text)]
  /\ UNCHANGED <<fixed, world, changes>>

BindAgain ==
  /\ At("bind")
  /\ proc' = IF CannotBind THEN Exited("1") ELSE [Go("loop") EXCEPT !.flag = FALSE]
  /\ UNCHANGED <<fixed, world, changes>>

ConfigureWantsServers ==
  /\ At("config")
  /\ proc' = IF ValidConfig(proc.config) /\ proc.config.servers # {}
             THEN Go("handlers") ELSE Exited("1")
  /\ UNCHANGED <<fixed, world, changes>>

EndOfFlagsOne ==
  /\ At("flags")
  /\ proc.words = <<>>
  /\ proc' = IF \/ Option("--port") = NoWord
                \/ ~Loopback(Option("--bind")) /\ Option("--shutdown-token") = NoWord
             THEN Exited("1") ELSE Go("read")
  /\ UNCHANGED <<fixed, world, changes>>

FinishSilently ==
  /\ At("close")
  /\ \E saved \in IF Option("--store") = NoWord THEN {FALSE} ELSE BOOLEAN :
       proc' = [Go("exited") EXCEPT !.saved = saved, !.mailbox = <<>>]
  /\ UNCHANGED <<fixed, world, changes>>

-----------------------------------------------------------------------------
Init ==
  /\ command \in CommandLines
  /\ environment \in Environments
  /\ program \in Programs
  /\ specs \in [SpecFiles -> SpecTexts]
  /\ busy \in BOOLEAN
  /\ changes = 0
  /\ proc = Fresh

TakeFile ==
  /\ At("file")
  /\ proc' = IF proc.words = <<>> THEN Exited("2")
             ELSE [Go("flags") EXCEPT !.words = Tail(@)]
  /\ UNCHANGED <<fixed, world, changes>>

\* One turn of the loop over the flags, which are compared as a whole; the
\* next word is the value, whatever it looks like.
TakeFlag ==
  /\ At("flags")
  /\ proc.words # <<>>
  /\ LET flag == Head(proc.words)
     IN  proc' = IF Len(flag) = 1 /\ Len(proc.words) > 1 /\ Accepts(flag[1], proc.words[2])
                 THEN [proc EXCEPT !.options = Assign(@, flag[1], proc.words[2]),
                                   !.words = SubSeq(@, 3, Len(@))]
                 ELSE Exited("2")
  /\ UNCHANGED <<fixed, world, changes>>

\* --port is required, and a token to listen on a reachable address.
EndOfFlags ==
  /\ At("flags")
  /\ proc.words = <<>>
  /\ proc' = IF \/ Option("--port") = NoWord
                \/ ~Loopback(Option("--bind")) /\ Option("--shutdown-token") = NoWord
             THEN Exited("2") ELSE Go("read")
  /\ UNCHANGED <<fixed, world, changes>>

\* read_to_string and LexHost::from_source.
ReadProgram ==
  /\ At("read")
  /\ proc' = CASE program = Missing      -> Exited("2")
               [] program = Uncompilable -> Exited("1")
               [] OTHER -> [Go("provider") EXCEPT !.config = program]
  /\ UNCHANGED <<fixed, world, changes>>

\* with_policy or install_anthropic_handler.  Either only sets what a Lex call
\* will be made with, whose charges are the external VM's matter.
Provider ==
  /\ At("provider")
  /\ proc' = IF KeyMissing THEN Exited("1") ELSE Go("config")
  /\ UNCHANGED <<fixed, world, changes>>

\* Runner::from_lex_host: parse_lex_config and build.
Configure ==
  /\ At("config")
  /\ proc' = IF ValidConfig(proc.config) THEN Go("handlers") ELSE Exited("1")
  /\ UNCHANGED <<fixed, world, changes>>

\* One turn of its loop over the handlers: handle_lex for an entry that has a
\* topic and a function.
Register ==
  /\ At("handlers")
  /\ proc.entries < Len(proc.config.handlers)
  /\ LET h == proc.config.handlers[proc.entries + 1]
     IN  proc' = IF Len(h) = 2
                 THEN [proc EXCEPT !.entries = @ + 1, !.handlers = Inserted(@, h[1], h[2])]
                 ELSE [proc EXCEPT !.entries = @ + 1]
  /\ UNCHANGED <<fixed, world, changes>>

EndOfHandlers ==
  /\ At("handlers")
  /\ proc.entries = Len(proc.config.handlers)
  /\ proc' = Go("specs")
  /\ UNCHANGED <<fixed, world, changes>>

ReadSpec ==
  /\ At("specs")
  /\ Len(proc.sources) < Len(proc.config.specs)
  /\ LET text == specs[proc.config.specs[Len(proc.sources) + 1]]
     IN  proc' = IF text = "missing" THEN Exited("2")
                 ELSE [proc EXCEPT !.sources = Append(@, text)]
  /\ UNCHANGED <<fixed, world, changes>>

\* Gate::from_sources; without specs there is no gate.
CompileGate ==
  /\ At("specs")
  /\ Len(proc.sources) = Len(proc.config.specs)
  /\ proc' = IF "broken" \in ToSet(proc.sources) THEN Exited("1")
             ELSE [Go("build") EXCEPT !.gate = proc.sources]
  /\ UNCHANGED <<fixed, world, changes>>

\* RunnerBuilder::build, which starts the tick threads.
Build ==
  /\ At("build")
  /\ proc' = Go("signals")
  /\ UNCHANGED <<fixed, world, changes>>

\* ctrlc::set_handler; that it fails is only reported.
SetHandler ==
  /\ At("signals")
  /\ \E installed \in BOOLEAN : proc' = [Go("bind") EXCEPT !.handled = installed]
  /\ UNCHANGED <<fixed, world, changes>>

\* A2aServer::bind and spawn.
Bind ==
  /\ At("bind")
  /\ proc' = IF CannotBind THEN Exited("1") ELSE Go("loop")
  /\ UNCHANGED <<fixed, world, changes>>

Ticking == proc.pc \in {"signals", "bind", "loop", "close"}
Listening == proc.pc \in {"loop", "close"}

\* A tick, or a message of a peer.
Arrive ==
  /\ Len(proc.mailbox) < MaxMessages
  /\ \/ Ticking /\ \E t \in ToSet(proc.options.ticks) :
          proc' = [proc EXCEPT !.mailbox = Append(@, t[1])]
     \/ Listening /\ \E t \in Topics : proc' = [proc EXCEPT !.mailbox = Append(@, t)]
  /\ UNCHANGED <<fixed, world, changes>>

\* runner.step, of which only matters here that it takes a message.
Step ==
  /\ At("loop")
  /\ ~proc.flag
  /\ proc.mailbox # <<>>
  /\ proc' = [proc EXCEPT !.mailbox = Tail(@)]
  /\ UNCHANGED <<fixed, world, changes>>

Stop ==
  /\ At("loop")
  /\ proc.flag
  /\ proc' = Go("close")
  /\ UNCHANGED <<fixed, world, changes>>

\* finalize into the store, if one was given; errors of it are only reported.
Finish ==
  /\ At("close")
  /\ \E saved \in IF Option("--store") = NoWord THEN {FALSE} ELSE BOOLEAN :
       proc' = [Exited("0") EXCEPT !.saved = saved, !.mailbox = <<>>]
  /\ UNCHANGED <<fixed, world, changes>>

-----------------------------------------------------------------------------
(* What happens to it.                                                     *)

Alive == proc.pc # "exited"

\* SIGINT or SIGTERM.
Signal ==
  /\ Alive /\ proc.handled
  /\ proc' = [proc EXCEPT !.flag = TRUE, !.told = TRUE]
  /\ UNCHANGED <<fixed, world, changes>>

\* POST /shutdown with the token, or to a process without one.
PostShutdown ==
  /\ Listening
  /\ proc' = [proc EXCEPT !.flag = TRUE, !.told = TRUE]
  /\ UNCHANGED <<fixed, world, changes>>

Change(action) ==
  /\ changes < MaxChanges
  /\ changes' = changes + 1
  /\ action

\* SIGKILL at the end of stop_grace_period, or SIGTERM without a handler.
Kill ==
  /\ Alive
  /\ Change(proc' = Exited("killed"))
  /\ UNCHANGED <<fixed, world>>

\* Somebody deploys other files, or takes or frees the port.
Deploy ==
  /\ Change(\/ program' \in Programs /\ UNCHANGED <<specs, busy>>
            \/ specs' \in [SpecFiles -> SpecTexts] /\ UNCHANGED <<program, busy>>
            \/ busy' = ~busy /\ UNCHANGED <<program, specs>>)
  /\ UNCHANGED <<fixed, proc>>

\* restart: unless-stopped, whatever the exit code.
Restart ==
  /\ ~Alive
  /\ proc' = Fresh
  /\ UNCHANGED <<fixed, world, changes>>

Main ==
  \/ TakeFile \/ TakeFlag \/ EndOfFlags \/ ReadProgram \/ Provider
  \/ Configure \/ Register \/ EndOfHandlers \/ ReadSpec \/ CompileGate \/ Build
  \/ SetHandler \/ Bind \/ Step \/ Stop \/ Finish

Next == Main \/ Arrive \/ Signal \/ PostShutdown \/ Kill \/ Deploy \/ Restart

\* main is scheduled, and the supervisor does its work.
FairSpec == Init /\ [][Next]_vars /\ WF_vars(Main) /\ WF_vars(Restart)

-----------------------------------------------------------------------------
(* Properties.                                                             *)

TypeOK ==
  /\ command \in CommandLines /\ environment \in Environments
  /\ program \in Programs /\ specs \in [SpecFiles -> SpecTexts] /\ busy \in BOOLEAN
  /\ changes \in 0..MaxChanges
  /\ DOMAIN proc = DOMAIN Fresh
  /\ Len(proc.mailbox) <= MaxMessages
  /\ proc.code \in {"none", "0", "1", "2", "killed"}
  /\ proc.code = "none" <=> Alive

\* The flags of a command line with a file and pairs of a flag and its value.
GivenAt(flag) == {i \in 2..Len(command) : i % 2 = 0 /\ command[i] = <<flag>>}
LastOf(places) == command[Max(places) + 1]
NamedAt(name) == {i \in GivenAt("--peer") : command[i + 1][1] = name}

\* Once the flags are through, each option has its last value on the command
\* line, or the environment's or the default, every peer its last URL, and
\* every tick is there, whatever the order of the flags (main.rs:111-190).
ParsedAsGiven ==
  proc.pc \notin {"file", "flags", "exited"} =>
    /\ \A f \in Single :
         Option(f) = IF GivenAt(f) = {} THEN Defaults.single[f] ELSE LastOf(GivenAt(f))
    /\ DOMAIN proc.options.peers = {command[i + 1][1] : i \in GivenAt("--peer")}
    /\ \A n \in DOMAIN proc.options.peers :
         proc.options.peers[n] = Tail(LastOf(NamedAt(n)))
    /\ Len(proc.options.ticks) = Cardinality(GivenAt("--tick"))

\* An agent starts with its whole gate or not at all: for every spec of its
\* config the gate has a text that compiled.
WholeGate == Ticking => proc.gate \in [DOMAIN proc.config.specs -> GoodTexts]

\* Without a change since it was started, program and gate are those on the
\* disk, each spec in its place; two versions are mixed only by a change.
AsDeployed ==
  Ticking /\ proc.born = changes =>
    /\ proc.config = program
    /\ proc.gate = [i \in DOMAIN proc.config.specs |-> specs[proc.config.specs[i]]]

\* An agent that takes messages is the one its config names, whatever happens
\* to the files while they are read: its gate is whole, and of one deployment
\* if there was no other since the start, every topic with a complete entry is
\* handled by the function its last such entry names, and no other topic is
\* (main.rs:226-305, lex_dsl.rs:90-101, runner.rs:137-139).
RunnerAsConfigured ==
  /\ WholeGate /\ AsDeployed
  /\ Ticking =>
       LET list == proc.config.handlers
           Complete == {i \in DOMAIN list : Len(list[i]) = 2}
           Entries(t) == {i \in Complete : list[i][1] = t}
       IN  /\ DOMAIN proc.handlers = {list[i][1] : i \in Complete}
           /\ \A t \in DOMAIN proc.handlers : proc.handlers[t] = list[Max(Entries(t))][2]

WellFormed ==
  /\ Len(command) % 2 = 1
  /\ \A i \in 2..Len(command) :
       i % 2 = 0 => Len(command[i]) = 1 /\ Accepts(command[i][1], command[i + 1])
  /\ GivenAt("--port") # {}
  /\ \/ GivenAt("--bind") = {} \/ Loopback(LastOf(GivenAt("--bind")))
     \/ GivenAt("--shutdown-token") # {} \/ environment.token # NoWord

\* What an exit code tells: 0, somebody asked for the end; 2, the command line
\* is not well-formed or a file is not there; 1, the command line is fine
\* (main.rs:90-97, 226-360, 423).
ExitTells ==
  [][Alive /\ ~Alive' =>
       CASE proc'.code = "0" -> proc.told
         [] proc'.code = "1" -> WellFormed
         [] proc'.code = "2" ->
              \/ ~WellFormed \/ program = Missing
              \/ proc.config # Missing
                   /\ \E f \in ToSet(proc.config.specs) : specs[f] = "missing"
         [] OTHER -> TRUE]_vars

\* A process that was told to stop comes to its end, also when it was told
\* before it listened or with messages waiting (main.rs:328-344, 390).
StopEnds == proc.told ~> ~Alive

InOrder ==
  /\ ~busy /\ environment.key
  /\ program \notin {Missing, Uncompilable}
  /\ program \notin {Missing, Uncompilable} =>
       ValidConfig(program) /\ \A f \in ToSet(program.specs) : specs[f] \in GoodTexts

\* The address to listen on is one of this host.
Addressed == GivenAt("--bind") = {} \/ LastOf(GivenAt("--bind")) \in Addresses

\* However a start failed or a life ended, the supervised process serves again
\* once its command line, files and port are in order (docker-compose.yml:50).
Recovers == <>[](WellFormed /\ Addressed /\ InOrder) => []<>Listening

\* docker-compose.yml:6-14: "docker compose up --build", then "Vehicle:
\* http://localhost:8001", with all files in order and the port free.
ComposeServes == []InOrder => <>Listening
=============================================================================

---------------------------- MODULE LaunchProofs ----------------------------
(***************************************************************************)
(* How soft-run starts and ends, for any command line, environment, files   *)
(* and agents: what it makes of its flags, which program and gate it serves *)
(* with, and what its exit code tells.                                     *)
(***************************************************************************)
EXTENDS Launch, SequenceTheorems, FiniteSetTheorems, TLAPS

-----------------------------------------------------------------------------
(* Types.                                                                  *)

Labels == {"file", "flags", "read", "provider", "config", "handlers", "specs", "build",
           "signals", "bind", "loop", "close", "exited"}
Texts == {"broken"} \cup GoodTexts
Parts == STRING \cup {"127.0.0.1", "default", "empty"}   \* of words and defaults
TickWords == {w \in Words : Len(w) > 1}
Tables == UNION {[S -> Parts] : S \in SUBSET Parts}
Urls == UNION {[S -> Seq(Parts)] : S \in SUBSET Parts}
Settings ==
  [single : [Single -> Seq(Parts)],
   peers : Urls,
   ticks : Seq(TickWords)]
Processes ==
  [pc : Labels, born : Nat, words : Seq(Words), options : Settings,
   config : Programs \cup {Missing}, entries : Nat, handlers : Tables,
   sources : Seq(Texts), gate : Seq(Texts), handled : BOOLEAN,
   flag : BOOLEAN, told : BOOLEAN, mailbox : Seq(Parts \cup Topics),
   saved : BOOLEAN, code : {"none", "0", "1", "2", "killed"}]

TypeInv ==
  /\ command \in CommandLines /\ environment \in Environments
  /\ program \in Programs /\ specs \in [SpecFiles -> SpecTexts] /\ busy \in BOOLEAN
  /\ changes \in 0..MaxChanges
  /\ proc \in Processes
  /\ Len(proc.mailbox) <= MaxMessages
  /\ proc.code = "none" <=> Alive

Known == command \in CommandLines /\ environment \in Environments /\ changes \in Nat

LEMMA WordSorts ==
  ASSUME Known
  PROVE  /\ command \in Seq(Words)
         /\ environment.token \in Seq(STRING) /\ environment.budget \in Seq(STRING)
         /\ environment.key \in BOOLEAN
BY LaunchAssumption DEF Known

LEMMA PartsSeq == Seq(STRING) \subseteq Seq(Parts) /\ Words \subseteq Seq(Parts)
<1>1. ASSUME NEW w \in Seq(STRING) PROVE w \in Seq(Parts)
  <2>1. w \in [1..Len(w) -> STRING] /\ Len(w) \in Nat
    BY LenProperties
  <2>2. w \in [1..Len(w) -> Parts]
    BY <2>1 DEF Parts
  <2> QED BY <2>1, <2>2
<1> QED BY <1>1 DEF Words

LEMMA OneWord == ASSUME NEW S, NEW x \in S PROVE <<x>> \in Seq(S)
<1>1. <<>> \in Seq(S)
  BY EmptySeq
<1>2. <<>> \o <<x>> = <<x>>
  OBVIOUS
<1>3. Append(<<>>, x) = <<>> \o <<x>>
  BY <1>1, AppendIsConcat
<1> QED BY <1>1, <1>2, <1>3, AppendProperties

LEMMA DefaultOf ==
  ASSUME Known
  PROVE  /\ Defaults \in Settings
         /\ Defaults.single["--bind"] = <<"127.0.0.1">>
         /\ Defaults.single["--port"] = NoWord
         /\ Defaults.single["--shutdown-token"] = environment.token
         /\ Defaults.single["--budget"] =
              IF environment.budget \in Good["--budget"] THEN environment.budget ELSE NoWord
         /\ Defaults.peers = <<>> /\ Defaults.ticks = <<>>
<1> DEFINE D(f) == CASE f = "--bind" -> <<"127.0.0.1">>
       [] f = "--state-json" -> <<"empty">>
       [] f = "--llm-cloud-provider" -> <<"default">>
       [] f = "--shutdown-token" -> environment.token
       [] f = "--budget" /\ environment.budget \in Good[f] -> environment.budget
       [] OTHER -> NoWord
<1>1. Defaults = [single |-> [f \in Single |-> D(f)], peers |-> <<>>, ticks |-> <<>>]
  BY Zenon DEF Defaults
<1>2. /\ D("--bind") = <<"127.0.0.1">>
      /\ D("--state-json") = <<"empty">>
      /\ D("--llm-cloud-provider") = <<"default">> /\ D("--shutdown-token") = environment.token
      /\ D("--port") = NoWord /\ D("--store") = NoWord
  BY Zenon
<1>3. D("--budget") =
        IF environment.budget \in Good["--budget"] THEN environment.budget ELSE NoWord
  BY Zenon
<1> HIDE DEF D
<1>4. NoWord \in Seq(Parts)
  BY EmptySeq DEF NoWord
<1>5. /\ <<"127.0.0.1">> \in Seq(Parts) /\ <<"default">> \in Seq(Parts)
      /\ <<"empty">> \in Seq(Parts)
  <2>1. "127.0.0.1" \in Parts /\ "default" \in Parts /\ "empty" \in Parts
    BY Zenon DEF Parts
  <2> QED BY <2>1, OneWord
<1>6. ASSUME NEW f \in Single PROVE D(f) \in Seq(Parts)
  BY <1>2, <1>3, <1>4, <1>5, WordSorts, PartsSeq DEF Single, Checked
<1>7. <<>> \in Urls
  <2>1. <<>> \in [{} -> Seq(Parts)]
    BY EmptySeq
  <2> QED BY <2>1 DEF Urls
<1>8. <<>> \in Seq(TickWords)
  BY EmptySeq
<1> QED BY <1>1, <1>2, <1>3, <1>6, <1>7, <1>8 DEF Settings, Single, Checked

\* A table after an insertion.
LEMMA InsertedMeans ==
  ASSUME NEW T, NEW table \in UNION {[S -> T] : S \in SUBSET Parts}, NEW key \in Parts,
         NEW value \in T
  PROVE  Inserted(table, key, value) \in UNION {[S -> T] : S \in SUBSET Parts}
<1>1. PICK S \in SUBSET Parts : table \in [S -> T]
  OBVIOUS
<1>2. Inserted(table, key, value) \in [S \cup {key} -> T]
  BY <1>1 DEF Inserted
<1>3. S \cup {key} \in SUBSET Parts
  BY <1>1
<1> QED BY <1>2, <1>3

\* What a flag with its value does to the options.
Follows(new, options, flag, value) ==
  \/ flag \in Single /\ new = [options EXCEPT !.single[flag] = value]
  \/ /\ flag = "--peer" /\ value[1] \in Parts /\ Tail(value) \in Seq(Parts)
     /\ new = [options EXCEPT !.peers = Inserted(options.peers, value[1], Tail(value))]
  \/ flag = "--tick" /\ new = [options EXCEPT !.ticks = Append(options.ticks, value)]

LEMMA AssignMeans ==
  ASSUME NEW options \in Settings, NEW flag, NEW value \in Words, Accepts(flag, value)
  PROVE  /\ Assign(options, flag, value) \in Settings
         /\ Follows(Assign(options, flag, value), options, flag, value)
<1>1. "--peer" \notin Single /\ "--tick" \notin Single /\ Checked \subseteq Single
  BY DEF Single, Checked
<1>2. value \in Seq(Parts) /\ value # <<>>
  BY PartsSeq DEF Words, NoWord
<1>3. CASE flag \in Single
  <2>1. Assign(options, flag, value) = [options EXCEPT !.single[flag] = value]
    BY Zenon, <1>1, <1>3 DEF Assign
  <2>2. [options EXCEPT !.single[flag] = value] \in Settings
    BY <1>2, <1>3 DEF Settings
  <2> QED BY <1>3, <2>1, <2>2 DEF Follows
<1>4. CASE flag = "--peer" /\ Len(value) > 1
  <2>1. Assign(options, flag, value)
          = [options EXCEPT !.peers = Inserted(options.peers, value[1], Tail(value))]
    BY Zenon, <1>4 DEF Assign
  <2>2. value[1] \in Parts /\ Tail(value) \in Seq(Parts)
    BY <1>2, <1>4, HeadTailProperties, ElementOfSeq, LenProperties
  <2>3. options.peers \in Urls
    BY DEF Settings
  <2>4. Inserted(options.peers, value[1], Tail(value)) \in Urls
    BY <2>2, <2>3, InsertedMeans DEF Urls
  <2>5. [options EXCEPT !.peers = Inserted(options.peers, value[1], Tail(value))] \in Settings
    BY <2>4 DEF Settings
  <2> QED BY <1>4, <2>1, <2>2, <2>5 DEF Follows
<1>5. CASE flag = "--tick" /\ Len(value) > 1
  <2>1. Assign(options, flag, value) = [options EXCEPT !.ticks = Append(options.ticks, value)]
    BY Zenon, <1>5 DEF Assign
  <2>2. value \in TickWords /\ options.ticks \in Seq(TickWords)
    BY <1>5 DEF TickWords, Settings
  <2>3. Append(options.ticks, value) \in Seq(TickWords)
    BY <2>2, AppendProperties
  <2>4. [options EXCEPT !.ticks = Append(options.ticks, value)] \in Settings
    BY <2>3 DEF Settings
  <2> QED BY <1>5, <2>1, <2>4 DEF Follows
<1> QED BY <1>1, <1>3, <1>4, <1>5 DEF Accepts

LEMMA FreshType == Known => Fresh \in Processes
<1> SUFFICES ASSUME Known PROVE Fresh \in Processes
  OBVIOUS
<1>1. command \in Seq(Words) /\ Defaults \in Settings
  BY WordSorts, DefaultOf
<1>2. /\ <<>> \in Seq(Parts) /\ <<>> \in Seq(Texts) /\ <<>> \in Seq(Parts \cup Topics)
      /\ <<>> \in Tables
  <2>1. <<>> \in [{} -> Parts]
    BY EmptySeq
  <2>2. <<>> \in Tables
    BY <2>1 DEF Tables
  <2> QED BY <2>2, EmptySeq
<1> QED BY <1>1, <1>2 DEF Fresh, Processes, Labels, NoWord, Known

LEMMA TypeInit == Init => TypeInv
<1> SUFFICES ASSUME Init PROVE TypeInv
  OBVIOUS
<1>1. proc \in Processes
  BY FreshType DEF Init, Known
<1>2. Len(proc.mailbox) = 0 /\ proc.code = "none" /\ Alive
  BY DEF Init, Fresh, Alive
<1> QED BY <1>1, <1>2, LaunchAssumption DEF Init, TypeInv

LEMMA WordsLeft ==
  ASSUME NEW words \in Seq(Words), words # <<>>
  PROVE  /\ Head(words) \in Words /\ Tail(words) \in Seq(Words) /\ Len(words) \in Nat \ {0}
         /\ Len(Tail(words)) = Len(words) - 1
         /\ \A i \in 1..Len(words) - 1 : Tail(words)[i] = words[i + 1]
         /\ Head(words) = words[1]
         /\ Len(words) > 1 =>
              /\ words[2] \in Words
              /\ SubSeq(words, 3, Len(words)) \in Seq(Words)
              /\ Len(SubSeq(words, 3, Len(words))) = Len(words) - 2
              /\ \A i \in 1..Len(words) - 2 :
                   SubSeq(words, 3, Len(words))[i] = words[i + 2]
<1>1. /\ Head(words) \in Words /\ Tail(words) \in Seq(Words) /\ Len(words) \in Nat \ {0}
      /\ Len(Tail(words)) = Len(words) - 1
      /\ \A i \in 1..Len(Tail(words)) : Tail(words)[i] = words[i + 1]
  BY HeadTailProperties, EmptySeq, LenProperties
<1>2. Head(words) = words[1]
  BY <1>1
<1>3. ASSUME Len(words) > 1
      PROVE  /\ words[2] \in Words
             /\ SubSeq(words, 3, Len(words)) \in Seq(Words)
             /\ Len(SubSeq(words, 3, Len(words))) = Len(words) - 2
             /\ \A i \in 1..Len(words) - 2 :
                  SubSeq(words, 3, Len(words))[i] = words[i + 2]
  <2>1. words[2] \in Words
    BY <1>1, <1>3, ElementOfSeq
  <2>2. \A i \in 3..Len(words) : words[i] \in Words
    BY <1>1, ElementOfSeq
  <2>3. SubSeq(words, 3, Len(words)) = [i \in 1..Len(words) - 2 |-> words[i + 2]]
    BY <1>1, <1>3
  <2> QED BY <1>1, <1>3, <2>1, <2>2, <2>3
<1> QED BY <1>1, <1>2, <1>3

\* The fields of the process, each with its type.
LEMMA Fields ==
  ASSUME NEW p \in Processes
  PROVE  /\ p.pc \in Labels /\ p.words \in Seq(Words) /\ p.options \in Settings
         /\ p.config \in Programs \cup {Missing} /\ p.born \in Nat
         /\ p.entries \in Nat /\ p.handlers \in Tables /\ p.sources \in Seq(Texts)
         /\ p.gate \in Seq(Texts) /\ p.flag \in BOOLEAN /\ p.told \in BOOLEAN
         /\ p.mailbox \in Seq(Parts \cup Topics)
         /\ p.options.single \in [Single -> Seq(Parts)]
         /\ p.options.ticks \in Seq(TickWords)
BY DEF Processes, Settings

\* The types of the process after each of its steps.
LEMMA GoType ==
  ASSUME proc \in Processes, NEW label \in Labels
  PROVE  Go(label) \in Processes
BY DEF Go, Processes

LEMMA ExitedType ==
  ASSUME proc \in Processes, NEW code \in {"0", "1", "2", "killed"}
  PROVE  /\ Exited(code) \in Processes /\ Exited(code).pc = "exited" /\ Exited(code).code = code
         /\ Exited(code).mailbox = proc.mailbox
BY DEF Exited, Processes, Labels

\* What a step of the process has to keep, besides the type.
Sound(p) ==
  /\ p \in Processes
  /\ Len(p.mailbox) <= MaxMessages
  /\ p.code = "none" <=> p.pc # "exited"

LEMMA SoundGo ==
  ASSUME Sound(proc), proc.pc # "exited", NEW label \in Labels \ {"exited"}
  PROVE  Sound(Go(label))
BY GoType DEF Sound, Go, Processes

LEMMA SoundExited ==
  ASSUME Sound(proc), NEW code \in {"0", "1", "2", "killed"}
  PROVE  Sound(Exited(code))
BY ExitedType DEF Sound

LEMMA SoundFresh == Known => Sound(Fresh)
<1> SUFFICES ASSUME Known PROVE Sound(Fresh)
  OBVIOUS
<1>1. Fresh.mailbox = <<>> /\ Fresh.code = "none" /\ Fresh.pc = "file"
  BY DEF Fresh
<1> QED BY <1>1, FreshType, LaunchAssumption DEF Sound

LEMMA ParseTypes ==
  ASSUME TypeInv, TakeFile \/ TakeFlag \/ EndOfFlags
  PROVE  Sound(proc')
<1>1. Sound(proc) /\ proc.words \in Seq(Words) /\ proc.options \in Settings
  BY Fields DEF TypeInv, Sound, Alive
<1>2. CASE TakeFile
  <2>1. CASE proc.words = <<>>
    BY <1>1, <1>2, <2>1, SoundExited DEF TakeFile
  <2>2. CASE proc.words # <<>>
    <3>1. Tail(proc.words) \in Seq(Words)
      BY <1>1, <2>2, WordsLeft
    <3>2. proc' = [[proc EXCEPT !.pc = "flags"] EXCEPT !.words = Tail(proc.words)]
      BY <1>2, <2>2 DEF TakeFile, Go, Processes
    <3> QED BY ZenonT(60), <1>1, <1>2, <3>1, <3>2
        DEF Sound, Processes, Labels, TakeFile, At
  <2> QED BY <2>1, <2>2
<1>3. CASE TakeFlag
  <2> DEFINE flag == Head(proc.words)  value == proc.words[2]
             fine == Len(flag) = 1 /\ Len(proc.words) > 1 /\ Accepts(flag[1], value)
  <2>1. CASE ~fine
    BY <1>1, <1>3, <2>1, SoundExited DEF TakeFlag
  <2>2. CASE fine
    <3>1. value \in Words /\ SubSeq(proc.words, 3, Len(proc.words)) \in Seq(Words)
      BY <1>1, <1>3, <2>2, WordsLeft DEF TakeFlag
    <3>2. Assign(proc.options, flag[1], value) \in Settings
      BY <1>1, <2>2, <3>1, AssignMeans
    <3>3. proc' = [proc EXCEPT !.options = Assign(proc.options, flag[1], value),
                               !.words = SubSeq(proc.words, 3, Len(proc.words))]
      BY <1>1, <1>3, <2>2 DEF TakeFlag, Sound, Processes
    <3> HIDE DEF flag, value
    <3> QED BY ZenonT(60), <1>1, <1>3, <3>1, <3>2, <3>3 DEF Sound, Processes, TakeFlag, At
  <2> QED BY <2>1, <2>2
<1>4. CASE EndOfFlags
  BY <1>1, <1>4, SoundExited, SoundGo DEF EndOfFlags, At, Labels
<1> QED BY <1>2, <1>3, <1>4

LEMMA SetupTypes ==
  ASSUME TypeInv, ReadProgram \/ Provider \/ Configure \/ Build \/ SetHandler \/ Bind
  PROVE  Sound(proc')
<1>1. Sound(proc) /\ proc.options.single \in [Single -> Seq(Parts)]
  BY Fields DEF TypeInv, Sound, Alive
<1>2. CASE ReadProgram
  <2>1. CASE program = Missing
    BY <1>1, <1>2, <2>1, SoundExited, Zenon DEF ReadProgram
  <2>2. CASE program # Missing /\ program = Uncompilable
    <3>1. proc' = Exited("1")
      BY <1>2, <2>2, Zenon DEF ReadProgram
    <3> QED BY <1>1, <3>1, SoundExited
  <2>3. CASE program # Missing /\ program # Uncompilable
    <3>1. proc' = [Go("provider") EXCEPT !.config = program]
      BY <1>2, <2>3, Zenon DEF ReadProgram
    <3>2. program \in Programs
      BY DEF TypeInv
    <3> QED BY ZenonT(60), <1>1, <1>2, <3>1, <3>2
        DEF Sound, Processes, Labels, Go, At, ReadProgram
  <2> QED BY <2>1, <2>2, <2>3
<1>3. CASE Provider
  BY <1>1, <1>3, SoundExited, SoundGo DEF Provider, At, Labels
<1>4. CASE Configure
  BY <1>1, <1>4, SoundExited, SoundGo DEF Configure, At, Labels
<1>5. CASE Build
  BY <1>1, <1>5, SoundGo DEF Build, At, Labels
<1>6. CASE SetHandler
  <2>1. PICK installed \in BOOLEAN : proc' = [Go("bind") EXCEPT !.handled = installed]
    BY <1>6 DEF SetHandler
  <2> QED BY ZenonT(60), <1>1, <1>6, <2>1 DEF Sound, Processes, Labels, Go, At, SetHandler
<1>7. CASE Bind
  BY <1>1, <1>7, SoundExited, SoundGo DEF Bind, At, Labels
<1> QED BY <1>2, <1>3, <1>4, <1>5, <1>6, <1>7

\* The config is an agent's from when the program was read.
Agents == Programs \ {Missing, Uncompilable}
Read == proc.pc \notin {"file", "flags", "read", "exited"}

AgentInv == Read => proc.config \in Agents

LEMMA AgentShape ==
  ASSUME NEW p \in Agents
  PROVE  /\ p.specs \in Seq(SpecFiles) /\ p.handlers \in Seq(Seq(STRING))
         /\ p # Missing
BY LaunchAssumption DEF Agents

LEMMA HandlerTypes ==
  ASSUME TypeInv, AgentInv, Register \/ EndOfHandlers \/ ReadSpec \/ CompileGate
  PROVE  Sound(proc')
<1>1. /\ Sound(proc) /\ proc.handlers \in Tables /\ proc.entries \in Nat
      /\ proc.sources \in Seq(Texts)
  BY Fields DEF TypeInv, Sound, Alive
<1>2. /\ proc.config \in Agents /\ proc.config.specs \in Seq(SpecFiles)
      /\ proc.config.handlers \in Seq(Seq(STRING)) /\ proc.pc # "exited"
  BY AgentShape DEF AgentInv, Read, Register, EndOfHandlers, ReadSpec, CompileGate, At
<1>3. CASE Register
  <2> DEFINE h == proc.config.handlers[proc.entries + 1]
  <2>1. h \in Seq(STRING)
    <3>1. proc.entries + 1 \in 1..Len(proc.config.handlers)
      BY SMTT(40), <1>1, <1>2, <1>3, LenProperties DEF Register
    <3> QED BY <1>2, <3>1, ElementOfSeq
  <2> HIDE DEF h
  <2>2. CASE Len(h) = 2
    <3>1. h[1] \in Parts /\ h[2] \in Parts
      <4>1. 1 \in 1..Len(h) /\ 2 \in 1..Len(h)
        BY <2>2
      <4>2. h[1] \in STRING /\ h[2] \in STRING
        BY <2>1, <4>1, ElementOfSeq
      <4> QED BY <4>2 DEF Parts
    <3>2. Inserted(proc.handlers, h[1], h[2]) \in Tables
      BY <1>1, <3>1, InsertedMeans DEF Tables
    <3>3. proc' = [proc EXCEPT !.entries = proc.entries + 1,
                               !.handlers = Inserted(proc.handlers, h[1], h[2])]
      BY <1>1, <1>3, <2>2 DEF Register, Sound, Processes, h
    <3>4. proc.entries + 1 \in Nat
      BY <1>1
    <3> QED BY <1>1, <1>2, <3>2, <3>3, <3>4 DEF Sound, Processes
  <2>3. CASE Len(h) # 2
    <3>1. proc' = [proc EXCEPT !.entries = proc.entries + 1]
      BY <1>1, <1>3, <2>3 DEF Register, Sound, Processes, h
    <3>2. proc.entries + 1 \in Nat
      BY <1>1
    <3> QED BY <1>1, <1>2, <3>1, <3>2 DEF Sound, Processes
  <2> QED BY <2>2, <2>3
<1>4. CASE EndOfHandlers
  BY <1>1, <1>4, SoundGo DEF EndOfHandlers, At, Labels
<1>5. CASE ReadSpec
  <2> DEFINE text == specs[proc.config.specs[Len(proc.sources) + 1]]
  <2>1. text \in SpecTexts
    <3>1. Len(proc.sources) + 1 \in 1..Len(proc.config.specs)
      BY <1>1, <1>2, <1>5, LenProperties DEF ReadSpec
    <3>2. proc.config.specs[Len(proc.sources) + 1] \in SpecFiles
      BY <1>2, <3>1, ElementOfSeq
    <3> QED BY <3>2 DEF TypeInv
  <2> HIDE DEF text
  <2>2. CASE text = "missing"
    BY <1>1, <1>5, <2>2, SoundExited DEF ReadSpec, text
  <2>3. CASE text # "missing"
    <3>1. Append(proc.sources, text) \in Seq(Texts)
      BY <1>1, <2>1, <2>3, AppendProperties DEF Texts, SpecTexts
    <3>2. proc' = [proc EXCEPT !.sources = Append(proc.sources, text)]
      BY <1>1, <1>5, <2>3 DEF ReadSpec, Sound, Processes, text
    <3> QED BY <1>1, <1>2, <3>1, <3>2 DEF Sound, Processes
  <2> QED BY <2>2, <2>3
<1>6. CASE CompileGate
  <2>1. CASE "broken" \in ToSet(proc.sources)
    BY <1>1, <1>6, <2>1, SoundExited DEF CompileGate
  <2>2. CASE "broken" \notin ToSet(proc.sources)
    <3>1. proc' = [Go("build") EXCEPT !.gate = proc.sources]
      BY <1>6, <2>2 DEF CompileGate
    <3> QED BY <1>1, <1>2, <3>1 DEF Sound, Processes, Labels, Go
  <2> QED BY <2>1, <2>2
<1> QED BY <1>3, <1>4, <1>5, <1>6

LEMMA ServeTypes ==
  ASSUME TypeInv, AgentInv, Step \/ Stop \/ Finish \/ Arrive
  PROVE  Sound(proc')
<1>1. /\ Sound(proc) /\ proc.mailbox \in Seq(Parts \cup Topics)
      /\ proc.options.ticks \in Seq(TickWords)
  BY Fields DEF TypeInv, Sound, Alive
<1>2. CASE Step
  <2>1. proc' = [proc EXCEPT !.mailbox = Tail(proc.mailbox)]
    BY <1>1, <1>2 DEF Step, Sound, Processes
  <2>2. /\ Tail(proc.mailbox) \in Seq(Parts \cup Topics)
        /\ Len(Tail(proc.mailbox)) <= MaxMessages
    <3>1. proc.mailbox # <<>>
      BY <1>2 DEF Step
    <3> QED BY <1>1, <3>1, HeadTailProperties, LaunchAssumption, LenProperties DEF Sound
  <2> QED BY <1>1, <1>2, <2>1, <2>2 DEF Sound, Processes, Step, At
<1>3. CASE Stop
  BY <1>1, <1>3, SoundGo DEF Stop, At, Labels
<1>4. CASE Finish
  <2>1. PICK saved \in BOOLEAN : proc' = [Exited("0") EXCEPT !.saved = saved, !.mailbox = <<>>]
    BY <1>4 DEF Finish
  <2>2. <<>> \in Seq(Parts \cup Topics) /\ Len(<<>>) = 0
    BY EmptySeq
  <2>3. Sound(Exited("0")) /\ Exited("0").pc = "exited" /\ Exited("0").code = "0"
    BY <1>1, SoundExited, ExitedType DEF Sound
  <2>4. MaxMessages \in Nat
    BY LaunchAssumption
  <2>5. ASSUME NEW p \in Processes
        PROVE  /\ [p EXCEPT !.saved = saved, !.mailbox = <<>>] \in Processes
               /\ [p EXCEPT !.saved = saved, !.mailbox = <<>>].mailbox = <<>>
               /\ [p EXCEPT !.saved = saved, !.mailbox = <<>>].pc = p.pc
               /\ [p EXCEPT !.saved = saved, !.mailbox = <<>>].code = p.code
    BY <2>2 DEF Processes
  <2>6. /\ proc' \in Processes /\ proc'.mailbox = <<>>
        /\ proc'.pc = "exited" /\ proc'.code = "0"
    BY <2>1, <2>3, <2>5 DEF Sound
  <2> QED BY <2>2, <2>4, <2>6 DEF Sound
<1>5. CASE Arrive
  <2>1. PICK t \in Parts \cup Topics : proc' = [proc EXCEPT !.mailbox = Append(@, t)]
    <3>1. ASSUME NEW t \in ToSet(proc.options.ticks) PROVE t[1] \in Parts
      <4>1. t \in TickWords
        BY <1>1, <3>1, ElementOfSeq DEF ToSet
      <4>2. t \in Seq(Parts) /\ Len(t) > 1
        BY <4>1, PartsSeq DEF TickWords
      <4> QED BY <4>2, ElementOfSeq, LenProperties
    <3> QED BY <1>5, <3>1 DEF Arrive
  <2>2. /\ Append(proc.mailbox, t) \in Seq(Parts \cup Topics)
        /\ Len(Append(proc.mailbox, t)) = Len(proc.mailbox) + 1
    BY <1>1, AppendProperties
  <2>3. proc' = [proc EXCEPT !.mailbox = Append(proc.mailbox, t)]
    BY <2>1
  <2>4. Len(proc.mailbox) + 1 <= MaxMessages /\ proc.pc # "exited"
    BY <1>1, <1>5, LaunchAssumption, LenProperties DEF Arrive, Ticking, Listening
  <2> QED BY <1>1, <2>2, <2>3, <2>4 DEF Sound, Processes
<1> QED BY <1>2, <1>3, <1>4, <1>5

LEMMA WorldTypes ==
  ASSUME TypeInv, Signal \/ PostShutdown \/ Kill \/ Restart
  PROVE  Sound(proc')
<1>1. Sound(proc) /\ Known
  BY LaunchAssumption DEF TypeInv, Sound, Alive, Known
<1>2. CASE Signal \/ PostShutdown
  BY ZenonT(60), <1>1, <1>2 DEF Sound, Processes, Signal, PostShutdown
<1>3. CASE Kill
  BY <1>1, <1>3, SoundExited DEF Kill, Change
<1>4. CASE Restart
  BY <1>1, <1>4, SoundFresh DEF Restart
<1> QED BY <1>2, <1>3, <1>4

LEMMA TypeStep == TypeInv /\ AgentInv /\ [Next]_vars => TypeInv'
<1> SUFFICES ASSUME TypeInv, AgentInv, [Next]_vars PROVE TypeInv'
  OBVIOUS
<1>1. Sound(proc)
  BY DEF TypeInv, Sound, Alive
<1>2. Sound(proc')
  <2>1. CASE UNCHANGED vars \/ Deploy
    BY <1>1, <2>1 DEF vars, Deploy
  <2> QED BY ZenonT(40), <2>1, ParseTypes, SetupTypes, HandlerTypes, ServeTypes, WorldTypes
      DEF Next, Main
<1>3. /\ command' = command /\ environment' = environment
      /\ program' \in Programs /\ specs' \in [SpecFiles -> SpecTexts] /\ busy' \in BOOLEAN
      /\ changes' \in 0..MaxChanges
  <2>1. CASE UNCHANGED <<fixed, world, changes>>
    BY <2>1 DEF TypeInv, fixed, world
  <2>2. ASSUME changes < MaxChanges, changes' = changes + 1 PROVE changes' \in 0..MaxChanges
    <3>1. MaxChanges \in Nat
      BY LaunchAssumption
    <3> QED BY <2>2, <3>1 DEF TypeInv
  <2>3. CASE Kill
    BY <2>2, <2>3 DEF TypeInv, fixed, world, Kill, Change
  <2>4. CASE Deploy
    BY <2>2, <2>4 DEF TypeInv, fixed, Deploy, Change
  <2> QED BY ZenonT(40), <2>1, <2>3, <2>4
      DEF Next, Main, vars, fixed, world, TakeFile, TakeFlag, EndOfFlags, ReadProgram,
        Provider, Configure, Register, EndOfHandlers, ReadSpec, CompileGate, Build,
        SetHandler, Bind, Step, Stop, Finish, Arrive, Signal, PostShutdown, Restart
<1> QED BY <1>2, <1>3 DEF TypeInv, Sound, Alive

-----------------------------------------------------------------------------
(* What each step of the process leaves alone.                             *)

SameOptions == proc'.options = proc.options
SameConfig == proc'.config = proc.config
SameBorn == proc'.born = proc.born
SameHandlers == proc'.entries = proc.entries /\ proc'.handlers = proc.handlers
SameSources == proc'.sources = proc.sources
SameGate == proc'.gate = proc.gate
SameTold == proc'.told = proc.told /\ proc'.flag = proc.flag

Frame ==
  /\ TakeFlag \/ Restart \/ SameOptions
  /\ ReadProgram \/ Restart \/ SameConfig
  /\ Restart \/ SameBorn
  /\ Register \/ Restart \/ SameHandlers
  /\ ReadSpec \/ Restart \/ SameSources
  /\ CompileGate \/ Restart \/ SameGate
  /\ Signal \/ PostShutdown \/ Restart \/ SameTold
  /\ TakeFile \/ TakeFlag \/ Restart \/ proc'.words = proc.words

\* Where it goes from where, if it does not stay or exit.
Flow ==
  \/ proc'.pc = proc.pc
  \/ proc'.pc = "exited"
  \/ TakeFile /\ proc'.pc = "flags"
  \/ EndOfFlags /\ proc'.pc = "read"
  \/ ReadProgram /\ proc'.pc = "provider"
  \/ Provider /\ proc'.pc = "config"
  \/ Configure /\ proc'.pc = "handlers"
  \/ EndOfHandlers /\ proc'.pc = "specs"
  \/ CompileGate /\ proc'.pc = "build"
  \/ Build /\ proc'.pc = "signals"
  \/ SetHandler /\ proc'.pc = "bind"
  \/ Bind /\ proc'.pc = "loop"
  \/ Stop /\ proc'.pc = "close"
  \/ Restart /\ proc.pc = "exited" /\ proc' = Fresh

SameAll ==
  /\ SameOptions /\ SameConfig /\ SameBorn /\ SameHandlers /\ SameSources /\ SameGate
  /\ SameTold /\ proc'.words = proc.words

LEMMA GoSame ==
  ASSUME proc \in Processes, NEW label, proc' = Go(label)
  PROVE  SameAll /\ proc'.pc = label
BY DEF SameAll, SameOptions, SameConfig, SameBorn, SameHandlers, SameSources, SameGate,
       SameTold, Go, Processes

LEMMA ExitedSame ==
  ASSUME proc \in Processes, NEW code, proc' = Exited(code)
  PROVE  SameAll /\ proc'.pc = "exited" /\ proc'.code = code
BY DEF SameAll, SameOptions, SameConfig, SameBorn, SameHandlers, SameSources, SameGate,
       SameTold, Exited, Processes

Fine ==
  /\ Len(Head(proc.words)) = 1 /\ Len(proc.words) > 1
  /\ Accepts(Head(proc.words)[1], proc.words[2])

\* A flag that is taken.
LEMMA TakenFlag ==
  ASSUME proc \in Processes, TakeFlag, Fine
  PROVE  /\ proc'.pc = "flags"
         /\ proc'.options = Assign(proc.options, Head(proc.words)[1], proc.words[2])
         /\ proc'.words = SubSeq(proc.words, 3, Len(proc.words))
         /\ SameConfig /\ SameBorn /\ SameHandlers /\ SameSources /\ SameGate
         /\ SameTold
<1>1. proc' = [proc EXCEPT !.options = Assign(proc.options, Head(proc.words)[1], proc.words[2]),
                           !.words = SubSeq(proc.words, 3, Len(proc.words))]
  BY DEF TakeFlag, Fine, Processes
<1>2. proc.pc = "flags"
  BY DEF TakeFlag, At
<1> QED BY <1>1, <1>2 DEF Processes, SameConfig, SameBorn, SameHandlers, SameSources,
             SameGate, SameTold

LEMMA TakenFile ==
  ASSUME proc \in Processes, TakeFile, proc.words # <<>>
  PROVE  /\ proc'.pc = "flags" /\ proc'.words = Tail(proc.words)
         /\ SameOptions /\ SameConfig /\ SameBorn /\ SameHandlers /\ SameSources /\ SameGate
         /\ SameTold
<1>1. proc' = [[proc EXCEPT !.pc = "flags"] EXCEPT !.words = Tail(proc.words)]
  BY DEF TakeFile, Go, Processes
<1> QED BY <1>1 DEF Processes, SameOptions, SameConfig, SameBorn, SameHandlers, SameSources,
             SameGate, SameTold

\* Steps that only go on, or exit.
Plain == EndOfFlags \/ Provider \/ Configure \/ EndOfHandlers \/ Build \/ Bind \/ Stop

LEMMA PlainSame ==
  ASSUME proc \in Processes, Plain
  PROVE  SameAll /\ Flow
<1>1. CASE EndOfFlags
  BY <1>1, GoSame, ExitedSame DEF EndOfFlags, Flow
<1>2. CASE Configure
  BY <1>2, GoSame, ExitedSame DEF Configure, Flow
<1>3. CASE EndOfHandlers
  BY <1>3, GoSame DEF EndOfHandlers, Flow
<1>4. CASE Build
  BY <1>4, GoSame DEF Build, Flow
<1>5. CASE Bind
  BY <1>5, GoSame, ExitedSame DEF Bind, Flow
<1>6. CASE Stop
  BY <1>6, GoSame DEF Stop, Flow
<1>7. CASE Provider
  BY <1>7, GoSame, ExitedSame DEF Provider, Flow
<1> QED BY <1>1, <1>2, <1>3, <1>4, <1>5, <1>6, <1>7 DEF Plain

LEMMA ReadEffect ==
  ASSUME proc \in Processes, ReadProgram
  PROVE  \/ proc'.pc = "exited" /\ SameAll
         \/ /\ proc'.pc = "provider" /\ proc'.config = program
            /\ program \notin {Missing, Uncompilable}
            /\ SameOptions /\ SameBorn /\ SameHandlers /\ SameSources /\ SameGate
            /\ SameTold /\ proc'.words = proc.words
<1>1. CASE program = Missing
  <2>1. program # Uncompilable
    <3>1. Missing.kind # Uncompilable.kind
      BY DEF Missing, Uncompilable
    <3> QED BY <1>1, <3>1
  <2>2. proc' = Exited("2")
    BY <1>1, <2>1, Zenon DEF ReadProgram
  <2> QED BY <2>2, ExitedSame
<1>2. CASE program # Missing /\ program = Uncompilable
  <2>1. proc' = Exited("1")
    BY <1>2, Zenon DEF ReadProgram
  <2> QED BY <2>1, ExitedSame
<1>3. CASE program # Missing /\ program # Uncompilable
  <2>1. proc' = [Go("provider") EXCEPT !.config = program]
    BY <1>3, Zenon DEF ReadProgram
  <2>2. /\ proc'.pc = "provider" /\ proc'.config = program
        /\ SameOptions /\ SameBorn /\ SameHandlers /\ SameSources /\ SameGate
        /\ SameTold /\ proc'.words = proc.words
    BY <2>1 DEF Go, Processes, SameOptions, SameBorn, SameHandlers, SameSources, SameGate,
         SameTold
  <2> QED BY <1>3, <2>2
<1> QED BY <1>1, <1>2, <1>3

LEMMA RegisterEffect ==
  ASSUME proc \in Processes, Register
  PROVE  LET h == proc.config.handlers[proc.entries + 1]
         IN  /\ proc'.pc = "handlers" /\ proc'.entries = proc.entries + 1
             /\ proc'.handlers = IF Len(h) = 2 THEN Inserted(proc.handlers, h[1], h[2])
                                 ELSE proc.handlers
             /\ SameOptions /\ SameConfig /\ SameBorn /\ SameSources /\ SameGate
             /\ SameTold /\ proc'.words = proc.words
<1> DEFINE h == proc.config.handlers[proc.entries + 1]
<1>1. proc.pc = "handlers"
  BY DEF Register, At
<1>2. proc' = IF Len(h) = 2
              THEN [proc EXCEPT !.entries = proc.entries + 1,
                                !.handlers = Inserted(proc.handlers, h[1], h[2])]
              ELSE [proc EXCEPT !.entries = proc.entries + 1]
  BY DEF Register, Processes
<1> HIDE DEF h
<1>3. /\ proc'.pc = "handlers" /\ proc'.entries = proc.entries + 1
      /\ proc'.handlers = IF Len(h) = 2 THEN Inserted(proc.handlers, h[1], h[2])
                          ELSE proc.handlers
      /\ SameOptions /\ SameConfig /\ SameBorn /\ SameSources /\ SameGate
      /\ SameTold /\ proc'.words = proc.words
  BY <1>1, <1>2 DEF Processes, SameOptions, SameConfig, SameBorn, SameSources, SameGate,
       SameTold
<1> QED BY <1>3 DEF h

LEMMA ReadSpecEffect ==
  ASSUME proc \in Processes, ReadSpec
  PROVE  LET text == specs[proc.config.specs[Len(proc.sources) + 1]]
         IN  \/ text = "missing" /\ proc'.pc = "exited" /\ proc'.code = "2" /\ SameAll
             \/ /\ text # "missing" /\ proc'.pc = "specs"
                /\ proc'.sources = Append(proc.sources, text)
                /\ SameOptions /\ SameConfig /\ SameBorn /\ SameHandlers /\ SameGate
                /\ SameTold /\ proc'.words = proc.words
<1> DEFINE text == specs[proc.config.specs[Len(proc.sources) + 1]]
<1>1. CASE text = "missing"
  BY <1>1, ExitedSame DEF ReadSpec
<1>2. CASE text # "missing"
  <2>1. proc.pc = "specs"
    BY DEF ReadSpec, At
  <2>2. proc' = [proc EXCEPT !.sources = Append(proc.sources, text)]
    BY <1>2 DEF ReadSpec, Processes
  <2> HIDE DEF text
  <2>3. /\ proc'.pc = "specs" /\ proc'.sources = Append(proc.sources, text)
        /\ SameOptions /\ SameConfig /\ SameBorn /\ SameHandlers /\ SameGate
        /\ SameTold /\ proc'.words = proc.words
    BY <2>1, <2>2 DEF Processes, SameOptions, SameConfig, SameBorn, SameHandlers, SameGate,
         SameTold
  <2> QED BY <1>2, <2>3 DEF text
<1> QED BY <1>1, <1>2

LEMMA CompileEffect ==
  ASSUME proc \in Processes, CompileGate
  PROVE  \/ proc'.pc = "exited" /\ proc'.code = "1" /\ SameAll
         \/ /\ proc'.pc = "build" /\ proc'.gate = proc.sources
            /\ "broken" \notin ToSet(proc.sources)
            /\ SameOptions /\ SameConfig /\ SameBorn /\ SameHandlers /\ SameSources
            /\ SameTold /\ proc'.words = proc.words
<1>1. CASE "broken" \in ToSet(proc.sources)
  BY <1>1, ExitedSame DEF CompileGate
<1>2. CASE "broken" \notin ToSet(proc.sources)
  <2>1. proc' = [Go("build") EXCEPT !.gate = proc.sources]
    BY <1>2 DEF CompileGate
  <2>2. /\ proc'.pc = "build" /\ proc'.gate = proc.sources
        /\ SameOptions /\ SameConfig /\ SameBorn /\ SameHandlers /\ SameSources
        /\ SameTold /\ proc'.words = proc.words
    BY <2>1 DEF Go, Processes, SameOptions, SameConfig, SameBorn, SameHandlers, SameSources,
         SameTold
  <2> QED BY <1>2, <2>2
<1> QED BY <1>1, <1>2

LEMMA StepEffect ==
  ASSUME proc \in Processes, Step
  PROVE  proc.pc = "loop" /\ proc'.pc = "loop" /\ SameAll
<1>1. proc' = [proc EXCEPT !.mailbox = Tail(proc.mailbox)] /\ proc.pc = "loop"
  BY DEF Step, At, Processes
<1> QED BY <1>1 DEF Processes, SameAll, SameOptions, SameConfig, SameBorn, SameHandlers,
             SameSources, SameGate, SameTold

LEMMA FinishEffect ==
  ASSUME proc \in Processes, Finish
  PROVE  proc.pc = "close" /\ proc'.pc = "exited" /\ proc'.code = "0" /\ SameAll
<1>1. PICK saved : proc' = [Exited("0") EXCEPT !.saved = saved, !.mailbox = <<>>]
  BY DEF Finish
<1>2. proc' = [proc EXCEPT !.pc = "exited", !.code = "0", !.saved = saved, !.mailbox = <<>>]
  BY <1>1 DEF Exited, Processes
<1>3. proc'.pc = "exited" /\ proc'.code = "0" /\ SameAll
  BY <1>2 DEF Processes, SameAll, SameOptions, SameConfig, SameBorn, SameHandlers,
       SameSources, SameGate, SameTold
<1> QED BY <1>3 DEF Finish, At

\* Steps that come from outside, or that only note something.
Noted == SetHandler \/ Arrive \/ Kill \/ Deploy

LEMMA NotedSame ==
  ASSUME proc \in Processes, Noted
  PROVE  SameAll /\ Flow
<1>1. CASE SetHandler
  <2>1. PICK installed : proc' = [Go("bind") EXCEPT !.handled = installed]
    BY <1>1 DEF SetHandler
  <2>2. proc' = [proc EXCEPT !.pc = "bind", !.handled = installed]
    BY <2>1 DEF Go, Processes
  <2>3. proc'.pc = "bind" /\ SameAll
    BY <2>2 DEF Processes, SameAll, SameOptions, SameConfig, SameBorn, SameHandlers,
         SameSources, SameGate, SameTold
  <2> QED BY <1>1, <2>3 DEF Flow
<1>2. CASE Arrive
  <2>1. PICK box : proc' = [proc EXCEPT !.mailbox = box]
    BY <1>2 DEF Arrive, Processes
  <2>2. proc'.pc = proc.pc /\ SameAll
    BY <2>1 DEF Processes, SameAll, SameOptions, SameConfig, SameBorn, SameHandlers,
         SameSources, SameGate, SameTold
  <2> QED BY <2>2 DEF Flow
<1>3. CASE Kill
  BY <1>3, ExitedSame DEF Kill, Change, Flow
<1>4. CASE Deploy
  <2>1. proc' = proc
    BY <1>4 DEF Deploy
  <2> QED BY <2>1 DEF Flow, SameAll, SameOptions, SameConfig, SameBorn, SameHandlers,
            SameSources, SameGate, SameTold
<1> QED BY <1>1, <1>2, <1>3, <1>4 DEF Noted

LEMMA ToldEffect ==
  ASSUME proc \in Processes, Signal \/ PostShutdown
  PROVE  /\ proc'.told = TRUE /\ proc'.flag = TRUE /\ proc'.pc = proc.pc
         /\ SameOptions /\ SameConfig /\ SameBorn /\ SameHandlers /\ SameSources /\ SameGate
         /\ proc'.words = proc.words
<1>1. proc' = [proc EXCEPT !.flag = TRUE, !.told = TRUE]
  BY DEF Signal, PostShutdown
<1> QED BY <1>1 DEF Processes, SameOptions, SameConfig, SameBorn, SameHandlers, SameSources,
             SameGate

LEMMA FlagEffect ==
  ASSUME proc \in Processes, TakeFlag, ~Fine
  PROVE  proc'.pc = "exited" /\ proc'.code = "2" /\ SameAll
<1>1. proc' = Exited("2")
  BY DEF TakeFlag, Fine
<1> QED BY <1>1, ExitedSame

LEMMA FileEffect ==
  ASSUME proc \in Processes, TakeFile, proc.words = <<>>
  PROVE  proc'.pc = "exited" /\ proc'.code = "2" /\ SameAll
<1>1. proc' = Exited("2")
  BY DEF TakeFile
<1> QED BY <1>1, ExitedSame

LEMMA RestartEffect ==
  ASSUME Restart
  PROVE  proc' = Fresh /\ proc.pc = "exited"
BY DEF Restart, Alive

LEMMA Frames ==
  ASSUME TypeInv, AgentInv, [Next]_vars
  PROVE  Frame /\ Flow
<1>1. proc \in Processes
  BY DEF TypeInv
<1>2. CASE UNCHANGED vars
  BY <1>2 DEF vars, Frame, Flow, SameOptions, SameConfig, SameBorn, SameHandlers,
    SameSources, SameGate, SameTold
<1>3. CASE Restart
  BY <1>3, RestartEffect DEF Frame, Flow
<1>4. CASE Plain \/ Noted
  BY <1>1, <1>4, PlainSame, NotedSame DEF Frame, SameAll
<1>5. CASE TakeFile
  BY <1>1, <1>5, TakenFile, FileEffect DEF Frame, Flow, SameAll
<1>6. CASE TakeFlag
  <2>1. proc.pc = "flags"
    BY <1>6 DEF TakeFlag, At
  <2> QED BY <1>1, <1>6, <2>1, TakenFlag, FlagEffect DEF Frame, Flow, SameAll
<1>7. CASE ReadProgram
  BY <1>1, <1>7, ReadEffect DEF Frame, Flow, SameAll
<1>9. CASE Register
  <2>1. proc.pc = "handlers"
    BY <1>9 DEF Register, At
  <2> QED BY <1>1, <1>9, <2>1, RegisterEffect DEF Frame, Flow
<1>10. CASE ReadSpec
  <2>1. proc.pc = "specs"
    BY <1>10 DEF ReadSpec, At
  <2> QED BY <1>1, <1>10, <2>1, ReadSpecEffect DEF Frame, Flow, SameAll
<1>11. CASE CompileGate
  BY <1>1, <1>11, CompileEffect DEF Frame, Flow, SameAll
<1>12. CASE Step
  BY <1>1, <1>12, StepEffect DEF Frame, Flow, SameAll
<1>13. CASE Finish
  BY <1>1, <1>13, FinishEffect DEF Frame, Flow, SameAll
<1>14. CASE Signal \/ PostShutdown
  BY <1>1, <1>14, ToldEffect DEF Frame, Flow
<1> QED BY <1>2, <1>3, <1>4, <1>5, <1>6, <1>7, <1>9, <1>10, <1>11, <1>12, <1>13, <1>14
     DEF Next, Main, Plain, Noted

-----------------------------------------------------------------------------
(* The flags.  What has been read of the command line are its first Place   *)
(* words, and the options are those the flags among them ask for.          *)

Place == Len(command) - Len(proc.words)
Before(flag, n) == {i \in GivenAt(flag) : i <= n}
Called(name, n) == {i \in NamedAt(name) : i <= n}

Singles(n) ==
  \A f \in Single :
    IF Before(f, n) = {} THEN Option(f) = Defaults.single[f]
    ELSE Option(f) = LastOf(Before(f, n)) /\ Option(f) \in Words /\ Accepts(f, Option(f))
Peers(n) ==
  /\ DOMAIN proc.options.peers = {command[i + 1][1] : i \in Before("--peer", n)}
  /\ \A m \in DOMAIN proc.options.peers : proc.options.peers[m] = Tail(LastOf(Called(m, n)))
Ticks(n) == Len(proc.options.ticks) = Cardinality(Before("--tick", n))

Parsed(n) == Singles(n) /\ Peers(n) /\ Ticks(n)

FormedTo(n) ==
  \A i \in 2..n :
    i % 2 = 0 => Len(command[i]) = 1 /\ Accepts(command[i][1], command[i + 1])

ParseInv ==
  /\ At("file") => proc.words = command /\ proc.options = Defaults
  /\ At("flags") =>
       /\ Place \in 1..Len(command) /\ Place % 2 = 1
       /\ \A i \in 1..Len(proc.words) : proc.words[i] = command[Place + i]
       /\ Parsed(Place) /\ FormedTo(Place)
  /\ proc.pc \notin {"file", "flags", "exited"} => WellFormed /\ Parsed(Len(command))

\* Max of a set with a new largest element.
LEMMA NewMax ==
  ASSUME NEW S \in SUBSET Nat, NEW n \in Nat, \A s \in S : s <= n
  PROVE  Max(S \cup {n + 1}) = n + 1
<1> DEFINE T == S \cup {n + 1}
<1>1. \A y \in T : y \in Nat /\ n + 1 >= y
  OBVIOUS
<1>2. \E x \in T : \A y \in T : x >= y
  BY <1>1
<1>3. Max(T) \in T /\ \A y \in T : Max(T) >= y
  BY <1>2 DEF Max
<1>4. Max(T) >= n + 1 /\ n + 1 >= Max(T) /\ Max(T) \in Nat
  BY <1>1, <1>3
<1> QED BY <1>4

LEMMA CountMore ==
  ASSUME NEW S, IsFiniteSet(S), NEW x, x \notin S
  PROVE  Cardinality(S \cup {x}) = Cardinality(S) + 1
BY FS_AddElement

LEMMA OneLetter ==
  ASSUME NEW w \in Words, Len(w) = 1
  PROVE  w = <<w[1]>>
<1>1. w \in Seq(Parts)
  BY PartsSeq
<1>2. w = [i \in 1..1 |-> w[i]]
  BY <1>1, LenProperties
<1> QED BY <1>2

LEMMA EvenNext ==
  ASSUME NEW n \in Nat, NEW i \in Nat, n % 2 = 1, i % 2 = 0, n < i, i <= n + 2
  PROVE  i = n + 1
BY SMT

\* The places of a flag among two words more.
LEMMA OneMore ==
  ASSUME Known, NEW n \in Nat, n % 2 = 1, n + 2 <= Len(command), Len(command[n + 1]) = 1
  PROVE  LET flag == command[n + 1][1]
         IN  /\ \A f : f # flag => Before(f, n + 2) = Before(f, n)
             /\ Before(flag, n + 2) = Before(flag, n) \cup {n + 1}
             /\ n + 1 \notin Before(flag, n)
<1> DEFINE flag == command[n + 1][1]
<1>1. command \in Seq(Words) /\ Len(command) \in Nat
  BY WordSorts, LenProperties
<1>2. command[n + 1] = <<flag>>
  <2>1. command[n + 1] \in Words
    BY <1>1, ElementOfSeq
  <2> QED BY <2>1, OneLetter
<1>3. ASSUME NEW f PROVE \A i \in GivenAt(f) : i <= n + 2 => i <= n \/ i = n + 1
  <2> SUFFICES ASSUME NEW i \in GivenAt(f), i <= n + 2, ~(i <= n) PROVE i = n + 1
    OBVIOUS
  <2>1. i \in Nat /\ i % 2 = 0 /\ n < i
    BY <1>1 DEF GivenAt
  <2> QED BY <2>1, EvenNext
<1>4. (n + 1) % 2 = 0 /\ n + 1 \in 2..Len(command)
  BY <1>1
<1>5. ASSUME NEW f PROVE GivenAt(f) \subseteq Nat
  BY <1>1 DEF GivenAt
<1>6. n + 1 \in GivenAt(flag)
  BY <1>2, <1>4 DEF GivenAt
<1>7. ASSUME NEW f, f # flag PROVE n + 1 \notin GivenAt(f)
  BY <1>2, <1>7 DEF GivenAt
<1>8. ASSUME NEW f, f # flag PROVE Before(f, n + 2) = Before(f, n)
  BY <1>3, <1>5, <1>7, <1>8 DEF Before
<1>9. Before(flag, n + 2) = Before(flag, n) \cup {n + 1}
  BY <1>3, <1>5, <1>6 DEF Before
<1>10. n + 1 \notin Before(flag, n)
  BY DEF Before
<1> QED BY <1>8, <1>9, <1>10

LEMMA BeforeShape ==
  ASSUME Known, NEW f, NEW n \in Nat
  PROVE  /\ Before(f, n) \in SUBSET Nat /\ IsFiniteSet(Before(f, n))
         /\ \A i \in Before(f, n) : i <= n
         /\ Before(f, Len(command)) = GivenAt(f)
<1>1. Len(command) \in Nat
  BY WordSorts, LenProperties
<1>2. GivenAt(f) \subseteq 1..Len(command) /\ Before(f, n) \subseteq 1..Len(command)
  BY <1>1 DEF GivenAt, Before
<1>3. IsFiniteSet(Before(f, n))
  <2>1. IsFiniteSet(1..Len(command))
    BY <1>1, FS_Interval
  <2> QED BY <1>2, <2>1, FS_Subset
<1>4. Before(f, Len(command)) = GivenAt(f)
  BY <1>1, <1>2 DEF Before
<1> QED BY <1>1, <1>2, <1>3, <1>4 DEF Before

\* A flag more, with its value, is one more of the flags the options follow.
LEMMA ParsedMore ==
  ASSUME Known, proc \in Processes, UNCHANGED fixed,
         NEW n \in Nat, n % 2 = 1, n + 2 <= Len(command), Len(command[n + 1]) = 1,
         NEW flag, flag = command[n + 1][1], NEW value, value = command[n + 2],
         Accepts(flag, value), proc'.options = Assign(proc.options, flag, value),
         Parsed(n), FormedTo(n)
  PROVE  Parsed(n + 2)' /\ FormedTo(n + 2)'
<1> DEFINE P == Before("--peer", n)
<1>1. command \in Seq(Words) /\ Len(command) \in Nat /\ value \in Words
  <2>1. command \in Seq(Words) /\ Len(command) \in Nat
    BY WordSorts, LenProperties
  <2> QED BY <2>1, ElementOfSeq
<1>2. /\ \A f : f # flag => Before(f, n + 2) = Before(f, n)
      /\ Before(flag, n + 2) = Before(flag, n) \cup {n + 1}
      /\ n + 1 \notin Before(flag, n)
  BY OneMore
<1>3. command' = command /\ environment' = environment
  BY DEF fixed
<1>4. /\ \A f, m : Before(f, m)' = Before(f, m)
      /\ \A f : Defaults'.single[f] = Defaults.single[f]
      /\ \A S : LastOf(S)' = LastOf(S)
      /\ \A m : Called(m, n + 2)' = Called(m, n + 2)
  BY <1>3 DEF Before, GivenAt, Defaults, LastOf, Called, NamedAt
<1>5. proc.options \in Settings /\ proc'.options \in Settings
  BY <1>1, AssignMeans, Fields
<1>6. LastOf(Before(flag, n + 2)) = value
  <2>1. Max(Before(flag, n) \cup {n + 1}) = n + 1
    BY BeforeShape, NewMax
  <2>2. n + 1 + 1 = n + 2
    OBVIOUS
  <2> QED BY <1>2, <2>1, <2>2 DEF LastOf
<1>7. \/ /\ flag \in Single /\ proc'.options = [proc.options EXCEPT !.single[flag] = value]
      \/ /\ flag = "--peer" /\ value[1] \in Parts /\ Tail(value) \in Seq(Parts)
         /\ proc'.options = [proc.options EXCEPT
              !.peers = Inserted(proc.options.peers, value[1], Tail(value))]
      \/ /\ flag = "--tick"
         /\ proc'.options = [proc.options EXCEPT !.ticks = Append(proc.options.ticks, value)]
  <2>1. Follows(proc'.options, proc.options, flag, value)
    BY <1>1, <1>5, AssignMeans
  <2> QED BY <2>1 DEF Follows
<1>8. "--peer" \notin Single /\ "--tick" \notin Single
  BY DEF Single, Checked
<1>9. Singles(n + 2)'
  <2> SUFFICES ASSUME NEW f \in Single
               PROVE  IF Before(f, n + 2) = {} THEN Option(f)' = Defaults.single[f]
                      ELSE /\ Option(f)' = LastOf(Before(f, n + 2))
                           /\ Option(f)' \in Words /\ Accepts(f, Option(f)')
    BY <1>4 DEF Singles, Accepts
  <2>1. CASE f = flag
    <3>1. Option(f)' = value
      BY <1>5, <1>7, <1>8, <2>1 DEF Option, Settings
    <3> QED BY <1>1, <1>2, <1>6, <2>1, <3>1
  <2>2. CASE f # flag
    <3>1. Option(f)' = Option(f)
      BY ZenonT(60), <1>5, <1>7, <1>8, <2>2 DEF Option, Settings
    <3> QED BY <1>2, <2>2, <3>1 DEF Parsed, Singles
  <2> QED BY <2>1, <2>2
<1>10. Ticks(n + 2)'
  <2>1. CASE flag = "--tick"
    <3>1. proc'.options.ticks = Append(proc.options.ticks, value)
      BY SMTT(40), <1>5, <1>7, <1>8, <2>1 DEF Settings
    <3>2. Len(proc'.options.ticks) = Len(proc.options.ticks) + 1
      BY <1>5, <3>1, AppendProperties DEF Settings, TickWords
    <3>3. Cardinality(Before(flag, n) \cup {n + 1}) = Cardinality(Before(flag, n)) + 1
      <4>1. IsFiniteSet(Before(flag, n)) /\ n + 1 \notin Before(flag, n)
        BY <1>2, BeforeShape
      <4> QED BY <4>1, CountMore
    <3> QED BY <1>2, <1>4, <2>1, <3>2, <3>3 DEF Parsed, Ticks
  <2>2. CASE flag # "--tick"
    <3>1. proc'.options.ticks = proc.options.ticks
      BY <1>5, <1>7, <2>2 DEF Settings
    <3> QED BY <1>2, <1>4, <2>2, <3>1 DEF Parsed, Ticks
  <2> QED BY <2>1, <2>2
<1>11. Peers(n + 2)'
  <2>1. CASE flag # "--peer"
    <3>1. proc'.options.peers = proc.options.peers
      BY <1>5, <1>7, <2>1 DEF Settings
    <3>2. Before("--peer", n + 2) = P
      BY <1>2, <2>1
    <3>3. \A m : Called(m, n + 2) = Called(m, n)
      BY <3>2 DEF Called, NamedAt, Before
    <3> QED BY <1>3, <1>4, <3>1, <3>2, <3>3 DEF Parsed, Peers
  <2>2. CASE flag = "--peer"
    <3> DEFINE old == proc.options.peers  new == proc'.options.peers
    <3>1. /\ new = Inserted(old, value[1], Tail(value))
      BY <1>5, <1>7, <1>8, <2>2 DEF Settings
    <3>2. /\ DOMAIN new = DOMAIN old \cup {value[1]} /\ new[value[1]] = Tail(value)
          /\ \A m \in DOMAIN old : m # value[1] => new[m] = old[m]
      <4>1. new = [k \in DOMAIN old \cup {value[1]} |-> IF k = value[1] THEN Tail(value)
                                                        ELSE old[k]]
        BY <3>1 DEF Inserted
      <4> HIDE DEF old, new
      <4> QED BY <4>1
    <3>3. Before("--peer", n + 2) = P \cup {n + 1}
      BY <1>2, <2>2
    <3>4. /\ DOMAIN old = {command[i + 1][1] : i \in P}
          /\ \A m \in DOMAIN old : old[m] = Tail(LastOf(Called(m, n)))
      BY DEF Parsed, Peers
    <3>5. command[n + 1 + 1] = value
      OBVIOUS
    <3>6. DOMAIN new = {command[i + 1][1] : i \in P \cup {n + 1}}
      <4>1. {command[i + 1][1] : i \in P \cup {n + 1}}
              = {command[i + 1][1] : i \in P} \cup {command[n + 1 + 1][1]}
        BY Zenon
      <4> QED BY <3>2, <3>4, <3>5, <4>1
    <3>7. \A m : Called(m, n + 2) = {i \in P \cup {n + 1} : command[i + 1][1] = m}
      BY <3>3 DEF Called, NamedAt, Before
    <3>8. \A m : Called(m, n) = {i \in P : command[i + 1][1] = m}
      BY SMTT(40) DEF Called, NamedAt, Before
    <3>9. ASSUME NEW m \in DOMAIN new PROVE new[m] = Tail(LastOf(Called(m, n + 2)))
      <4>1. CASE m = value[1]
        <5>1. Called(m, n + 2) = Called(m, n) \cup {n + 1}
          BY <3>5, <3>7, <3>8, <4>1
        <5>2. Called(m, n) \in SUBSET Nat /\ \A i \in Called(m, n) : i <= n
          BY <3>8, BeforeShape
        <5>3. LastOf(Called(m, n + 2)) = value
          <6>1. Max(Called(m, n) \cup {n + 1}) = n + 1
            BY <5>2, NewMax
          <6> QED BY <3>5, <5>1, <6>1 DEF LastOf
        <5> QED BY <3>2, <4>1, <5>3
      <4>2. CASE m # value[1]
        <5>1. Called(m, n + 2) = Called(m, n)
          <6>1. command[n + 1 + 1][1] # m
            BY <3>5, <4>2
          <6>2. {i \in P \cup {n + 1} : command[i + 1][1] = m} = {i \in P : command[i + 1][1] = m}
            BY <6>1, Zenon
          <6> QED BY <3>7, <3>8, <6>2
        <5> QED BY <3>2, <3>4, <4>2, <5>1
      <4> QED BY SMTT(40), <4>1, <4>2
    <3> QED BY <1>3, <1>4, <3>3, <3>6, <3>9 DEF Peers
  <2> QED BY <2>1, <2>2
<1>12. FormedTo(n + 2)'
  <2> SUFFICES ASSUME NEW i \in 2..(n + 2), i % 2 = 0
               PROVE  Len(command[i]) = 1 /\ Accepts(command[i][1], command[i + 1])
    BY <1>3 DEF FormedTo, Accepts
  <2>1. i <= n \/ i = n + 1
    BY EvenNext
  <2>2. CASE i <= n
    BY <2>2 DEF FormedTo
  <2>3. CASE i = n + 1
    <3>1. i + 1 = n + 2
      BY <2>3
    <3> QED BY <2>3, <3>1
  <2> QED BY <2>1, <2>2, <2>3
<1> QED BY <1>9, <1>10, <1>11, <1>12 DEF Parsed

-----------------------------------------------------------------------------
(* The agent that is set up: handlers by the entries looked at so far, the  *)
(* gate by the texts read so far, each from the disk unless that changed.   *)

Complete(list, n) == {i \in 1..n : Len(list[i]) = 2}
EntriesFor(list, n, t) == {i \in Complete(list, n) : list[i][1] = t}
Handles(table, list, n) ==
  /\ DOMAIN table = {list[i][1] : i \in Complete(list, n)}
  /\ \A t \in DOMAIN table : table[t] = list[Max(EntriesFor(list, n, t))][2]

HandledTo(n) == Handles(proc.handlers, proc.config.handlers, n)

HandlerInv ==
  /\ proc.pc \in {"file", "flags", "read", "provider", "config"} =>
       proc.entries = 0 /\ proc.handlers = <<>>
  /\ At("handlers") => proc.entries <= Len(proc.config.handlers) /\ HandledTo(proc.entries)
  /\ proc.pc \in {"specs", "build", "signals", "bind", "loop", "close"} =>
       HandledTo(Len(proc.config.handlers))

Gated == proc.pc \in {"build", "signals", "bind", "loop", "close"}

GateInv ==
  /\ proc.pc \in {"file", "flags", "read", "provider", "config", "handlers"} =>
       proc.sources = <<>>
  /\ At("specs") => Len(proc.sources) <= Len(proc.config.specs)
  /\ Gated => proc.gate \in [DOMAIN proc.config.specs -> GoodTexts]

\* What has been read is what lies on the disk, unless that changed since.
DiskInv ==
  /\ proc.born <= changes
  /\ proc.born = changes =>
       /\ Read => proc.config = program
       /\ At("specs") =>
            \A i \in 1..Len(proc.sources) : proc.sources[i] = specs[proc.config.specs[i]]
       /\ Gated =>
            proc.gate = [i \in DOMAIN proc.config.specs |-> specs[proc.config.specs[i]]]

ServeInv == proc.flag \/ At("close") => proc.told

LaunchInv ==
  TypeInv /\ AgentInv /\ ParseInv /\ HandlerInv /\ GateInv /\ DiskInv /\ ServeInv

LEMMA FreshIs ==
  /\ Fresh.pc = "file" /\ Fresh.words = command /\ Fresh.options = Defaults
  /\ Fresh.born = changes /\ Fresh.entries = 0 /\ Fresh.handlers = <<>>
  /\ Fresh.sources = <<>> /\ Fresh.flag = FALSE /\ Fresh.told = FALSE
BY DEF Fresh

Prepared == AgentInv /\ ParseInv /\ HandlerInv /\ GateInv /\ DiskInv /\ ServeInv
AtFirst == Known /\ proc = Fresh

LEMMA AgentFresh == AtFirst => Prepared
<1> SUFFICES ASSUME Known, proc = Fresh PROVE Prepared
  BY DEF AtFirst
<1>1. AgentInv
  BY FreshIs DEF AgentInv, Read
<1>2. ParseInv
  BY FreshIs DEF ParseInv, At
<1>3. HandlerInv /\ GateInv /\ ServeInv
  BY FreshIs DEF HandlerInv, GateInv, ServeInv, At, Gated
<1>4. DiskInv
  BY FreshIs DEF DiskInv, Known, Read, At, Gated
<1> QED BY <1>1, <1>2, <1>3, <1>4 DEF Prepared

LEMMA LaunchInit == Init => LaunchInv
<1>1. Init => AtFirst
  BY DEF Init, AtFirst, Known
<1> QED BY <1>1, TypeInit, AgentFresh DEF LaunchInv, Prepared

LEMMA Fixed == TypeInv /\ [Next]_vars => UNCHANGED fixed
BY ZenonT(40) DEF Next, Main, vars, fixed, world, TakeFile, TakeFlag, EndOfFlags,
   ReadProgram, Provider, Configure, Register, EndOfHandlers, ReadSpec, CompileGate,
   Build, SetHandler, Bind, Step, Stop, Finish, Arrive, Signal, PostShutdown, Restart,
   Kill, Deploy, Change

\* After a restart the process is as it was at its first start.
LEMMA AfterRestart ==
  ASSUME TypeInv, Restart, UNCHANGED fixed
  PROVE  Prepared'
<1>1. changes' = changes /\ changes \in Nat
  BY LaunchAssumption DEF Restart, TypeInv
<1>2. AtFirst'
  BY <1>1, RestartEffect DEF TypeInv, Known, fixed, Fresh, Defaults, AtFirst
<1> QED BY <1>2, AgentFresh, PTL

LEMMA FlagSteps ==
  ASSUME TypeInv, ParseInv, TakeFlag, Fine
  PROVE  LET n == Place
         IN  /\ n \in Nat /\ n % 2 = 1 /\ n + 2 <= Len(command)
             /\ command[n + 1] = Head(proc.words) /\ command[n + 2] = proc.words[2]
             /\ Len(proc'.words) = Len(proc.words) - 2
             /\ \A i \in 1..Len(proc'.words) : proc'.words[i] = proc.words[i + 2]
             /\ proc.words \in Seq(Words) /\ Len(proc.words) \in Nat
             /\ Head(proc.words) \in Words /\ proc.words[2] \in Words
<1>1. command \in Seq(Words) /\ Len(command) \in Nat /\ proc \in Processes
  BY WordSorts, LenProperties DEF TypeInv, Known
<1>2. proc.words \in Seq(Words) /\ proc.words # <<>> /\ Len(proc.words) > 1 /\ At("flags")
  BY <1>1, Fields DEF TakeFlag, Fine
<1>3. /\ Place \in 1..Len(command) /\ Place % 2 = 1
      /\ \A i \in 1..Len(proc.words) : proc.words[i] = command[Place + i]
  BY <1>2 DEF ParseInv
<1>4. /\ Head(proc.words) = proc.words[1] /\ Len(proc.words) \in Nat
      /\ Len(SubSeq(proc.words, 3, Len(proc.words))) = Len(proc.words) - 2
      /\ \A i \in 1..Len(proc.words) - 2 :
           SubSeq(proc.words, 3, Len(proc.words))[i] = proc.words[i + 2]
      /\ Head(proc.words) \in Words /\ proc.words[2] \in Words
  BY <1>2, WordsLeft
<1>5. proc'.words = SubSeq(proc.words, 3, Len(proc.words))
  BY <1>1, TakenFlag
<1>6. Place + 2 <= Len(command)
  BY <1>1, <1>2, <1>4 DEF Place
<1>7. command[Place + 1] = Head(proc.words) /\ command[Place + 2] = proc.words[2]
  BY <1>2, <1>3, <1>4
<1> QED BY <1>2, <1>3, <1>4, <1>5, <1>6, <1>7

LEMMA AgentStep == TypeInv /\ AgentInv /\ ParseInv /\ [Next]_vars => AgentInv'
<1> SUFFICES ASSUME TypeInv, AgentInv, ParseInv, [Next]_vars PROVE AgentInv'
  OBVIOUS
<1>1. proc \in Processes /\ UNCHANGED fixed
  BY Fixed DEF TypeInv
<1>2. Frame /\ Flow
  BY Frames
<1>3. CASE Restart
  BY <1>1, <1>3, AfterRestart DEF Prepared
<1>4. CASE ~Restart
  <2>1. Read' => proc'.config \in Agents
    <3>1. CASE ReadProgram
      BY <1>1, <3>1, ReadEffect DEF Read, Agents, TypeInv
    <3>2. CASE SameConfig /\ ~ReadProgram
      <4>1. Read' => Read \/ EndOfFlags \/ TakeFile
        BY <1>2, <1>4, <3>2 DEF Flow, Read, Configure, Provider, EndOfHandlers, CompileGate,
          Build, SetHandler, Bind, Stop, At
      <4>2. ~(Read' /\ (EndOfFlags \/ TakeFile) /\ ~Read)
        <5>1. CASE EndOfFlags
          BY <1>1, <5>1, GoSame, ExitedSame DEF EndOfFlags, Read
        <5>2. CASE TakeFile
          BY <1>1, <5>2, TakenFile, FileEffect DEF Read
        <5> QED BY <5>1, <5>2
      <4> QED BY <3>2, <4>1, <4>2 DEF AgentInv, SameConfig
    <3> QED BY <1>2, <1>4, <3>1, <3>2 DEF Frame
  <2> QED BY <2>1 DEF AgentInv
<1> QED BY <1>3, <1>4

\* What was parsed stays parsed while the options and the command line stay.
LEMMA ParsedSame ==
  ASSUME SameOptions, UNCHANGED fixed, NEW n, Parsed(n)
  PROVE  Parsed(n)'
<1>1. command' = command /\ environment' = environment /\ proc'.options = proc.options
  BY DEF SameOptions, fixed
<1>2. \A f : Option(f)' = Option(f) /\ Defaults'.single[f] = Defaults.single[f]
  BY <1>1 DEF Option, Defaults
<1>3. /\ \A f : Before(f, n)' = Before(f, n)
      /\ \A S : LastOf(S)' = LastOf(S)
      /\ \A m : Called(m, n)' = Called(m, n)
  BY <1>1 DEF Before, GivenAt, LastOf, Called, NamedAt
<1>4. Singles(n)'
  BY <1>2, <1>3 DEF Parsed, Singles, Accepts
<1>5. Peers(n)'
  BY <1>1, <1>3 DEF Parsed, Peers
<1>6. Ticks(n)'
  BY <1>1, <1>3 DEF Parsed, Ticks
<1> QED BY <1>4, <1>5, <1>6 DEF Parsed

LEMMA WellFormedSame == UNCHANGED fixed /\ WellFormed => WellFormed'
BY DEF fixed, WellFormed, GivenAt, LastOf, Accepts, Loopback

LEMMA ParsedNothing ==
  ASSUME Known, proc.options = Defaults
  PROVE  Parsed(1) /\ FormedTo(1)
<1>1. \A f : Before(f, 1) = {}
  BY DEF Before, GivenAt
<1>2. Singles(1)
  BY <1>1 DEF Singles, Option
<1>3. Peers(1)
  BY <1>1, DefaultOf DEF Peers
<1>4. Ticks(1)
  BY <1>1, DefaultOf, FS_EmptySet DEF Ticks
<1> QED BY <1>2, <1>3, <1>4 DEF Parsed, FormedTo

\* A command line that is read to its end, and passes, is well-formed.
LEMMA WellFormedAtEnd ==
  ASSUME Known, proc \in Processes, Len(command) % 2 = 1, Parsed(Len(command)),
         FormedTo(Len(command)), Option("--port") # NoWord,
         Loopback(Option("--bind")) \/ Option("--shutdown-token") # NoWord
  PROVE  WellFormed
<1>1. \A f : Before(f, Len(command)) = GivenAt(f)
  BY BeforeShape, WordSorts, LenProperties
<1>2. {"--port", "--bind", "--shutdown-token"} \subseteq Single
  BY DEF Single, Checked
<1>3. \A f \in Single : IF GivenAt(f) = {} THEN Option(f) = Defaults.single[f]
                        ELSE Option(f) = LastOf(GivenAt(f))
  BY <1>1 DEF Parsed, Singles
<1>4. GivenAt("--port") # {}
  BY <1>2, <1>3, DefaultOf
<1>5. \/ GivenAt("--bind") = {} \/ Loopback(LastOf(GivenAt("--bind")))
      \/ GivenAt("--shutdown-token") # {} \/ environment.token # NoWord
  BY <1>2, <1>3, DefaultOf
<1> QED BY <1>4, <1>5 DEF WellFormed, FormedTo

\* A command line that is read to its end, and does not pass, is not.
LEMMA NotWellFormedAtEnd ==
  ASSUME Known, Parsed(Len(command)),
         \/ Option("--port") = NoWord
         \/ ~Loopback(Option("--bind")) /\ Option("--shutdown-token") = NoWord
  PROVE  ~WellFormed
<1>1. \A f : Before(f, Len(command)) = GivenAt(f)
  BY BeforeShape, WordSorts, LenProperties
<1>2. {"--port", "--bind", "--shutdown-token"} \subseteq Single
  BY DEF Single, Checked
<1>3. \A f \in Single : IF GivenAt(f) = {} THEN Option(f) = Defaults.single[f]
                        ELSE Option(f) = LastOf(GivenAt(f)) /\ Option(f) # NoWord
  BY <1>1 DEF Parsed, Singles, Words
<1>4. CASE Option("--port") = NoWord
  BY <1>2, <1>3, <1>4 DEF WellFormed
<1>5. CASE ~Loopback(Option("--bind")) /\ Option("--shutdown-token") = NoWord
  <2>1. GivenAt("--shutdown-token") = {} /\ environment.token = NoWord
    BY <1>2, <1>3, <1>5, DefaultOf
  <2>2. Loopback(Defaults.single["--bind"])
    BY DefaultOf, LaunchAssumption DEF Loopback
  <2>3. GivenAt("--bind") # {} /\ ~Loopback(LastOf(GivenAt("--bind")))
    BY <1>2, <1>3, <1>5, <2>2
  <2> QED BY <2>1, <2>3 DEF WellFormed
<1> QED BY <1>4, <1>5

LEMMA ParseStep == TypeInv /\ AgentInv /\ ParseInv /\ [Next]_vars => ParseInv'
<1> SUFFICES ASSUME TypeInv, AgentInv, ParseInv, [Next]_vars PROVE ParseInv'
  OBVIOUS
<1>1. /\ proc \in Processes /\ UNCHANGED fixed /\ Known
      /\ command \in Seq(Words) /\ Len(command) \in Nat
  BY Fixed, WordSorts, LenProperties DEF TypeInv, Known
<1>2. Frame /\ Flow
  BY Frames
<1>3. CASE Restart
  BY <1>1, <1>3, AfterRestart DEF Prepared
<1>4. CASE TakeFile
  <2>1. CASE proc.words = <<>>
    BY <1>1, <1>4, <2>1, FileEffect DEF ParseInv, At
  <2>2. CASE proc.words # <<>>
    <3>1. proc'.pc = "flags" /\ proc'.words = Tail(proc.words) /\ SameOptions
      BY <1>1, <1>4, <2>2, TakenFile
    <3>2. proc.words = command /\ proc.options = Defaults
      BY <1>4 DEF ParseInv, TakeFile
    <3>3. /\ Len(command) \in Nat \ {0} /\ Len(proc'.words) = Len(command) - 1
          /\ \A i \in 1..Len(command) - 1 : proc'.words[i] = command[i + 1]
      BY <1>1, <2>2, <3>1, <3>2, WordsLeft
    <3>4. Place' = 1
      BY <1>1, <3>3 DEF Place, fixed
    <3>5. Parsed(1) /\ FormedTo(1)
      BY <1>1, <3>2, ParsedNothing
    <3>6. Parsed(1)'
      BY <1>1, <3>1, <3>5, ParsedSame
    <3>7. Parsed(Place)' /\ FormedTo(Place)'
      BY <3>4, <3>6 DEF FormedTo, Parsed, Singles, Peers, Ticks
    <3>8. command' = command
      BY <1>1 DEF fixed
    <3> QED BY <3>1, <3>3, <3>4, <3>7, <3>8 DEF ParseInv, At
  <2> QED BY <2>1, <2>2
<1>5. CASE TakeFlag
  <2>1. CASE ~Fine
    BY <1>1, <1>5, <2>1, FlagEffect DEF ParseInv, At
  <2>2. CASE Fine
    <3>0. PICK n, flag, value :
            n = Place /\ flag = Head(proc.words)[1] /\ value = proc.words[2]
      OBVIOUS
    <3>1. /\ n \in Nat /\ n % 2 = 1 /\ n + 2 <= Len(command)
          /\ command[n + 1] = Head(proc.words) /\ command[n + 2] = value
          /\ Len(proc'.words) = Len(proc.words) - 2 /\ Len(proc.words) \in Nat
          /\ \A i \in 1..Len(proc'.words) : proc'.words[i] = proc.words[i + 2]
      BY <1>5, <2>2, <3>0, FlagSteps
    <3>2. /\ proc'.pc = "flags" /\ proc'.options = Assign(proc.options, flag, value)
      BY <1>1, <1>5, <2>2, <3>0, TakenFlag
    <3>3. /\ Parsed(n) /\ FormedTo(n)
          /\ \A i \in 1..Len(proc.words) : proc.words[i] = command[n + i]
      BY <1>5, <3>0 DEF ParseInv, TakeFlag
    <3>4. command' = command
      BY <1>1 DEF fixed
    <3>5. Place' = n + 2
      BY <1>1, <3>0, <3>1, <3>4 DEF Place
    <3>6. Len(command[n + 1]) = 1 /\ flag = command[n + 1][1] /\ Accepts(flag, value)
      BY <2>2, <3>0, <3>1 DEF Fine
    <3>7. Parsed(n + 2)' /\ FormedTo(n + 2)'
      BY <1>1, <3>1, <3>2, <3>3, <3>6, ParsedMore
    <3>8. Parsed(Place)' /\ FormedTo(Place)'
      BY <3>5, <3>7 DEF FormedTo, Parsed, Singles, Peers, Ticks
    <3>9. (n + 2) % 2 = 1 /\ n + 2 \in 1..Len(command)
      BY <1>1, <3>1
    <3>10. \A i \in 1..Len(proc'.words) : proc'.words[i] = command[n + 2 + i]
      <4> SUFFICES ASSUME NEW i \in 1..Len(proc'.words)
                   PROVE  proc'.words[i] = command[n + 2 + i]
        OBVIOUS
      <4>1. i + 2 \in 1..Len(proc.words) /\ n + (i + 2) = n + 2 + i
        BY <3>1
      <4> QED BY <3>1, <3>3, <4>1
    <3> QED BY <3>2, <3>4, <3>5, <3>8, <3>9, <3>10 DEF ParseInv, At
  <2> QED BY <2>1, <2>2
<1>6. CASE EndOfFlags
  <2>1. SameAll /\ proc'.pc \in {"read", "exited"}
    BY <1>1, <1>6, GoSame, ExitedSame DEF EndOfFlags
  <2>2. CASE proc'.pc = "exited"
    BY <2>2 DEF ParseInv, At
  <2>3. CASE proc'.pc = "read"
    <3>1. /\ Option("--port") # NoWord
          /\ Loopback(Option("--bind")) \/ Option("--shutdown-token") # NoWord
      BY <1>1, <1>6, <2>3, ExitedSame DEF EndOfFlags
    <3>2. Place = Len(command)
      BY <1>1, <1>6 DEF EndOfFlags, Place
    <3>3. Len(command) % 2 = 1 /\ Parsed(Len(command)) /\ FormedTo(Len(command))
      BY <1>6, <3>2 DEF EndOfFlags, ParseInv
    <3>4. WellFormed
      BY <1>1, <3>1, <3>3, WellFormedAtEnd
    <3>5. WellFormed' /\ Parsed(Len(command))'
      <4>1. Parsed(Len(command))'
        <5>1. \A n : Parsed(n) => Parsed(n)'
          BY <1>1, <2>1, ParsedSame DEF SameAll
        <5> QED BY <1>1, <3>3, <5>1 DEF fixed, Parsed, Singles, Peers, Ticks
      <4> QED BY <1>1, <3>4, <4>1, WellFormedSame
    <3> QED BY <2>3, <3>5 DEF ParseInv, At
  <2> QED BY <2>1, <2>2, <2>3
<1>7. CASE ~(Restart \/ TakeFile \/ TakeFlag \/ EndOfFlags)
  <2>1. SameOptions /\ proc'.words = proc.words
    BY <1>2, <1>7 DEF Frame
  <2>2. \/ proc'.pc = proc.pc \/ proc'.pc = "exited"
        \/ /\ proc.pc \notin {"file", "flags", "exited"}
           /\ proc'.pc \notin {"file", "flags", "exited"}
    BY <1>2, <1>7 DEF Flow, ReadProgram, Configure, Provider, EndOfHandlers, CompileGate,
      Build, SetHandler, Bind, Stop, At
  <2>3. command' = command /\ Place' = Place /\ Defaults' = Defaults
    BY <1>1, <2>1 DEF fixed, Place, Defaults
  <2>4. \A n : Parsed(n) => Parsed(n)'
    BY <1>1, <2>1, ParsedSame
  <2>5. Parsed(Place) => Parsed(Place)'
    BY <2>3, <2>4 DEF Parsed, Singles, Peers, Ticks
  <2>6. Parsed(Len(command)) => Parsed(Len(command))'
    BY <2>3, <2>4 DEF Parsed, Singles, Peers, Ticks
  <2>7. FormedTo(Place) => FormedTo(Place)'
    BY <2>3 DEF FormedTo, Accepts
  <2>8. WellFormed => WellFormed'
    BY <1>1, WellFormedSame
  <2>9. At("file") => proc.words = command /\ proc.options = Defaults
    BY DEF ParseInv
  <2>10. At("flags") =>
           /\ Place \in 1..Len(command) /\ Place % 2 = 1
           /\ \A i \in 1..Len(proc.words) : proc.words[i] = command[Place + i]
           /\ Parsed(Place) /\ FormedTo(Place)
    BY DEF ParseInv
  <2>11. proc.pc \notin {"file", "flags", "exited"} => WellFormed /\ Parsed(Len(command))
    BY DEF ParseInv
  <2>12. (At("file") => proc.words = command /\ proc.options = Defaults)'
    BY <2>1, <2>2, <2>3, <2>9 DEF At, SameOptions
  <2>13. (At("flags") =>
           /\ Place \in 1..Len(command) /\ Place % 2 = 1
           /\ \A i \in 1..Len(proc.words) : proc.words[i] = command[Place + i]
           /\ Parsed(Place) /\ FormedTo(Place))'
    BY <2>1, <2>2, <2>3, <2>5, <2>7, <2>10 DEF At
  <2>14. (proc.pc \notin {"file", "flags", "exited"} => WellFormed /\ Parsed(Len(command)))'
    BY <2>2, <2>6, <2>8, <2>11
  <2> QED BY <2>12, <2>13, <2>14 DEF ParseInv
<1> QED BY <1>3, <1>4, <1>5, <1>6, <1>7

LEMMA HandledSame ==
  ASSUME SameHandlers, SameConfig, NEW n, HandledTo(n)
  PROVE  HandledTo(n)'
BY DEF SameHandlers, SameConfig, HandledTo

LEMMA HandledNone ==
  ASSUME proc.handlers = <<>>
  PROVE  HandledTo(0)
<1>1. DOMAIN proc.handlers = {}
  OBVIOUS
<1>2. 1..0 = {}
  OBVIOUS
<1>3. \A list : Complete(list, 0) = {}
  BY ZenonT(60), <1>2 DEF Complete
<1> QED BY <1>1, <1>3 DEF HandledTo, Handles

\* An entry more that has been looked at.
LEMMA HandledMore ==
  ASSUME NEW n \in Nat, HandledTo(n), SameConfig,
         NEW h, h = proc.config.handlers[n + 1],
         proc'.handlers = IF Len(h) = 2 THEN Inserted(proc.handlers, h[1], h[2])
                          ELSE proc.handlers
  PROVE  HandledTo(n + 1)'
<1> DEFINE list == proc.config.handlers
           C(m) == Complete(list, m)
           E(m, t) == EntriesFor(list, m, t)
           old == proc.handlers  new == proc'.handlers
<1>1. /\ DOMAIN old = {list[i][1] : i \in C(n)}
      /\ \A t \in DOMAIN old : old[t] = list[Max(E(n, t))][2]
  BY SMTT(40) DEF HandledTo, Handles
<1>2. SUFFICES /\ DOMAIN new = {list[i][1] : i \in C(n + 1)}
               /\ \A t \in DOMAIN new : new[t] = list[Max(E(n + 1, t))][2]
  BY DEF HandledTo, Handles, SameConfig
<1>3. 1..n + 1 = (1..n) \cup {n + 1}
  BY SMTT(40)
<1>4. CASE Len(h) # 2
  <2>1. C(n + 1) = C(n)
    BY <1>3, <1>4 DEF Complete
  <2>2. new = old /\ \A t : E(n + 1, t) = E(n, t)
    BY SMTT(40), <1>4, <2>1 DEF EntriesFor
  <2> QED BY <1>1, <2>1, <2>2
<1>5. CASE Len(h) = 2
  <2>1. C(n + 1) = C(n) \cup {n + 1}
    BY <1>3, <1>5 DEF Complete
  <2>2. new = [k \in DOMAIN old \cup {h[1]} |-> IF k = h[1] THEN h[2] ELSE old[k]]
    BY <1>5 DEF Inserted
  <2>3. list[n + 1] = h
    OBVIOUS
  <2>4. /\ C(n) \in SUBSET Nat /\ \A i \in C(n) : i <= n
        /\ \A t : E(n, t) \subseteq C(n)
    BY DEF Complete, EntriesFor
  <2>5. /\ E(n + 1, h[1]) = E(n, h[1]) \cup {n + 1}
        /\ \A t : t # h[1] => E(n + 1, t) = E(n, t)
    <3> HIDE DEF list
    <3> QED BY SMTT(40), <2>1, <2>3 DEF EntriesFor
  <2> HIDE DEF list, C, E, old, new
  <2>6. DOMAIN new = {list[i][1] : i \in C(n + 1)}
    <3>1. {list[i][1] : i \in C(n) \cup {n + 1}} = {list[i][1] : i \in C(n)} \cup {list[n + 1][1]}
      BY Zenon
    <3> QED BY <1>1, <2>1, <2>2, <2>3, <3>1
  <2>7. ASSUME NEW t \in DOMAIN new PROVE new[t] = list[Max(E(n + 1, t))][2]
    <3>1. CASE t = h[1]
      <4>1. Max(E(n, t) \cup {n + 1}) = n + 1
        BY <2>4, NewMax
      <4>2. new[t] = h[2]
        BY <2>2, <3>1
      <4> QED BY <2>3, <2>5, <3>1, <4>1, <4>2
    <3>2. CASE t # h[1]
      <4>1. t \in DOMAIN old /\ new[t] = old[t]
        BY <2>2, <3>2
      <4> QED BY SMTT(40), <1>1, <2>5, <3>2, <4>1
    <3> QED BY <3>1, <3>2
  <2> QED BY <2>6, <2>7 DEF list, C, E, old, new
<1> QED BY <1>4, <1>5

LEMMA HandlerStep == TypeInv /\ AgentInv /\ HandlerInv /\ [Next]_vars => HandlerInv'
<1> SUFFICES ASSUME TypeInv, AgentInv, HandlerInv, [Next]_vars PROVE HandlerInv'
  OBVIOUS
<1>1. proc \in Processes /\ UNCHANGED fixed /\ proc.entries \in Nat
  BY Fixed, Fields DEF TypeInv
<1>2. Frame /\ Flow
  BY Frames
<1>3. CASE Restart
  BY <1>1, <1>3, AfterRestart DEF Prepared
<1>4. CASE Register
  <2>1. PICK n \in Nat, h \in {proc.config.handlers[proc.entries + 1]} :
               n = proc.entries /\ h = proc.config.handlers[n + 1]
    BY <1>1
  <2>2. /\ proc'.pc = "handlers" /\ proc'.entries = n + 1 /\ SameConfig
        /\ proc'.handlers = IF Len(h) = 2 THEN Inserted(proc.handlers, h[1], h[2])
                            ELSE proc.handlers
    BY <1>1, <1>4, <2>1, RegisterEffect
  <2>3. HandledTo(n) /\ n < Len(proc.config.handlers)
    BY <1>4, <2>1 DEF HandlerInv, Register
  <2>4. HandledTo(n + 1)'
    BY <2>1, <2>2, <2>3, HandledMore
  <2>5. HandledTo(proc.entries)'
    BY <2>2, <2>4 DEF HandledTo
  <2>6. proc.config.handlers \in Seq(Seq(STRING)) /\ Len(proc.config.handlers) \in Nat
    BY <1>4, AgentShape, LenProperties DEF AgentInv, Read, Register, At
  <2>7. (proc.entries <= Len(proc.config.handlers))'
    BY <2>2, <2>3, <2>6 DEF SameConfig
  <2> QED BY <2>2, <2>5, <2>7 DEF HandlerInv, At
<1>5. CASE ReadProgram
  <2>1. SameHandlers /\ proc'.pc \in {"exited", "provider"}
    BY <1>1, <1>5, ReadEffect DEF SameAll
  <2>2. proc.entries = 0 /\ proc.handlers = <<>>
    BY <1>5 DEF HandlerInv, ReadProgram, At
  <2> QED BY <2>1, <2>2 DEF HandlerInv, At, SameHandlers
<1>6. CASE Configure
  <2>1. SameAll /\ proc'.pc \in {"exited", "handlers"}
    BY <1>1, <1>6, GoSame, ExitedSame DEF Configure
  <2>2. proc.entries = 0 /\ proc.handlers = <<>> /\ proc.config \in Agents
    BY <1>6 DEF HandlerInv, Configure, At, AgentInv, Read
  <2>3. HandledTo(0)'
    BY <2>1, <2>2, HandledNone, HandledSame DEF SameAll
  <2>4. HandledTo(proc.entries)'
    BY <2>1, <2>2, <2>3 DEF SameAll, SameHandlers, HandledTo
  <2>5. (proc.entries <= Len(proc.config.handlers))'
    <3>1. Len(proc.config.handlers) \in Nat
      BY <2>2, AgentShape, LenProperties
    <3> QED BY <2>1, <2>2, <3>1 DEF SameAll, SameConfig, SameHandlers
  <2> QED BY <2>1, <2>4, <2>5 DEF HandlerInv, At
<1>7. CASE EndOfHandlers
  <2>1. SameAll /\ proc'.pc = "specs"
    BY <1>1, <1>7, GoSame DEF EndOfHandlers
  <2>2. HandledTo(Len(proc.config.handlers))
    BY <1>7 DEF HandlerInv, EndOfHandlers
  <2>3. \A n : HandledTo(n) => HandledTo(n)'
    BY <2>1, HandledSame DEF SameAll
  <2>4. HandledTo(Len(proc.config.handlers))'
    BY <2>1, <2>2, <2>3 DEF SameAll, SameConfig, HandledTo
  <2> QED BY <2>1, <2>4 DEF HandlerInv, At
<1>8. CASE ~(Restart \/ Register \/ ReadProgram \/ Configure \/ EndOfHandlers)
  <2>1. SameHandlers /\ SameConfig
    BY <1>2, <1>8 DEF Frame
  <2>2. \A n : HandledTo(n) => HandledTo(n)'
    BY <2>1, HandledSame
  <2>3. HandledTo(Len(proc.config.handlers)) => HandledTo(Len(proc.config.handlers))'
    BY <2>1, <2>2 DEF SameConfig, HandledTo
  <2>4. HandledTo(proc.entries) => HandledTo(proc.entries)'
    BY <2>1, <2>2 DEF SameHandlers, HandledTo
  <2>5. \/ proc'.pc = proc.pc \/ proc'.pc = "exited"
        \/ /\ proc.pc \in {"file", "flags", "read", "provider", "config"}
           /\ proc'.pc \in {"file", "flags", "read", "provider", "config"}
        \/ /\ proc.pc \in {"specs", "build", "signals", "bind", "loop", "close"}
           /\ proc'.pc \in {"specs", "build", "signals", "bind", "loop", "close"}
    BY <1>2, <1>8 DEF Flow, TakeFile, EndOfFlags, Provider, CompileGate,
      Build, SetHandler, Bind, Stop, At
  <2>6. (proc.pc \in {"file", "flags", "read", "provider", "config"} =>
           proc.entries = 0 /\ proc.handlers = <<>>)'
    BY <2>1, <2>5 DEF HandlerInv, SameHandlers
  <2>7. (At("handlers") => proc.entries <= Len(proc.config.handlers)
                             /\ HandledTo(proc.entries))'
    BY <2>1, <2>4, <2>5 DEF HandlerInv, SameHandlers, SameConfig, At
  <2>8. (proc.pc \in {"specs", "build", "signals", "bind", "loop", "close"} =>
           HandledTo(Len(proc.config.handlers)))'
    BY <2>3, <2>5 DEF HandlerInv
  <2> QED BY <2>6, <2>7, <2>8 DEF HandlerInv
<1> QED BY <1>3, <1>4, <1>5, <1>6, <1>7, <1>8

LEMMA GateStep == TypeInv /\ AgentInv /\ GateInv /\ [Next]_vars => GateInv'
<1> SUFFICES ASSUME TypeInv, AgentInv, GateInv, [Next]_vars PROVE GateInv'
  OBVIOUS
<1>1. /\ proc \in Processes /\ UNCHANGED fixed
      /\ proc.sources \in Seq(Texts) /\ Len(proc.sources) \in Nat
  BY Fixed, Fields, LenProperties DEF TypeInv
<1>2. Frame /\ Flow
  BY Frames
<1>3. Read => proc.config.specs \in Seq(SpecFiles) /\ Len(proc.config.specs) \in Nat
  BY AgentShape, LenProperties DEF AgentInv
<1>4. CASE Restart
  BY <1>1, <1>4, AfterRestart DEF Prepared
<1>5. CASE ReadSpec
  <2>1. Read /\ Len(proc.sources) < Len(proc.config.specs)
    BY <1>5 DEF ReadSpec, Read, At
  <2>2. PICK text : text = specs[proc.config.specs[Len(proc.sources) + 1]]
    OBVIOUS
  <2>3. \/ proc'.pc = "exited"
        \/ proc'.pc = "specs" /\ proc'.sources = Append(proc.sources, text) /\ SameConfig
    BY <1>1, <1>5, <2>2, ReadSpecEffect
  <2>4. Len(Append(proc.sources, text)) = Len(proc.sources) + 1
    BY <1>1
  <2>5. Len(proc.sources) + 1 <= Len(proc.config.specs)
    BY <1>1, <1>3, <2>1
  <2> QED BY <2>3, <2>4, <2>5 DEF GateInv, At, SameConfig, Gated
<1>6. CASE CompileGate
  <2>1. Read /\ Len(proc.sources) = Len(proc.config.specs)
    BY <1>6 DEF CompileGate, Read, At
  <2>2. CASE proc'.pc = "exited"
    BY <2>2 DEF GateInv, At, Gated
  <2>3. CASE proc'.pc # "exited"
    <3>1. /\ proc'.pc = "build" /\ proc'.gate = proc.sources /\ SameConfig
          /\ "broken" \notin ToSet(proc.sources)
      BY <1>1, <1>6, <2>3, CompileEffect
    <3>2. \A i \in 1..Len(proc.sources) : proc.sources[i] \in GoodTexts
      <4> SUFFICES ASSUME NEW i \in 1..Len(proc.sources) PROVE proc.sources[i] \in GoodTexts
        OBVIOUS
      <4>1. proc.sources[i] \in Texts
        BY <1>1, ElementOfSeq
      <4>2. proc.sources[i] # "broken"
        BY <1>1, <3>1, LenProperties DEF ToSet
      <4> QED BY <4>1, <4>2 DEF Texts
    <3>3. DOMAIN proc.config.specs = 1..Len(proc.sources)
      BY <1>3, <2>1, LenProperties
    <3>4. proc.sources \in [1..Len(proc.sources) -> GoodTexts]
      BY <1>1, <3>2, LenProperties
    <3>5. (proc.gate \in [DOMAIN proc.config.specs -> GoodTexts])'
      BY <3>1, <3>3, <3>4 DEF SameConfig
    <3> QED BY <3>1, <3>5 DEF GateInv, At, Gated
  <2> QED BY <2>2, <2>3
<1>7. CASE EndOfHandlers
  <2>1. SameAll /\ proc'.pc = "specs"
    BY <1>1, <1>7, GoSame DEF EndOfHandlers
  <2>2. proc.sources = <<>> /\ Read
    BY <1>7 DEF GateInv, EndOfHandlers, At, Read
  <2>3. Len(proc'.sources) = 0 /\ Len(proc'.config.specs) \in Nat
    BY <1>3, <2>1, <2>2 DEF SameAll, SameSources, SameConfig
  <2> QED BY <2>1, <2>3 DEF GateInv, At, Gated
<1>8. CASE ReadProgram
  <2>1. SameSources /\ proc'.pc \in {"exited", "provider"}
    BY <1>1, <1>8, ReadEffect DEF SameAll
  <2> QED BY <1>8, <2>1 DEF GateInv, At, SameSources, ReadProgram, Gated
<1>9. CASE ~(Restart \/ ReadSpec \/ CompileGate \/ EndOfHandlers \/ ReadProgram)
  <2>1. SameSources /\ SameConfig /\ SameGate
    BY <1>2, <1>9 DEF Frame
  <2>2. \/ proc'.pc = proc.pc \/ proc'.pc = "exited"
        \/ /\ proc.pc \in {"file", "flags", "read", "provider", "config", "handlers"}
           /\ proc'.pc \in {"file", "flags", "read", "provider", "config", "handlers"}
        \/ /\ proc.pc \in {"build", "signals", "bind", "loop", "close"}
           /\ proc'.pc \in {"build", "signals", "bind", "loop", "close"}
    BY <1>2, <1>9 DEF Flow, TakeFile, EndOfFlags, Provider, Configure,
      Build, SetHandler, Bind, Stop, At
  <2> QED BY <2>1, <2>2 DEF GateInv, SameSources, SameConfig, SameGate, At, Gated
<1> QED BY <1>4, <1>5, <1>6, <1>7, <1>8, <1>9

LEMMA DiskStep == TypeInv /\ AgentInv /\ GateInv /\ DiskInv /\ [Next]_vars => DiskInv'
<1> SUFFICES ASSUME TypeInv, AgentInv, GateInv, DiskInv, [Next]_vars PROVE DiskInv'
  OBVIOUS
<1>1. /\ proc \in Processes /\ UNCHANGED fixed /\ proc.born \in Nat /\ changes \in Nat
      /\ proc.sources \in Seq(Texts) /\ Len(proc.sources) \in Nat
  BY Fixed, Fields, LenProperties, LaunchAssumption DEF TypeInv
<1>2. Frame /\ Flow
  BY Frames
<1>3. Read => proc.config.specs \in Seq(SpecFiles) /\ Len(proc.config.specs) \in Nat
  BY AgentShape, LenProperties DEF AgentInv
<1>4. CASE Restart
  BY <1>1, <1>4, AfterRestart DEF Prepared
<1>5. CASE Kill \/ Deploy
  <2>1. changes' = changes + 1 /\ SameBorn
    BY <1>1, <1>5, NotedSame DEF Kill, Deploy, Change, Noted, SameAll
  <2> QED BY <1>1, <2>1 DEF DiskInv, SameBorn
<1>6. ASSUME ~(Restart \/ Kill \/ Deploy)
      PROVE  UNCHANGED world /\ changes' = changes /\ SameBorn
  <2>1. UNCHANGED world /\ changes' = changes
    BY ZenonT(40), <1>6 DEF Next, Main, vars, fixed, world, TakeFile, TakeFlag, EndOfFlags,
      ReadProgram, Provider, Configure, Register, EndOfHandlers, ReadSpec, CompileGate,
      Build, SetHandler, Bind, Step, Stop, Finish, Arrive, Signal, PostShutdown
  <2> QED BY <1>2, <1>6, <2>1 DEF Frame
<1>7. CASE proc'.pc = "exited" /\ ~(Restart \/ Kill \/ Deploy)
  BY <1>6, <1>7 DEF DiskInv, Read, At, Gated, SameBorn
<1>8. CASE ReadProgram /\ proc'.pc # "exited"
  <2>1. proc'.pc = "provider" /\ proc'.config = program /\ SameBorn
    BY <1>1, <1>8, ReadEffect
  <2>2. UNCHANGED world /\ changes' = changes
    BY <1>8 DEF ReadProgram
  <2> QED BY <2>1, <2>2 DEF DiskInv, At, Gated, SameBorn, world
<1>9. CASE ReadSpec /\ proc'.pc # "exited"
  <2>1. /\ Read /\ At("specs") /\ Len(proc.sources) < Len(proc.config.specs)
        /\ UNCHANGED world /\ changes' = changes
    BY <1>9 DEF ReadSpec, Read, At
  <2>2. PICK text : text = specs[proc.config.specs[Len(proc.sources) + 1]]
    OBVIOUS
  <2>3. /\ proc'.pc = "specs" /\ proc'.sources = Append(proc.sources, text) /\ SameConfig
        /\ SameBorn
    BY <1>1, <1>9, <2>2, ReadSpecEffect
  <2>4. ASSUME proc.born = changes, NEW i \in 1..Len(proc.sources) + 1
        PROVE  Append(proc.sources, text)[i] = specs[proc.config.specs[i]]
    <3>1. CASE i = Len(proc.sources) + 1
      BY <1>1, <2>2, <3>1
    <3>2. CASE i # Len(proc.sources) + 1
      <4>1. i \in 1..Len(proc.sources)
        BY <1>1, <3>2
      <4>2. Append(proc.sources, text)[i] = proc.sources[i]
        BY <1>1, <4>1
      <4> QED BY <2>1, <2>4, <4>1, <4>2 DEF DiskInv
    <3> QED BY <3>1, <3>2
  <2>5. Len(Append(proc.sources, text)) = Len(proc.sources) + 1
    BY <1>1
  <2> QED BY <2>1, <2>3, <2>4, <2>5
      DEF DiskInv, Read, At, Gated, SameConfig, SameBorn, world
<1>10. CASE CompileGate /\ proc'.pc # "exited"
  <2>1. /\ Read /\ At("specs") /\ Len(proc.sources) = Len(proc.config.specs)
        /\ UNCHANGED world /\ changes' = changes
    BY <1>10 DEF CompileGate, Read, At
  <2>2. proc'.pc = "build" /\ proc'.gate = proc.sources /\ SameConfig /\ SameBorn
    BY <1>1, <1>10, CompileEffect
  <2>3. DOMAIN proc.config.specs = 1..Len(proc.sources)
    BY <1>3, <2>1, LenProperties
  <2>4. ASSUME proc.born = changes
        PROVE  proc.sources = [i \in DOMAIN proc.config.specs |-> specs[proc.config.specs[i]]]
    <3>1. \A i \in 1..Len(proc.sources) : proc.sources[i] = specs[proc.config.specs[i]]
      BY <2>1, <2>4 DEF DiskInv
    <3>2. proc.sources = [i \in 1..Len(proc.sources) |-> proc.sources[i]]
      BY <1>1, LenProperties
    <3> QED BY <2>3, <3>1, <3>2
  <2> QED BY <2>1, <2>2, <2>4 DEF DiskInv, Read, At, Gated, SameConfig, SameBorn, world
<1>11. CASE EndOfHandlers
  <2>1. SameAll /\ proc'.pc = "specs" /\ UNCHANGED world /\ changes' = changes
    BY <1>1, <1>11, GoSame DEF EndOfHandlers
  <2>2. proc.sources = <<>> /\ Read
    BY <1>11 DEF GateInv, EndOfHandlers, At, Read
  <2>3. Len(proc'.sources) = 0
    BY <2>1, <2>2 DEF SameAll, SameSources
  <2> QED BY <2>1, <2>2, <2>3
      DEF DiskInv, Read, At, Gated, SameAll, SameConfig, SameBorn, world
<1>12. CASE /\ ~(\/ Restart \/ Kill \/ Deploy \/ ReadProgram \/ ReadSpec \/ CompileGate
                \/ EndOfHandlers)
            /\ proc'.pc # "exited"
  <2>1. SameSources /\ SameConfig /\ SameGate
    BY <1>2, <1>12 DEF Frame
  <2>2. UNCHANGED world /\ changes' = changes /\ SameBorn
    BY <1>6, <1>12
  <2>3. \/ proc'.pc = proc.pc
        \/ /\ proc.pc \in {"file", "flags", "read"} /\ proc'.pc \in {"flags", "read"}
        \/ /\ proc.pc \in {"provider", "config", "handlers"}
           /\ proc'.pc \in {"provider", "config", "handlers"}
        \/ Gated /\ Gated'
    BY <1>2, <1>12 DEF Flow, TakeFile, EndOfFlags, Provider, Configure,
      Build, SetHandler, Bind, Stop, At, Gated
  <2> QED BY <2>1, <2>2, <2>3
      DEF DiskInv, SameSources, SameConfig, SameGate, SameBorn, Read, At, Gated, world
<1> QED BY <1>4, <1>5, <1>7, <1>8, <1>9, <1>10, <1>11, <1>12

LEMMA ServeStep == TypeInv /\ AgentInv /\ ServeInv /\ [Next]_vars => ServeInv'
<1> SUFFICES ASSUME TypeInv, AgentInv, ServeInv, [Next]_vars PROVE ServeInv'
  OBVIOUS
<1>1. proc \in Processes /\ UNCHANGED fixed
  BY Fixed DEF TypeInv
<1>2. Frame /\ Flow
  BY Frames
<1>3. CASE Restart
  BY <1>1, <1>3, AfterRestart DEF Prepared
<1>4. CASE Signal \/ PostShutdown
  BY <1>1, <1>4, ToldEffect DEF ServeInv
<1>5. CASE Stop
  <2>1. SameAll /\ proc.flag
    BY <1>1, <1>5, GoSame DEF Stop
  <2> QED BY <2>1 DEF ServeInv, SameAll, SameTold
<1>6. CASE ~(Restart \/ Signal \/ PostShutdown \/ Stop)
  <2>1. SameTold
    BY <1>2, <1>6 DEF Frame
  <2>2. At("close")' => At("close")
    BY <1>2, <1>6 DEF Flow, At
  <2> QED BY <2>1, <2>2 DEF ServeInv, SameTold
<1> QED BY <1>3, <1>4, <1>5, <1>6

LEMMA LaunchKeeps == LaunchInv /\ [Next]_vars => LaunchInv'
BY TypeStep, AgentStep, ParseStep, HandlerStep, GateStep, DiskStep, ServeStep DEF LaunchInv

LEMMA LaunchAlways == FairSpec => []LaunchInv
BY LaunchInit, LaunchKeeps, PTL DEF FairSpec

-----------------------------------------------------------------------------
(* What follows.                                                           *)

\* The process always has the parts and the exit codes main.rs gives it, no
\* more messages than its bound, and a code exactly when it has ended.
THEOREM LaunchTypes == FairSpec => []TypeOK
<1>1. LaunchInv => TypeOK
  <2> SUFFICES ASSUME LaunchInv PROVE TypeOK
    OBVIOUS
  <2>1. TypeInv /\ proc \in Processes
    BY DEF LaunchInv, TypeInv
  <2>2. DOMAIN proc = DOMAIN Fresh
    BY <2>1 DEF Processes, Fresh
  <2>3. proc.code \in {"none", "0", "1", "2", "killed"}
    BY <2>1 DEF Processes
  <2> QED BY <2>1, <2>2, <2>3 DEF TypeInv, TypeOK
<1> QED BY <1>1, LaunchAlways, PTL

\* Whatever the order of the flags of parse_args (main.rs:111-190), each
\* option ends with its last value, every peer with its last URL, and no tick
\* is lost.
THEOREM ParsedAsGivenHolds == FairSpec => []ParsedAsGiven
<1>1. LaunchInv => ParsedAsGiven
  <2> SUFFICES ASSUME LaunchInv, proc.pc \notin {"file", "flags", "exited"}
               PROVE  /\ \A f \in Single :
                           Option(f) = IF GivenAt(f) = {} THEN Defaults.single[f]
                                       ELSE LastOf(GivenAt(f))
                      /\ DOMAIN proc.options.peers =
                           {command[i + 1][1] : i \in GivenAt("--peer")}
                      /\ \A n \in DOMAIN proc.options.peers :
                           proc.options.peers[n] = Tail(LastOf(NamedAt(n)))
                      /\ Len(proc.options.ticks) = Cardinality(GivenAt("--tick"))
    BY DEF ParsedAsGiven
  <2>1. Parsed(Len(command)) /\ Known
    BY DEF LaunchInv, ParseInv, TypeInv, Known
  <2>2. Len(command) \in Nat
    BY <2>1, WordSorts, LenProperties
  <2>3. \A f : Before(f, Len(command)) = GivenAt(f)
    BY <2>1, <2>2, BeforeShape
  <2>4. \A m : Called(m, Len(command)) = NamedAt(m)
    BY <2>3 DEF Called, NamedAt, Before
  <2> QED BY <2>1, <2>3, <2>4 DEF Parsed, Singles, Peers, Ticks
<1> QED BY <1>1, LaunchAlways, PTL

\* soft-run serves with the whole gate of its config, with the versions that lie
\* on the disk unless they changed since its start, and with the handler its
\* last complete entry names for each topic, although the files may change
\* while it reads them (main.rs:226-305, runner.rs:137-139).
THEOREM RunnerAsConfiguredHolds == FairSpec => []RunnerAsConfigured
<1>1. LaunchInv => RunnerAsConfigured
  <2> SUFFICES ASSUME LaunchInv, Ticking PROVE RunnerAsConfigured
    BY DEF RunnerAsConfigured, WholeGate, AsDeployed
  <2> DEFINE list == proc.config.handlers
  <2>1. proc.pc \in {"signals", "bind", "loop", "close"}
    BY DEF Ticking
  <2>2. WholeGate /\ AsDeployed
    BY <2>1 DEF LaunchInv, GateInv, DiskInv, WholeGate, AsDeployed, Gated, Read
  <2>3. HandledTo(Len(list)) /\ Read /\ AgentInv
    BY <2>1 DEF LaunchInv, HandlerInv, Read
  <2>4. DOMAIN list = 1..Len(list)
    BY <2>3, AgentShape, LenProperties DEF AgentInv
  <2>5. Complete(list, Len(list)) = {i \in DOMAIN list : Len(list[i]) = 2}
    BY <2>4 DEF Complete
  <2>6. /\ DOMAIN proc.handlers = {list[i][1] : i \in {i \in DOMAIN list : Len(list[i]) = 2}}
        /\ \A t \in DOMAIN proc.handlers :
             proc.handlers[t] =
               list[Max({i \in {i \in DOMAIN list : Len(list[i]) = 2} : list[i][1] = t})][2]
    BY <2>3, <2>5 DEF HandledTo, Handles, EntriesFor
  <2> QED BY <2>2, <2>6 DEF RunnerAsConfigured
<1> QED BY <1>1, LaunchAlways, PTL

\* A word after the file that is no flag, or whose value is missing or wrong.
LEMMA NotFine ==
  ASSUME TypeInv, ParseInv, TakeFlag, ~Fine
  PROVE  ~WellFormed
<1>1. /\ command \in Seq(Words) /\ Len(command) \in Nat /\ proc.words \in Seq(Words)
      /\ proc.words # <<>> /\ At("flags")
  BY WordSorts, LenProperties, Fields DEF TypeInv, Known, TakeFlag
<1>2. PICK n \in Nat : n = Place
  BY <1>1 DEF ParseInv
<1>3. /\ n \in 1..Len(command) /\ n % 2 = 1
      /\ \A i \in 1..Len(proc.words) : proc.words[i] = command[n + i]
  BY <1>1, <1>2 DEF ParseInv
<1>4. PICK k \in Nat : k = Len(proc.words)
  BY <1>1, WordsLeft
<1>5. Head(proc.words) = proc.words[1] /\ k >= 1 /\ n = Len(command) - k
  BY <1>1, <1>2, <1>4, WordsLeft DEF Place
<1>6. Head(proc.words) = command[n + 1] /\ n + 1 \in 2..Len(command) /\ (n + 1) % 2 = 0
  <2>1. Head(proc.words) = command[n + 1]
    <3>1. 1 \in 1..k
      BY <1>5
    <3> QED BY <1>3, <1>4, <1>5, <3>1
  <2>2. n + 1 \in 2..Len(command)
    BY <1>1, <1>3, <1>5
  <2>3. (n + 1) % 2 = 0
    BY <1>3
  <2> QED BY <2>1, <2>2, <2>3
<1>7. CASE k > 1
  <2>1. 2 \in 1..k /\ n + 2 = n + 1 + 1
    BY <1>7
  <2>2. proc.words[2] = command[n + 1 + 1]
    BY <1>3, <1>4, <2>1
  <2> QED BY <1>4, <1>6, <1>7, <2>2 DEF Fine, WellFormed
<1>8. CASE ~(k > 1)
  <2>1. Len(command) = n + 1
    BY <1>1, <1>5, <1>8
  <2> QED BY <1>6, <2>1 DEF WellFormed
<1> QED BY <1>7, <1>8

Exits ==
  Alive /\ ~Alive' =>
    CASE proc'.code = "0" -> proc.told
      [] proc'.code = "1" -> WellFormed
      [] proc'.code = "2" ->
           \/ ~WellFormed \/ program = Missing
           \/ proc.config # Missing
                /\ \E f \in ToSet(proc.config.specs) : specs[f] = "missing"
      [] OTHER -> TRUE

LEMMA ExitSteps == LaunchInv /\ [Next]_vars => Exits
<1> DEFINE NoSpec == proc.config # Missing
                       /\ \E f \in ToSet(proc.config.specs) : specs[f] = "missing"
<1>1. SUFFICES ASSUME LaunchInv, [Next]_vars, Alive, ~Alive'
               PROVE  \/ proc'.code = "0" /\ proc.told
                      \/ proc'.code = "1" /\ WellFormed
                      \/ proc'.code = "2" /\ (~WellFormed \/ program = Missing \/ NoSpec)
                      \/ proc'.code = "killed"
  BY Zenon DEF Exits
<1>2. /\ proc \in Processes /\ TypeInv /\ AgentInv /\ ParseInv /\ Known
      /\ proc.pc # "exited" /\ proc'.pc = "exited"
  <2>1. TypeInv /\ AgentInv /\ ParseInv
    BY <1>1 DEF LaunchInv
  <2>2. proc \in Processes /\ Known
    BY <2>1 DEF TypeInv, Known
  <2>3. proc.pc # "exited" /\ proc'.pc = "exited"
    BY <1>1 DEF Alive
  <2> QED BY <2>1, <2>2, <2>3
<1>3. proc.pc \notin {"file", "flags"} => WellFormed
  BY <1>2 DEF ParseInv
<1>4. CASE TakeFile
  <2>1. proc.words = <<>> /\ proc'.code = "2"
    BY <1>2, <1>4, TakenFile, FileEffect
  <2>2. Len(command) = 0
    BY <1>2, <1>4, <2>1 DEF ParseInv, TakeFile
  <2>3. ~WellFormed
    BY <2>2 DEF WellFormed
  <2> QED BY <2>1, <2>3
<1>5. CASE TakeFlag
  BY <1>2, <1>5, TakenFlag, FlagEffect, NotFine
<1>6. CASE EndOfFlags
  <2> DEFINE bad == \/ Option("--port") = NoWord
                    \/ ~Loopback(Option("--bind")) /\ Option("--shutdown-token") = NoWord
  <2>1. bad /\ proc'.code = "2"
    BY <1>2, <1>6, GoSame, ExitedSame DEF EndOfFlags
  <2>2. Parsed(Len(command))
    <3>1. Parsed(Place)
      BY <1>2, <1>6 DEF EndOfFlags, ParseInv
    <3>2. Place = Len(command)
      BY <1>2, <1>6, WordSorts, LenProperties DEF EndOfFlags, Place
    <3> QED BY <3>1, <3>2
  <2>3. ~WellFormed
    BY <1>2, <2>1, <2>2, NotWellFormedAtEnd
  <2> QED BY <2>1, <2>3
<1>7. CASE ReadProgram
  <2>1. WellFormed
    BY <1>3, <1>7 DEF ReadProgram, At
  <2>2. CASE program = Missing
    <3>1. program # Uncompilable
      <4>1. Missing.kind # Uncompilable.kind
        BY DEF Missing, Uncompilable
      <4> QED BY <2>2, <4>1
    <3>2. proc' = Exited("2")
      BY <1>7, <2>2, <3>1, Zenon DEF ReadProgram
    <3> QED BY <1>2, <2>2, <3>2, ExitedSame
  <2>3. CASE program # Missing /\ program = Uncompilable
    <3>1. proc' = Exited("1")
      BY <1>7, <2>3, Zenon DEF ReadProgram
    <3> QED BY <1>2, <2>1, <3>1, ExitedSame
  <2>4. CASE program # Missing /\ program # Uncompilable
    <3>1. proc' = [Go("provider") EXCEPT !.config = program]
      BY <1>7, <2>4, Zenon DEF ReadProgram
    <3>2. proc'.pc = "provider"
      BY <1>2, <3>1 DEF Go, Processes
    <3> QED BY <1>2, <3>2
  <2> QED BY <2>2, <2>3, <2>4
<1>8. CASE Provider
  <2>1. WellFormed
    BY <1>3, <1>8 DEF Provider, At
  <2>2. KeyMissing
    BY <1>2, <1>8, GoSame DEF Provider
  <2>3. proc' = Exited("1")
    BY <1>8, <2>2 DEF Provider
  <2> QED BY <1>2, <2>1, <2>3, ExitedSame
<1>9. CASE Configure \/ Bind
  <2>1. WellFormed
    BY <1>3, <1>9 DEF Configure, Bind, At
  <2>2. proc'.code = "1"
    BY <1>2, <1>9, GoSame, ExitedSame DEF Configure, Bind
  <2> QED BY <2>1, <2>2
<1>10. CASE CompileGate
  <2>1. WellFormed
    BY <1>3, <1>10 DEF CompileGate, At
  <2> QED BY <1>2, <1>10, <2>1, CompileEffect
<1>11. CASE ReadSpec
  <2> DEFINE i == Len(proc.sources) + 1  text == specs[proc.config.specs[i]]
  <2>1. text = "missing" /\ proc'.code = "2"
    BY <1>2, <1>11, ReadSpecEffect
  <2>2. proc.config \in Agents
    BY <1>2, <1>11 DEF AgentInv, Read, ReadSpec, At
  <2>3. i \in DOMAIN proc.config.specs
    <3>1. proc.sources \in Seq(Texts) /\ Len(proc.sources) \in Nat
      BY <1>2, Fields, LenProperties
    <3>2. proc.config.specs \in Seq(SpecFiles)
      BY <2>2, AgentShape
    <3>3. /\ Len(proc.config.specs) \in Nat
          /\ DOMAIN proc.config.specs = 1..Len(proc.config.specs)
      BY <3>2, LenProperties
    <3> QED BY <1>11, <3>1, <3>3 DEF ReadSpec
  <2>4. proc.config.specs[i] \in ToSet(proc.config.specs)
    BY <2>3, Zenon DEF ToSet
  <2>5. NoSpec
    BY <2>1, <2>2, <2>4, AgentShape
  <2> QED BY <2>1, <2>5
<1>12. CASE Finish
  <2>1. proc.pc = "close" /\ proc'.code = "0"
    BY <1>2, <1>12, FinishEffect
  <2>2. ServeInv
    BY <1>1 DEF LaunchInv
  <2> QED BY <2>1, <2>2 DEF ServeInv, At
<1>13. CASE Kill
  BY <1>2, <1>13, ExitedSame DEF Kill, Change
<1>14. CASE ~(\/ TakeFile \/ TakeFlag \/ EndOfFlags \/ ReadProgram \/ Provider \/ Configure
              \/ Bind \/ CompileGate \/ ReadSpec \/ Finish \/ Kill)
  <2>1. proc'.pc # "exited"
    <3>1. CASE UNCHANGED vars
      BY <1>2, <3>1 DEF vars
    <3>2. CASE EndOfHandlers \/ Build \/ Stop
      BY <1>2, <3>2, GoSame DEF EndOfHandlers, Build, Stop
    <3>3. CASE Register
      BY <1>2, <3>3, RegisterEffect
    <3>4. CASE Step
      BY <1>2, <3>4, StepEffect
    <3>5. CASE Signal \/ PostShutdown
      BY <1>2, <3>5, ToldEffect
    <3>6. CASE Restart
      BY <1>2, <3>6, RestartEffect
    <3>7. CASE Deploy
      BY <1>2, <3>7 DEF Deploy
    <3>8. CASE SetHandler
      <4>1. PICK installed : proc' = [Go("bind") EXCEPT !.handled = installed]
        BY <3>8 DEF SetHandler
      <4> QED BY <1>2, <4>1 DEF Go, Processes
    <3>9. CASE Arrive
      <4>1. PICK box : proc' = [proc EXCEPT !.mailbox = box]
        BY <1>2, <3>9 DEF Arrive, Processes
      <4> QED BY <1>2, <4>1 DEF Processes
    <3> QED BY <1>14, <3>1, <3>2, <3>3, <3>4, <3>5, <3>6, <3>7, <3>8, <3>9, <1>1 DEF Next, Main
  <2> QED BY <1>2, <2>1
<1> QED BY <1>4, <1>5, <1>6, <1>7, <1>8, <1>9, <1>10, <1>11, <1>12, <1>13, <1>14

\* An exit code tells why the process ended: 0, it was asked to; 2, the
\* command line is wrong or a file is not there; 1, something else is
\* (main.rs:90-97, 226-360, 423).
THEOREM ExitTellsHolds == FairSpec => ExitTells
<1>1. LaunchInv /\ [Next]_vars => [Exits]_vars
  BY ExitSteps
<1>2. FairSpec => [][Exits]_vars
  BY <1>1, LaunchAlways, PTL DEF FairSpec
<1> QED BY <1>2 DEF ExitTells, Exits

-----------------------------------------------------------------------------
(* How a life goes on.  What is left of it is the stage it is in and, in    *)
(* the stages that are loops, the turns that are left.                     *)

Rank ==
  [file |-> 1, flags |-> 2, read |-> 3, provider |-> 4, config |-> 5, handlers |-> 6,
   specs |-> 7, build |-> 8, signals |-> 9, bind |-> 10, loop |-> 11, close |-> 12,
   exited |-> 13]
Stage == Rank[proc.pc]

Turns ==
  CASE At("flags")    -> Len(proc.words)
    [] At("handlers") -> Len(proc.config.handlers) - proc.entries
    [] At("specs")    -> Len(proc.config.specs) - Len(proc.sources)
    [] At("loop")     -> IF proc.flag THEN 0 ELSE Len(proc.mailbox)
    [] OTHER          -> 0

Later == Stage' > Stage
Nearer == Stage' = Stage /\ Turns \in Nat /\ Turns' \in Nat /\ Turns' < Turns
NoFurther == Stage' = Stage /\ Turns' = Turns

\* A stop that was asked for is not forgotten while the process lives, and
\* before the loop looks at it nothing but the process's end takes it away
\* (main.rs:328-344, 390).
StopKept == proc.told => proc.flag

\* Every step of main ends a stage or leaves one turn less of it: no flag,
\* handler, spec or message is read twice (main.rs:111-423).
MainNears == [][Main => Later \/ Nearer]_vars

\* And once the process was told to stop, nothing else takes it back: no
\* message that arrives, no signal and no file that changes gives it a turn
\* more (main.rs:390).
StopNears == [][proc.told /\ Alive => Later \/ Nearer \/ NoFurther]_vars

LEMMA StopKeptStep == TypeInv /\ AgentInv /\ StopKept /\ [Next]_vars => StopKept'
<1> SUFFICES ASSUME TypeInv, AgentInv, StopKept, [Next]_vars PROVE StopKept'
  OBVIOUS
<1>1. CASE Restart
  BY <1>1, RestartEffect, FreshIs DEF StopKept
<1>2. CASE Signal \/ PostShutdown
  BY <1>2, ToldEffect DEF StopKept, TypeInv
<1>3. CASE ~(Signal \/ PostShutdown \/ Restart)
  <2>1. SameTold
    BY <1>3, Frames DEF Frame
  <2> QED BY <2>1 DEF SameTold, StopKept
<1> QED BY <1>1, <1>2, <1>3

\* What was told to stop has its flag set, however it is scheduled.
LEMMA StopKeptHolds == FairSpec => []StopKept
<1>1. Init => StopKept
  BY FreshIs DEF Init, StopKept
<1>2. LaunchInv => TypeInv /\ AgentInv
  BY DEF LaunchInv
<1> QED BY <1>1, <1>2, StopKeptStep, LaunchAlways, PTL DEF FairSpec

LEMMA ExitIsLater ==
  ASSUME proc \in Processes, proc.pc # "exited", proc'.pc = "exited"
  PROVE  Later
BY Fields DEF Later, Stage, Rank, Labels

\* A message is taken out of the mailbox.
LEMMA StepTakes ==
  ASSUME TypeInv, Step
  PROVE  /\ proc.pc = "loop" /\ ~proc.flag /\ proc.mailbox # <<>>
         /\ proc'.pc = proc.pc /\ proc'.flag = proc.flag
         /\ proc'.mailbox = Tail(proc.mailbox)
<1>1. proc \in Processes /\ proc.pc = "loop" /\ ~proc.flag /\ proc.mailbox # <<>>
  BY DEF TypeInv, Step, At
<1>2. proc' = [proc EXCEPT !.mailbox = Tail(proc.mailbox)]
  BY <1>1 DEF Step, Processes
<1> QED BY <1>1, <1>2 DEF Processes

LEMMA MainTurns == LaunchInv /\ Main => Later \/ Nearer
<1> SUFFICES ASSUME LaunchInv, Main PROVE Later \/ Nearer
  OBVIOUS
<1>1. TypeInv /\ AgentInv /\ proc \in Processes
  BY DEF LaunchInv, TypeInv
<1>2. CASE TakeFile
  <2>1. proc.pc = "file" /\ proc'.pc \in {"flags", "exited"}
    BY <1>1, <1>2, TakenFile, FileEffect DEF TakeFile, At
  <2> QED BY <2>1 DEF Later, Stage, Rank
<1>3. CASE TakeFlag
  <2>1. proc.pc = "flags" /\ proc.words # <<>> /\ proc.words \in Seq(Words)
    BY <1>1, <1>3, Fields DEF TakeFlag, At
  <2>2. CASE ~Fine
    BY <1>1, <1>3, <2>1, <2>2, FlagEffect, ExitIsLater
  <2>3. CASE Fine
    <3>1. proc'.pc = "flags" /\ proc'.words = SubSeq(proc.words, 3, Len(proc.words))
      BY <1>1, <1>3, <2>3, TakenFlag
    <3>2. /\ Len(proc.words) \in Nat /\ Len(proc.words) > 1
          /\ Len(proc'.words) = Len(proc.words) - 2
      BY <2>1, <2>3, <3>1, WordsLeft DEF Fine
    <3>3. Turns = Len(proc.words) /\ Turns' = Len(proc'.words)
      BY <2>1, <3>1 DEF Turns, At
    <3> QED BY <2>1, <3>1, <3>2, <3>3 DEF Nearer, Stage
  <2> QED BY <2>2, <2>3
<1>4. CASE EndOfFlags
  <2>1. proc.pc = "flags" /\ proc'.pc \in {"read", "exited"}
    BY <1>1, <1>4, GoSame, ExitedSame DEF EndOfFlags, At
  <2> QED BY <2>1 DEF Later, Stage, Rank
<1>5. CASE ReadProgram
  <2>1. proc.pc = "read" /\ proc'.pc \in {"provider", "exited"}
    BY <1>1, <1>5, ReadEffect DEF ReadProgram, At
  <2> QED BY <2>1 DEF Later, Stage, Rank
<1>6. CASE Provider
  <2>1. proc.pc = "provider" /\ proc'.pc \in {"config", "exited"}
    BY <1>1, <1>6, GoSame, ExitedSame DEF Provider, At
  <2> QED BY <2>1 DEF Later, Stage, Rank
<1>7. CASE Configure
  <2>1. proc.pc = "config" /\ proc'.pc \in {"handlers", "exited"}
    BY <1>1, <1>7, GoSame, ExitedSame DEF Configure, At
  <2> QED BY <2>1 DEF Later, Stage, Rank
<1>8. CASE Register
  <2>1. proc.pc = "handlers" /\ proc.config \in Agents
    BY <1>1, <1>8 DEF Register, At, AgentInv, Read
  <2>2. proc'.pc = "handlers" /\ proc'.entries = proc.entries + 1 /\ SameConfig
    BY <1>1, <1>8, RegisterEffect
  <2>3. proc.entries \in Nat /\ Len(proc.config.handlers) \in Nat
    BY <1>1, <2>1, Fields, AgentShape, LenProperties
  <2>4. proc.entries < Len(proc.config.handlers)
    BY <1>8 DEF Register
  <2>5. /\ Turns = Len(proc.config.handlers) - proc.entries
        /\ Turns' = Len(proc.config.handlers) - proc'.entries
    BY <2>1, <2>2 DEF Turns, At, SameConfig
  <2> QED BY <2>1, <2>2, <2>3, <2>4, <2>5 DEF Nearer, Stage
<1>9. CASE EndOfHandlers
  <2>1. proc.pc = "handlers" /\ proc'.pc = "specs"
    BY <1>1, <1>9, GoSame DEF EndOfHandlers, At
  <2> QED BY <2>1 DEF Later, Stage, Rank
<1>10. CASE ReadSpec
  <2>1. proc.pc = "specs" /\ proc.config \in Agents
    BY <1>1, <1>10 DEF ReadSpec, At, AgentInv, Read
  <2>2. CASE proc'.pc = "exited"
    BY <1>1, <2>1, <2>2, ExitIsLater
  <2>3. CASE proc'.pc # "exited"
    <3>1. PICK text : proc'.pc = "specs" /\ proc'.sources = Append(proc.sources, text)
                      /\ SameConfig
      BY <1>1, <1>10, <2>3, ReadSpecEffect
    <3>2. /\ proc.sources \in Seq(Texts) /\ Len(proc.sources) \in Nat
          /\ Len(proc.config.specs) \in Nat
      BY <1>1, <2>1, Fields, AgentShape, LenProperties
    <3>3. Len(proc'.sources) = Len(proc.sources) + 1
      BY <3>1, <3>2
    <3>4. Len(proc.sources) < Len(proc.config.specs)
      BY <1>10 DEF ReadSpec
    <3>5. /\ Turns = Len(proc.config.specs) - Len(proc.sources)
          /\ Turns' = Len(proc.config.specs) - Len(proc'.sources)
      BY <2>1, <3>1 DEF Turns, At, SameConfig
    <3>6. Turns \in Nat /\ Turns' \in Nat /\ Turns' < Turns
      <4>1. ASSUME NEW m \in Nat, NEW n \in Nat, m < n
            PROVE  n - m \in Nat /\ n - (m + 1) \in Nat /\ n - (m + 1) < n - m
        BY <4>1
      <4> QED BY <3>2, <3>3, <3>4, <3>5, <4>1
    <3>7. Stage' = Stage
      BY <2>1, <3>1 DEF Stage
    <3> QED BY <3>6, <3>7 DEF Nearer
  <2> QED BY <2>2, <2>3
<1>11. CASE CompileGate
  <2>1. proc.pc = "specs" /\ proc'.pc \in {"build", "exited"}
    BY <1>1, <1>11, CompileEffect DEF CompileGate, At
  <2> QED BY <2>1 DEF Later, Stage, Rank
<1>12. CASE Build
  <2>1. proc.pc = "build" /\ proc'.pc = "signals"
    BY <1>1, <1>12, GoSame DEF Build, At
  <2> QED BY <2>1 DEF Later, Stage, Rank
<1>13. CASE SetHandler
  <2>1. PICK installed : proc' = [Go("bind") EXCEPT !.handled = installed]
    BY <1>13 DEF SetHandler
  <2>2. proc.pc = "signals" /\ proc'.pc = "bind"
    BY <1>1, <1>13, <2>1 DEF SetHandler, At, Go, Processes
  <2> QED BY <2>2 DEF Later, Stage, Rank
<1>14. CASE Bind
  <2>1. proc.pc = "bind" /\ proc'.pc \in {"loop", "exited"}
    BY <1>1, <1>14, GoSame, ExitedSame DEF Bind, At
  <2> QED BY <2>1 DEF Later, Stage, Rank
<1>15. CASE Step
  <2>1. /\ proc.pc = "loop" /\ ~proc.flag /\ proc.mailbox # <<>>
        /\ proc'.pc = "loop" /\ proc'.flag = proc.flag
        /\ proc'.mailbox = Tail(proc.mailbox)
    BY <1>1, <1>15, StepTakes
  <2>2. /\ Len(proc.mailbox) \in Nat \ {0}
        /\ Len(proc'.mailbox) = Len(proc.mailbox) - 1
    BY <1>1, <2>1, Fields, EmptySeq, HeadTailProperties, LenProperties
  <2>3. Turns = Len(proc.mailbox) /\ Turns' = Len(proc'.mailbox)
    BY <2>1 DEF Turns, At
  <2> QED BY <2>1, <2>2, <2>3 DEF Nearer, Stage
<1>16. CASE Stop
  <2>1. proc.pc = "loop" /\ proc'.pc = "close"
    BY <1>1, <1>16, GoSame DEF Stop, At
  <2> QED BY <2>1 DEF Later, Stage, Rank
<1>17. CASE Finish
  BY <1>1, <1>17, FinishEffect, ExitIsLater
<1> QED BY <1>2, <1>3, <1>4, <1>5, <1>6, <1>7, <1>8, <1>9, <1>10, <1>11, <1>12, <1>13, <1>14,
       <1>15, <1>16, <1>17 DEF Main

\* The way to the loop, and through what waits in it, has an end: under the
\* fairness of main this is what Recovers rests on.
THEOREM MainNearsHolds == FairSpec => MainNears
<1>1. LaunchInv /\ [Next]_vars => [Main => Later \/ Nearer]_vars
  BY MainTurns
<1>2. FairSpec => [][Main => Later \/ Nearer]_vars
  BY <1>1, LaunchAlways, PTL DEF FairSpec
<1> QED BY <1>2 DEF MainNears

LEMMA StopTurns ==
  ASSUME LaunchInv, StopKept, StopKept', [Next]_vars, proc.told, Alive
  PROVE  Later \/ Nearer \/ NoFurther
<1>1. TypeInv /\ AgentInv /\ proc \in Processes /\ proc.pc # "exited" /\ proc.flag
  BY DEF LaunchInv, TypeInv, StopKept, Alive
<1>2. ASSUME proc'.pc = proc.pc, SameConfig, SameHandlers, SameSources,
             proc'.words = proc.words, proc'.flag
      PROVE  NoFurther
  BY <1>1, <1>2 DEF NoFurther, Stage, Turns, At, SameConfig, SameHandlers, SameSources
<1>3. CASE Main
  BY <1>3, MainTurns
<1>4. CASE Arrive
  <2>1. PICK box : proc' = [proc EXCEPT !.mailbox = box]
    BY <1>4 DEF Arrive, Processes
  <2>2. proc'.pc = proc.pc /\ SameAll
    BY <1>1, <1>4, <2>1, NotedSame DEF Noted, Processes
  <2> QED BY <1>1, <1>2, <2>2 DEF SameAll, SameTold
<1>5. CASE Signal \/ PostShutdown
  BY <1>1, <1>2, <1>5, ToldEffect
<1>6. CASE Kill
  BY <1>1, <1>6, ExitedSame, ExitIsLater DEF Kill, Change
<1>7. CASE Deploy \/ UNCHANGED vars
  <2>1. proc' = proc
    BY <1>7 DEF Deploy, vars
  <2> QED BY <1>1, <1>2, <2>1 DEF SameConfig, SameHandlers, SameSources
<1>8. CASE Restart
  BY <1>8 DEF Restart
<1> QED BY <1>3, <1>4, <1>5, <1>6, <1>7, <1>8 DEF Next

\* A stop comes nearer with every step of main and is never put off: under
\* the fairness of main this is what StopEnds rests on.
THEOREM StopNearsHolds == FairSpec => StopNears
<1>1. /\ LaunchInv /\ StopKept /\ StopKept' /\ [Next]_vars
      => [proc.told /\ Alive => Later \/ Nearer \/ NoFurther]_vars
  BY StopTurns
<1>2. FairSpec => [][proc.told /\ Alive => Later \/ Nearer \/ NoFurther]_vars
  BY <1>1, LaunchAlways, StopKeptHolds, PTL DEF FairSpec
<1> QED BY <1>2 DEF StopNears

\* What a life has read so far is in order.
Orderly ==
  /\ Read => /\ ValidConfig(proc.config)
             /\ \A f \in ToSet(proc.config.specs) : specs[f] \in GoodTexts
  /\ "broken" \notin ToSet(proc.sources)

Orders ==
  Main /\ WellFormed /\ Addressed /\ InOrder /\ Orderly => Orderly' /\ (Alive' \/ At("close"))

\* A life begins in order, and while command line, address, files and port
\* are in order no step of main spoils that, or ends the process before its
\* loop does (main.rs:226-390, docker-compose.yml:50).
OrderServes == [][(Restart => Orderly') /\ Orders]_vars

LEMMA MainWorld == Main => UNCHANGED <<fixed, world>>
BY ZenonT(40) DEF Main, TakeFile, TakeFlag, EndOfFlags, ReadProgram, Provider, Configure,
   Register, EndOfHandlers, ReadSpec, CompileGate, Build, SetHandler, Bind, Step, Stop, Finish

\* A step of main that exits does so for one of the reasons there are.
LEMMA NoExit ==
  ASSUME LaunchInv, Main, WellFormed, Addressed, InOrder, Orderly
  PROVE  Alive' \/ At("close")
<1>1. /\ proc \in Processes /\ TypeInv /\ AgentInv /\ ParseInv /\ Known
      /\ Exits /\ program # Missing /\ program # Uncompilable
      /\ ValidConfig(program) /\ ~busy /\ environment.key
  <2>1. Exits
    BY ExitSteps DEF Next
  <2>2. TypeInv /\ AgentInv /\ ParseInv
    BY DEF LaunchInv
  <2> QED BY <2>1, <2>2 DEF TypeInv, Known, InOrder
<1>2. SUFFICES ASSUME proc'.pc = "exited", proc.pc # "close" PROVE FALSE
  BY DEF Alive, At
<1>3. CASE TakeFile
  <2>1. proc.words = <<>> /\ proc.words = command
    BY <1>1, <1>2, <1>3, TakenFile DEF ParseInv, TakeFile
  <2> QED BY <2>1 DEF WellFormed
<1>4. CASE TakeFlag
  BY <1>1, <1>2, <1>4, TakenFlag, NotFine
<1>5. CASE EndOfFlags
  <2>1. \/ Option("--port") = NoWord
        \/ ~Loopback(Option("--bind")) /\ Option("--shutdown-token") = NoWord
    BY <1>1, <1>2, <1>5, GoSame DEF EndOfFlags
  <2>2. Parsed(Place) /\ Place = Len(command)
    BY <1>1, <1>5, WordSorts, LenProperties DEF EndOfFlags, ParseInv, Place
  <2>3. Parsed(Len(command))
    BY <2>2
  <2> QED BY <1>1, <2>1, <2>3, NotWellFormedAtEnd
<1>6. CASE ReadProgram
  <2>1. proc' = [Go("provider") EXCEPT !.config = program]
    BY <1>1, <1>6, Zenon DEF ReadProgram
  <2>2. proc'.pc = "provider"
    BY <1>1, <2>1 DEF Go, Processes
  <2> QED BY <1>2, <2>2
<1>7. CASE Provider
  BY <1>1, <1>2, <1>7, GoSame DEF Provider, KeyMissing
<1>8. CASE Configure
  <2>1. ValidConfig(proc.config)
    BY <1>8 DEF Orderly, Read, Configure, At
  <2> QED BY <1>1, <1>2, <1>8, <2>1, GoSame DEF Configure
<1>9. CASE ReadSpec
  <2> DEFINE i == Len(proc.sources) + 1  text == specs[proc.config.specs[i]]
  <2>1. text = "missing"
    BY <1>1, <1>2, <1>9, ReadSpecEffect
  <2>2. proc.config \in Agents /\ \A f \in ToSet(proc.config.specs) : specs[f] \in GoodTexts
    BY <1>1, <1>9 DEF AgentInv, Orderly, Read, ReadSpec, At
  <2>3. i \in DOMAIN proc.config.specs
    <3>1. proc.sources \in Seq(Texts) /\ Len(proc.sources) \in Nat
      BY <1>1, Fields, LenProperties
    <3>2. /\ Len(proc.config.specs) \in Nat
          /\ DOMAIN proc.config.specs = 1..Len(proc.config.specs)
      BY <2>2, AgentShape, LenProperties
    <3> QED BY <1>9, <3>1, <3>2 DEF ReadSpec
  <2>4. proc.config.specs[i] \in ToSet(proc.config.specs)
    BY <2>3, Zenon DEF ToSet
  <2> QED BY <2>1, <2>2, <2>4 DEF GoodTexts
<1>10. CASE CompileGate
  <2>1. "broken" \notin ToSet(proc.sources)
    BY DEF Orderly
  <2>2. proc' = [Go("build") EXCEPT !.gate = proc.sources]
    BY <1>10, <2>1 DEF CompileGate
  <2>3. proc'.pc = "build"
    BY <1>1, <2>2 DEF Go, Processes
  <2> QED BY <1>2, <2>3
<1>11. CASE Bind
  <2>1. Parsed(Len(command))
    BY <1>1, <1>11 DEF ParseInv, Bind, At
  <2>2. Before("--bind", Len(command)) = GivenAt("--bind")
    BY <1>1, BeforeShape, WordSorts, LenProperties
  <2>3. Option("--bind") = IF GivenAt("--bind") = {} THEN Defaults.single["--bind"]
                           ELSE LastOf(GivenAt("--bind"))
    BY <2>1, <2>2 DEF Parsed, Singles, Single, Checked
  <2>4. Option("--bind") \in Addresses
    BY <1>1, <2>3, DefaultOf, LaunchAssumption DEF Addressed
  <2> QED BY <1>1, <1>2, <1>11, <2>4, GoSame DEF Bind, CannotBind
<1>12. CASE EndOfHandlers \/ Build \/ Stop
  BY <1>1, <1>2, <1>12, GoSame DEF EndOfHandlers, Build, Stop
<1>13. CASE Register
  BY <1>1, <1>2, <1>13, RegisterEffect
<1>14. CASE SetHandler
  <2>1. PICK installed : proc' = [Go("bind") EXCEPT !.handled = installed]
    BY <1>14 DEF SetHandler
  <2> QED BY <1>1, <1>2, <2>1 DEF Go, Processes
<1>15. CASE Step
  BY <1>1, <1>2, <1>15, StepEffect
<1>16. CASE Finish
  BY <1>1, <1>2, <1>16, FinishEffect
<1> QED BY <1>3, <1>4, <1>5, <1>6, <1>7, <1>8, <1>9, <1>10, <1>11, <1>12, <1>13, <1>14, <1>15,
       <1>16 DEF Main

LEMMA OrderKept ==
  ASSUME LaunchInv, Main, WellFormed, InOrder, Orderly
  PROVE  Orderly'
<1>1. /\ proc \in Processes /\ TypeInv /\ AgentInv /\ LaunchInv' /\ Frame /\ Flow /\ specs' = specs
      /\ program # Missing /\ program # Uncompilable /\ ValidConfig(program)
      /\ \A f \in ToSet(program.specs) : specs[f] \in GoodTexts
  <2>1. TypeInv /\ AgentInv /\ LaunchInv'
    BY LaunchKeeps DEF LaunchInv, Next
  <2>2. Frame /\ Flow
    BY <2>1, Frames DEF Next
  <2> QED BY <2>1, <2>2, MainWorld DEF TypeInv, InOrder, world
<1>2. ~Restart
  <2>1. Main => proc.pc # "exited"
    BY ZenonT(40) DEF Main, At, TakeFile, TakeFlag, EndOfFlags, ReadProgram, Provider,
      Configure, Register, EndOfHandlers, ReadSpec, CompileGate, Build, SetHandler, Bind,
      Step, Stop, Finish
  <2> QED BY <2>1 DEF Restart, Alive
<1>3. (Read => /\ ValidConfig(proc.config)
               /\ \A f \in ToSet(proc.config.specs) : specs[f] \in GoodTexts)'
  <2>1. CASE ReadProgram /\ proc'.pc # "exited"
    <3>1. proc'.config = program
      BY <1>1, <2>1, ReadEffect
    <3> QED BY <1>1, <3>1
  <2>2. CASE ReadProgram /\ proc'.pc = "exited"
    BY <2>2 DEF Read
  <2>3. CASE ~ReadProgram
    <3>1. proc'.config = proc.config
      BY <1>1, <1>2, <2>3 DEF Frame, SameConfig
    <3>2. Read' => Read
      BY <1>1, <1>2, <2>3 DEF Read, Flow, Provider, Configure, EndOfHandlers, CompileGate, Build,
        SetHandler, Bind, Stop, At, TakeFile, EndOfFlags
    <3> QED BY <1>1, <3>1, <3>2 DEF Orderly
  <2> QED BY <2>1, <2>2, <2>3
<1>4. "broken" \notin ToSet(proc'.sources)
  <2>1. CASE ~ReadSpec
    BY <1>1, <1>2, <2>1 DEF Frame, SameSources, Orderly
  <2>2. CASE ReadSpec
    <3> DEFINE i == Len(proc.sources) + 1  text == specs[proc.config.specs[i]]
    <3>1. CASE text = "missing"
      BY <1>1, <2>2, <3>1, ReadSpecEffect DEF SameAll, SameSources, Orderly
    <3>2. CASE text # "missing"
      <4>1. proc'.sources = Append(proc.sources, text)
        BY <1>1, <2>2, <3>2, ReadSpecEffect
      <4>2. proc.config \in Agents /\ \A f \in ToSet(proc.config.specs) : specs[f] \in GoodTexts
        BY <1>1, <2>2 DEF AgentInv, Orderly, Read, ReadSpec, At
      <4>3. proc.sources \in Seq(Texts) /\ Len(proc.sources) \in Nat
        BY <1>1, Fields, LenProperties
      <4>4. i \in DOMAIN proc.config.specs
        <5>1. /\ Len(proc.config.specs) \in Nat
              /\ DOMAIN proc.config.specs = 1..Len(proc.config.specs)
          BY <4>2, AgentShape, LenProperties
        <5> QED BY <2>2, <4>3, <5>1 DEF ReadSpec
      <4>5. text \in GoodTexts /\ text # "broken"
        <5>1. proc.config.specs[i] \in ToSet(proc.config.specs)
          BY <4>4, Zenon DEF ToSet
        <5> QED BY <4>2, <5>1 DEF GoodTexts
      <4> HIDE DEF text
      <4>6. \A j \in 1..Len(proc.sources) : proc.sources[j] # "broken"
        BY DEF Orderly, ToSet
      <4>7. ASSUME NEW j \in DOMAIN proc'.sources PROVE proc'.sources[j] # "broken"
        <5>1. j \in 1..Len(proc.sources) + 1
          BY <4>1, <4>3, <4>5, AppendProperties, LenProperties DEF Texts
        <5> QED BY <4>1, <4>3, <4>5, <4>6, <5>1
      <4> QED BY <4>7, Zenon DEF ToSet
    <3> QED BY <3>1, <3>2
  <2> QED BY <2>1, <2>2
<1> QED BY <1>3, <1>4 DEF Orderly

\* Every life that begins once all is in order gets to its loop by its own
\* steps and stays there until it is told to stop: with MainNears and the
\* fairness of main and of the supervisor this is what Recovers rests on.
THEOREM OrderServesHolds == FairSpec => OrderServes
<1>1. LaunchInv /\ [Next]_vars => (Restart => Orderly') /\ Orders
  <2>1. ASSUME LaunchInv, Restart PROVE Orderly'
    <3>1. proc' = Fresh
      BY <2>1, RestartEffect
    <3> QED BY <3>1, FreshIs DEF Orderly, Read, ToSet
  <2>2. ASSUME LaunchInv PROVE Orders
    BY <2>2, NoExit, OrderKept DEF Orders
  <2> QED BY <2>1, <2>2
<1>2. LaunchInv /\ [Next]_vars => [(Restart => Orderly') /\ Orders]_vars
  BY <1>1
<1>3. FairSpec => [][(Restart => Orderly') /\ Orders]_vars
  BY <1>2, LaunchAlways, PTL DEF FairSpec
<1> QED BY <1>3 DEF OrderServes

=============================================================================

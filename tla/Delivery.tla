------------------------------ MODULE Delivery ------------------------------
(***************************************************************************)
(* Several soft-run processes that talk A2A over HTTP.  Each has a runner's *)
(* thread (the main loop of crates/soft-runner/src/main.rs, whose executor  *)
(* posts to peers and waits for the answer: soft-a2a/src/executor.rs,       *)
(* client.rs) and a server's thread that answers one request at a time      *)
(* (server.rs).  Connections break, processes are told to stop, die and are *)
(* restarted.                                                              *)
(*                                                                         *)
(* What a step does apart from sending (gate, trace, counters) is in Runner;*)
(* here it takes a message and ends with a list of sends that passed.      *)
(***************************************************************************)
EXTENDS Naturals, Sequences

CONSTANTS
  Agents,        \* soft-run processes
  Clients,       \* others that post to them: operators, tests
  ClientKinds,   \* what clients post: "message", "shutdown", "garbled"
  Topics,
  SendsOf,       \* agent -> topic -> lists of [peer, topic] a step may send
  Urls,          \* agent -> peers of its --peer map
  MaxPosts,      \* bound: requests of one client
  MaxFaults      \* bound: broken connections, crashes and signals together

Callers == Agents \cup Clients
SendsTo == [peer: Agents, topic: Topics]

ASSUME DeliveryAssumption ==
  /\ Agents \cap Clients = {}
  /\ ClientKinds \subseteq {"message", "shutdown", "garbled"}
  /\ SendsOf \in [Agents -> [Topics -> SUBSET Seq(SendsTo)]]
  /\ Urls \in [Agents -> SUBSET Agents]
  /\ {MaxPosts, MaxFaults} \subseteq Nat

VARIABLES
  phase,      \* agent -> "serving", then "closing", "closed" and "exited"; or "crashed"
  flag,       \* agent -> the shutdown flag
  pc,         \* agent -> where the main loop is: "check", "step" or "send"
  mailbox,    \* agent -> accepted messages
  todo,       \* agent -> sends left of the step
  transit,    \* agent -> requests on their way to its server, or waiting there
  serving,    \* agent -> the request its server has dealt with, not answered yet
  answer,     \* caller -> "idle", "waiting", then "ok" or "error"
  sent,       \* caller -> number of requests made, the name of the last one
  faults,     \* broken connections, crashes and signals so far
  accepted,   \* history: agent -> messages its mailbox accepted, over all its lives
  received,   \* history: agent -> messages received in this life
  base,       \* history: agent -> how many were accepted in its earlier lives
  confirmed,  \* history: agent -> sends it recorded as executed without error
  late        \* history: agent -> messages received since the flag was set

vars == <<phase, flag, pc, mailbox, todo, transit, serving, answer, sent,
          faults, accepted, received, base, confirmed, late>>

-----------------------------------------------------------------------------
Message(c, n, t) == [from |-> c, n |-> n, topic |-> t]

Messages == [from: Callers, n: Nat, topic: Topics]

\* POST /a2a/messages and POST /shutdown, with or without a good token; a
\* garbled message is no message, or its body does not end.
Requests ==
  [kind: {"message", "garbled"}, caller: Callers, n: Nat, topic: Topics]
    \cup [kind: {"shutdown"}, caller: Callers, n: Nat, token: BOOLEAN]

Alive(b) == phase[b] \in {"serving", "closing", "closed"}

\* The receiver of the mailbox lives in the runner.
MailboxOpen(b) == phase[b] \in {"serving", "closing"}

\* One of the disturbances that are bounded.
Fault == faults < MaxFaults /\ faults' = faults + 1

\* f with v at x.
Put(f, x, v) == [f EXCEPT ![x] = v]

At(b, label) == phase[b] = "serving" /\ pc[b] = label

\* The last request of c, where it is on its way.
CurrentRequest(c) ==
  {r \in UNION {transit[b] : b \in Agents} : r.caller = c /\ r.n = sent[c]}

\* Callers that still wait for one of these requests.
WaitingFor(requests) ==
  {c \in Callers : answer[c] = "waiting"
                   /\ \E r \in requests : r.caller = c /\ r.n = sent[c]}

\* The server's thread waits for the rest of a body.
Stalled(b) == \E s \in serving[b] : s.request.kind = "garbled"

-----------------------------------------------------------------------------
(* Slips: the actions below with a plausible mistake in the code.  No        *)
(* specification uses them; the checks are shown to notice them.           *)

\* A transport error is retried by the HTTP client.
LoseConnectionRetried(c) ==
  /\ c \in Agents
  /\ answer[c] = "waiting"
  /\ Fault
  /\ LET s == Head(todo[c])
     IN  transit' = Put(transit, s.peer, transit[s.peer] \cup
           {[kind |-> "message", caller |-> c, n |-> sent[c], topic |-> s.topic]})
  /\ UNCHANGED <<phase, flag, pc, mailbox, todo, serving, answer, sent,
                 accepted, received, base, confirmed, late>>

\* ... or taken for a delivery.
LoseConnectionOk(c) ==
  /\ answer[c] = "waiting"
  /\ Fault
  /\ answer' = Put(answer, c, "ok")
  /\ UNCHANGED <<phase, flag, pc, mailbox, todo, transit, serving, sent,
                 accepted, received, base, confirmed, late>>

\* The result of sender.send is ignored.
ServeIgnoresClosed(b) ==
  /\ Alive(b)
  /\ serving[b] = {}
  /\ \E r \in {q \in transit[b] : q.kind = "message"} :
       LET m == Message(r.caller, r.n, r.topic)
       IN  /\ transit' = Put(transit, b, transit[b] \ {r})
           /\ serving' = Put(serving, b, {[request |-> r, ok |-> TRUE]})
           /\ IF MailboxOpen(b)
              THEN /\ mailbox' = Put(mailbox, b, Append(mailbox[b], m))
                   /\ accepted' = Put(accepted, b, Append(accepted[b], m))
              ELSE UNCHANGED <<mailbox, accepted>>
  /\ UNCHANGED <<phase, flag, pc, todo, answer, sent, faults, received, base,
                 confirmed, late>>

\* The server answers when the runner has processed what it accepted.
RespondAfterStep(b) ==
  /\ Alive(b) /\ ~Stalled(b)
  /\ mailbox[b] = <<>> /\ todo[b] = <<>>
  /\ \E s \in serving[b] :
       answer' = [c \in Callers |->
                    IF c \in WaitingFor({s.request})
                    THEN IF s.ok THEN "ok" ELSE "error"
                    ELSE answer[c]]
  /\ serving' = Put(serving, b, {})
  /\ UNCHANGED <<phase, flag, pc, mailbox, todo, transit, sent, faults,
                 accepted, received, base, confirmed, late>>

\* The mailbox is drained before the flag is looked at.
CheckFlagWhenIdle(b) ==
  /\ At(b, "check")
  /\ IF flag[b] /\ mailbox[b] = <<>>
     THEN phase' = Put(phase, b, "closing") /\ UNCHANGED pc
     ELSE pc' = Put(pc, b, "step") /\ UNCHANGED phase
  /\ UNCHANGED <<flag, mailbox, todo, transit, serving, answer, sent, faults,
                 accepted, received, base, confirmed, late>>

\* The step does not end with its last send.
ReturnLoopsOn(b) ==
  /\ At(b, "send")
  /\ answer[b] \in {"ok", "error"}
  /\ answer' = Put(answer, b, "idle")
  /\ todo' = Put(todo, b, Tail(todo[b]))
  /\ UNCHANGED <<phase, flag, pc, mailbox, transit, serving, sent, faults,
                 accepted, received, base, confirmed, late>>

\* The main loop waits for the flag instead of stepping.
CheckFlagWaits(b) ==
  /\ At(b, "check")
  /\ flag[b]
  /\ phase' = Put(phase, b, "closing")
  /\ UNCHANGED <<flag, pc, mailbox, todo, transit, serving, answer, sent, faults,
                 accepted, received, base, confirmed, late>>

\* The step waits for a message (recv for try_recv).
IdleBlocks(b) ==
  /\ At(b, "step")
  /\ mailbox[b] = <<>>
  /\ UNCHANGED vars

-----------------------------------------------------------------------------
\* RunnerBuilder::build and A2aServer::bind have succeeded everywhere.
Init ==
  /\ phase = [b \in Agents |-> "serving"]
  /\ flag = [b \in Agents |-> FALSE]
  /\ pc = [b \in Agents |-> "check"]
  /\ mailbox = [b \in Agents |-> <<>>]
  /\ todo = [b \in Agents |-> <<>>]
  /\ transit = [b \in Agents |-> {}]
  /\ serving = [b \in Agents |-> {}]
  /\ answer = [c \in Callers |-> "idle"]
  /\ sent = [c \in Callers |-> 0]
  /\ faults = 0
  /\ accepted = [b \in Agents |-> <<>>]
  /\ received = [b \in Agents |-> <<>>]
  /\ base = [b \in Agents |-> 0]
  /\ confirmed = [b \in Agents |-> {}]
  /\ late = [b \in Agents |-> 0]

-----------------------------------------------------------------------------
(* The client side: A2aClient::send posts and blocks until there is an      *)
(* answer or the connection fails.                                         *)

\* A connection to a process that is not there is refused.
Post(c, b, request) ==
  /\ answer[c] = "idle"
  /\ sent' = Put(sent, c, request.n)
  /\ IF Alive(b)
     THEN /\ transit' = Put(transit, b, transit[b] \cup {request})
          /\ answer' = Put(answer, c, "waiting")
     ELSE /\ answer' = Put(answer, c, "error")
          /\ UNCHANGED transit

ClientPost(c, b) ==
  /\ sent[c] < MaxPosts
  /\ \/ \E k \in ClientKinds \ {"shutdown"}, t \in Topics :
          Post(c, b, [kind |-> k, caller |-> c, n |-> sent[c] + 1, topic |-> t])
     \/ "shutdown" \in ClientKinds /\ \E good \in BOOLEAN :
          Post(c, b, [kind |-> "shutdown", caller |-> c, n |-> sent[c] + 1, token |-> good])
  /\ UNCHANGED <<phase, flag, pc, mailbox, todo, serving, faults, accepted,
                 received, base, confirmed, late>>

ClientReturn(c) ==
  /\ answer[c] \in {"ok", "error"}
  /\ answer' = Put(answer, c, "idle")
  /\ UNCHANGED <<phase, flag, pc, mailbox, todo, transit, serving, sent,
                 faults, accepted, received, base, confirmed, late>>

\* The connection breaks: the caller gets an error, and the request is lost
\* with it or still arrives.
LoseConnection(c) ==
  /\ answer[c] = "waiting"
  /\ Fault
  /\ answer' = Put(answer, c, "error")
  /\ \/ UNCHANGED transit
     \/ transit' = [b \in Agents |-> transit[b] \ CurrentRequest(c)]
  /\ UNCHANGED <<phase, flag, pc, mailbox, todo, serving, sent, accepted,
                 received, base, confirmed, late>>

-----------------------------------------------------------------------------
(* The server's thread: incoming_requests, handle, respond.                *)

\* handle_message enqueues, finds the mailbox closed, or begins to read what
\* is no message; handle_shutdown sets the flag or refuses.  Requests come in
\* any order.
Serve(b) ==
  /\ Alive(b)
  /\ serving[b] = {}
  /\ \E r \in transit[b] :
       LET enqueued == r.kind = "message" /\ MailboxOpen(b)
           stopped == r.kind = "shutdown" /\ r.token
           m == Message(r.caller, r.n, r.topic)
       IN  /\ transit' = Put(transit, b, transit[b] \ {r})
           /\ mailbox' = IF enqueued THEN Put(mailbox, b, Append(mailbox[b], m)) ELSE mailbox
           /\ accepted' = IF enqueued THEN Put(accepted, b, Append(accepted[b], m)) ELSE accepted
           /\ flag' = IF stopped THEN Put(flag, b, TRUE) ELSE flag
           /\ serving' = Put(serving, b, {[request |-> r, ok |-> enqueued \/ stopped]})
  /\ UNCHANGED <<phase, pc, todo, answer, sent, faults, received, base,
                 confirmed, late>>

\* req.respond; an error of it is ignored, the caller may be gone.
Reply(b) ==
  /\ Alive(b)
  /\ \E s \in serving[b] :
       answer' = [c \in Callers |->
                    IF c \in WaitingFor({s.request})
                    THEN IF s.ok THEN "ok" ELSE "error"
                    ELSE answer[c]]
  /\ serving' = Put(serving, b, {})
  /\ UNCHANGED <<phase, flag, pc, mailbox, todo, transit, sent, faults,
                 accepted, received, base, confirmed, late>>

Respond(b) == ~Stalled(b) /\ Reply(b)

\* The body ends, or the connection does: 400.
EndBody(b) == Stalled(b) /\ Reply(b)

-----------------------------------------------------------------------------
(* The runner's thread: the loop of main.                                  *)

\* while !shutdown.load(..).
CheckFlag(b) ==
  /\ At(b, "check")
  /\ IF flag[b] THEN phase' = Put(phase, b, "closing") /\ UNCHANGED pc
               ELSE pc' = Put(pc, b, "step") /\ UNCHANGED phase
  /\ UNCHANGED <<flag, mailbox, todo, transit, serving, answer, sent, faults,
                 accepted, received, base, confirmed, late>>

\* step returns Idle.
Idle(b) ==
  /\ At(b, "step")
  /\ mailbox[b] = <<>>
  /\ pc' = Put(pc, b, "check")
  /\ UNCHANGED <<phase, flag, mailbox, todo, transit, serving, answer, sent,
                 faults, accepted, received, base, confirmed, late>>

\* step takes a message; the sends that will pass the gate are settled.
Take(b) ==
  /\ At(b, "step")
  /\ mailbox[b] # <<>>
  /\ mailbox' = Put(mailbox, b, Tail(mailbox[b]))
  /\ received' = Put(received, b, Append(received[b], Head(mailbox[b])))
  /\ late' = Put(late, b, IF flag[b] THEN late[b] + 1 ELSE 0)
  /\ \E sends \in SendsOf[b][Head(mailbox[b]).topic] :
       /\ todo' = Put(todo, b, sends)
       /\ pc' = Put(pc, b, IF sends = <<>> THEN "check" ELSE "send")
  /\ UNCHANGED <<phase, flag, transit, serving, answer, sent, faults,
                 accepted, base, confirmed>>

\* A2aRoutedExecutor::execute: no URL is an error at once, else the POST.
Send(b) ==
  /\ At(b, "send")
  /\ LET s == Head(todo[b])
     IN  IF s.peer \in Urls[b]
         THEN Post(b, s.peer, [kind |-> "message", caller |-> b,
                               n |-> sent[b] + 1, topic |-> s.topic])
         ELSE /\ answer[b] = "idle"
              /\ answer' = Put(answer, b, "error")
              /\ sent' = Put(sent, b, sent[b] + 1)
              /\ UNCHANGED transit
  /\ UNCHANGED <<phase, flag, pc, mailbox, todo, serving, faults, accepted,
                 received, base, confirmed, late>>

\* execute returns; the outcome is recorded and the step goes on either way.
Return(b) ==
  /\ At(b, "send")
  /\ answer[b] \in {"ok", "error"}
  /\ LET s == Head(todo[b])
         done == [to |-> s.peer, msg |-> Message(b, sent[b], s.topic)]
     IN  confirmed' = IF answer[b] = "ok"
                      THEN Put(confirmed, b, confirmed[b] \cup {done}) ELSE confirmed
  /\ answer' = Put(answer, b, "idle")
  /\ todo' = Put(todo, b, Tail(todo[b]))
  /\ pc' = Put(pc, b, IF Tail(todo[b]) = <<>> THEN "check" ELSE "send")
  /\ UNCHANGED <<phase, flag, mailbox, transit, serving, sent, faults,
                 accepted, received, base, late>>

\* The runner is dropped, by finalize, whether or not it saves the trace, or
\* without --store at the end of main; what is left in the mailbox goes with it.
Finalize(b) ==
  /\ phase[b] = "closing"
  /\ phase' = Put(phase, b, "closed")
  /\ mailbox' = Put(mailbox, b, <<>>)
  /\ UNCHANGED <<flag, pc, todo, transit, serving, answer, sent, faults,
                 accepted, received, base, confirmed, late>>

\* The process is gone, with everything in it; whoever waited for its server
\* gets a connection error.
Gone(b, how) ==
  /\ phase' = Put(phase, b, how)
  /\ flag' = Put(flag, b, FALSE)
  /\ pc' = Put(pc, b, "check")
  /\ mailbox' = Put(mailbox, b, <<>>)
  /\ todo' = Put(todo, b, <<>>)
  /\ transit' = Put(transit, b, {})
  /\ serving' = Put(serving, b, {})
  /\ answer' = [c \in Callers |->
                  IF c = b THEN "idle"
                  ELSE IF c \in WaitingFor(transit[b] \cup {s.request : s \in serving[b]})
                       THEN "error" ELSE answer[c]]
  /\ UNCHANGED <<sent, accepted, received, base, confirmed, late>>

\* main returns, and the server's thread ends with it.
Exit(b) ==
  /\ phase[b] = "closed"
  /\ Gone(b, "exited")
  /\ UNCHANGED faults

Crash(b) == Alive(b) /\ Fault /\ Gone(b, "crashed")

\* SIGINT or SIGTERM.
Signal(b) ==
  /\ Alive(b)
  /\ Fault
  /\ flag' = Put(flag, b, TRUE)
  /\ UNCHANGED <<phase, pc, mailbox, todo, transit, serving, answer, sent,
                 accepted, received, base, confirmed, late>>

\* docker-compose.yml: restart: unless-stopped.  Nothing is read back.
Restart(b) ==
  /\ ~Alive(b)
  /\ phase' = Put(phase, b, "serving")
  /\ received' = Put(received, b, <<>>)
  /\ base' = Put(base, b, Len(accepted[b]))
  /\ late' = Put(late, b, 0)
  /\ UNCHANGED <<flag, pc, mailbox, todo, transit, serving, answer, sent,
                 faults, accepted, confirmed>>

-----------------------------------------------------------------------------
RunnerThread(b) ==
  \/ CheckFlag(b) \/ Idle(b) \/ Take(b) \/ Send(b) \/ Return(b)
  \/ Finalize(b) \/ Exit(b)

ServerThread(b) == Serve(b) \/ Respond(b)

Next ==
  \/ \E b \in Agents :
       \/ RunnerThread(b) \/ ServerThread(b) \/ EndBody(b)
       \/ Crash(b) \/ Signal(b) \/ Restart(b)
  \/ \E c \in Clients :
       ClientReturn(c) \/ \E b \in Agents : ClientPost(c, b)
  \/ \E c \in Callers : LoseConnection(c)

Spec == Init /\ [][Next]_vars

\* Both threads of a process are scheduled.  Clients owe nothing, not even the
\* rest of a body, connections need not break, and nobody has to stop or restart a process.
Fairness ==
  \A b \in Agents : WF_vars(RunnerThread(b)) /\ WF_vars(ServerThread(b))

FairSpec == Spec /\ Fairness

-----------------------------------------------------------------------------
(* Properties.                                                             *)

TypeOK ==
  /\ phase \in [Agents -> {"serving", "closing", "closed", "exited", "crashed"}]
  /\ flag \in [Agents -> BOOLEAN]
  /\ pc \in [Agents -> {"check", "step", "send"}]
  /\ mailbox \in [Agents -> Seq(Messages)]
  /\ todo \in [Agents -> Seq(SendsTo)]
  /\ transit \in [Agents -> SUBSET Requests]
  /\ serving \in [Agents -> SUBSET [request: Requests, ok: BOOLEAN]]
  /\ answer \in [Callers -> {"idle", "waiting", "ok", "error"}]
  /\ sent \in [Callers -> Nat]
  /\ faults \in 0..MaxFaults
  /\ accepted \in [Agents -> Seq(Messages)]
  /\ received \in [Agents -> Seq(Messages)]
  /\ base \in [Agents -> Nat]
  /\ confirmed \in [Agents -> SUBSET [to: Agents, msg: Messages]]
  /\ late \in [Agents -> Nat]
  /\ \A b \in Agents : pc[b] = "send" <=> todo[b] # <<>>

\* The processes keep the promise of Channel, over HTTP, crashes and restarts:
\* an agent records a send as executed only if the peer's mailbox accepted it,
\* whatever breaks in between; no message is accepted twice, even when its
\* sender was told that it failed; what was accepted is received in that order,
\* nothing skipped but by a restart (client.rs:17-37, executor.rs:66-69,
\* server.rs:204-208, mailbox.rs:42-50, main.rs:390-403).
Transport == INSTANCE Channel WITH
  Mailboxes <- Agents,
  Letters   <- Messages,
  lost      <- base,
  confirmed <- UNION {{<<d.to, d.msg>> : d \in confirmed[a]} : a \in Agents}
ImplementsChannel == Transport!Spec

\* A message that its sender saw accepted is never overtaken by one it sent
\* later: that needs a broken connection, or a restart, in between.
ConfirmedInOrder ==
  \A b \in Agents : \A i, j \in DOMAIN accepted[b] :
    LET early == accepted[b][i]
        overtaken == accepted[b][j]
    IN  i < j /\ early.from = overtaken.from /\ overtaken.n < early.n
          /\ early.from \in Agents
          => [to |-> b, msg |-> overtaken] \notin confirmed[early.from]

\* Once it is told to stop a process takes at most one more message, however
\* many wait (main.rs:390).
StopsSoon == \A b \in Agents : late[b] <= 1

\* No server's thread is held up for ever by a body that does not end.
BodiesEnd == \A b \in Agents : []<>~Stalled(b)

\* No send blocks a runner for ever, not even when agents send to each other
\* at the same time, as servers answer while their runner waits; only a body
\* that does not end holds up a server and with it every agent that sends to
\* it (executor.rs:66-68, server.rs:88-107, 178-183).
CallsReturn ==
  BodiesEnd => \A a \in Agents : answer[a] = "waiting" ~> answer[a] # "waiting"

\* Accepted messages are received, or lost with the process, unless its runner
\* waits for such a server.
MailboxDrains == BodiesEnd => \A b \in Agents : mailbox[b] # <<>> ~> mailbox[b] = <<>>

\* A process that is told to stop comes to its end; again unless its runner
\* waits for a server that a body holds up (main.rs:384-423).
ShutdownEnds == BodiesEnd => \A b \in Agents : flag[b] ~> ~Alive(b)
=============================================================================

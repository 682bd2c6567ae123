---------------------------- MODULE DeliveryProofs ----------------------------
(***************************************************************************)
(* Theorems about Delivery, for any agents, clients, URLs and steps, and    *)
(* any number of faults.                                                   *)
(***************************************************************************)
EXTENDS Delivery, SequenceTheorems, TLAPS

-----------------------------------------------------------------------------
(* Types.                                                                  *)

LEMMA PutType ==
  ASSUME NEW A, NEW B, NEW f \in [A -> B], NEW x \in A, NEW v \in B
  PROVE  Put(f, x, v) \in [A -> B]
BY DEF Put

LEMMA MessageType ==
  ASSUME NEW r \in Requests, r.kind = "message"
  PROVE  Message(r.caller, r.n, r.topic) \in Messages
BY DEF Requests, Message, Messages

LEMMA TypeInit == Init => TypeOK
BY DeliveryAssumption DEF Init, TypeOK, Callers

LEMMA PostType ==
  ASSUME TypeOK, NEW c \in Callers, NEW b \in Agents, NEW r \in Requests,
         Post(c, b, r)
  PROVE  /\ transit' \in [Agents -> SUBSET Requests]
         /\ answer' \in [Callers -> {"idle", "waiting", "ok", "error"}]
         /\ sent' \in [Callers -> Nat]
<1>1. r.n \in Nat
  BY DEF Requests
<1>2. transit[b] \cup {r} \in SUBSET Requests
  BY DEF TypeOK
<1>3. sent' \in [Callers -> Nat]
  BY <1>1, PutType DEF TypeOK, Post
<1>4. transit' \in [Agents -> SUBSET Requests]
  <2>1. Put(transit, b, transit[b] \cup {r}) \in [Agents -> SUBSET Requests]
    BY <1>2, PutType DEF TypeOK
  <2> QED BY <2>1 DEF TypeOK, Post
<1>5. answer' \in [Callers -> {"idle", "waiting", "ok", "error"}]
  <2>1. /\ Put(answer, c, "waiting") \in [Callers -> {"idle", "waiting", "ok", "error"}]
        /\ Put(answer, c, "error") \in [Callers -> {"idle", "waiting", "ok", "error"}]
    BY PutType DEF TypeOK
  <2> QED BY <2>1 DEF TypeOK, Post
<1> QED BY <1>3, <1>4, <1>5

LEMMA GoneType ==
  ASSUME TypeOK, NEW b \in Agents, NEW how \in {"exited", "crashed"}, Gone(b, how),
         faults' \in 0..MaxFaults
  PROVE  TypeOK'
<1>1. /\ Put(transit, b, {}) \in [Agents -> SUBSET Requests]
      /\ Put(serving, b, {}) \in [Agents -> SUBSET [request: Requests, ok: BOOLEAN]]
  BY PutType DEF TypeOK
<1>2. /\ Put(mailbox, b, <<>>) \in [Agents -> Seq(Messages)]
      /\ Put(todo, b, <<>>) \in [Agents -> Seq(SendsTo)]
  BY PutType, EmptySeq DEF TypeOK
<1>3. /\ phase' \in [Agents -> {"serving", "closing", "closed", "exited", "crashed"}]
      /\ flag' \in [Agents -> BOOLEAN]
      /\ pc' \in [Agents -> {"check", "step", "send"}]
  BY PutType DEF TypeOK, Gone
<1>4. answer' \in [Callers -> {"idle", "waiting", "ok", "error"}]
  BY DEF TypeOK, Gone
<1>5. \A a \in Agents : pc'[a] = "send" <=> todo'[a] # <<>>
  BY DEF TypeOK, Gone, Put
<1> QED BY <1>1, <1>2, <1>3, <1>4, <1>5 DEF TypeOK, Gone

LEMMA TypeStep == TypeOK /\ [Next]_vars => TypeOK'
<1> SUFFICES ASSUME TypeOK, [Next]_vars PROVE TypeOK'
  OBVIOUS
<1>a. MaxFaults \in Nat /\ Agents \subseteq Callers /\ Clients \subseteq Callers
  BY DeliveryAssumption DEF Callers
<1>1. ASSUME NEW b \in Agents, CheckFlag(b) PROVE TypeOK'
  BY <1>1 DEF TypeOK, CheckFlag, At, Put
<1>2. ASSUME NEW b \in Agents, Idle(b) PROVE TypeOK'
  BY <1>2 DEF TypeOK, Idle, At, Put
<1>3. ASSUME NEW b \in Agents, Take(b) PROVE TypeOK'
  <2> DEFINE m == Head(mailbox[b])
  <2>1. /\ mailbox[b] \in Seq(Messages) /\ mailbox[b] # <<>>
        /\ received[b] \in Seq(Messages)
    BY <1>3 DEF TypeOK, Take
  <2>2. m \in Messages /\ Tail(mailbox[b]) \in Seq(Messages)
    BY <2>1, HeadTailProperties
  <2>3. Append(received[b], m) \in Seq(Messages)
    BY <2>1, <2>2, AppendProperties
  <2>4. PICK sends \in SendsOf[b][m.topic] :
          /\ todo' = Put(todo, b, sends)
          /\ pc' = Put(pc, b, IF sends = <<>> THEN "check" ELSE "send")
    BY <1>3 DEF Take
  <2>5. sends \in Seq(SendsTo)
    BY <2>2, DeliveryAssumption DEF Messages
  <2>6. /\ mailbox' \in [Agents -> Seq(Messages)]
        /\ received' \in [Agents -> Seq(Messages)]
        /\ todo' \in [Agents -> Seq(SendsTo)]
        /\ pc' \in [Agents -> {"check", "step", "send"}]
    BY ZenonT(40), <1>3, <2>2, <2>3, <2>4, <2>5, PutType DEF TypeOK, Take
  <2>7. late' \in [Agents -> Nat]
    <3>1. (IF flag[b] THEN late[b] + 1 ELSE 0) \in Nat
      BY DEF TypeOK
    <3> QED BY ZenonT(40), <1>3, <3>1, PutType DEF TypeOK, Take
  <2>8. \A a \in Agents : pc'[a] = "send" <=> todo'[a] # <<>>
    BY <2>4 DEF TypeOK, Put
  <2> QED BY <1>3, <2>6, <2>7, <2>8 DEF TypeOK, Take
<1>4. ASSUME NEW b \in Agents, Send(b) PROVE TypeOK'
  <2>1. Head(todo[b]) \in SendsTo
    BY <1>4, HeadTailProperties DEF TypeOK, Send, At
  <2>2. /\ transit' \in [Agents -> SUBSET Requests]
        /\ answer' \in [Callers -> {"idle", "waiting", "ok", "error"}]
        /\ sent' \in [Callers -> Nat]
    <3> DEFINE r == [kind |-> "message", caller |-> b, n |-> sent[b] + 1,
                     topic |-> Head(todo[b]).topic]
    <3>1. r \in Requests /\ Head(todo[b]).peer \in Agents
      <4>1. b \in Callers /\ sent[b] + 1 \in Nat
        BY <1>a DEF TypeOK
      <4>2. Head(todo[b]).peer \in Agents /\ Head(todo[b]).topic \in Topics
        BY <2>1 DEF SendsTo
      <4>3. r \in [kind: {"message", "garbled"}, caller: Callers, n: Nat, topic: Topics]
        BY <4>1, <4>2
      <4> QED BY <4>2, <4>3 DEF Requests
    <3>2. CASE Head(todo[b]).peer \in Urls[b]
      BY <1>4, <1>a, <3>1, <3>2, PostType DEF Send
    <3>3. CASE Head(todo[b]).peer \notin Urls[b]
      <4>1. /\ answer' = Put(answer, b, "error")
            /\ sent' = Put(sent, b, sent[b] + 1)
            /\ UNCHANGED transit
        BY <1>4, <3>3 DEF Send
      <4>2. b \in Callers /\ sent[b] + 1 \in Nat
        BY <1>a DEF TypeOK
      <4>3. answer' \in [Callers -> {"idle", "waiting", "ok", "error"}]
        BY <4>1, <4>2, PutType DEF TypeOK
      <4>4. sent' \in [Callers -> Nat]
        BY <4>1, <4>2, PutType DEF TypeOK
      <4> QED BY <4>1, <4>3, <4>4 DEF TypeOK
    <3> QED BY <3>2, <3>3
  <2> QED BY <1>4, <2>2 DEF TypeOK, Send
<1>5. ASSUME NEW b \in Agents, Return(b) PROVE TypeOK'
  <2>1. /\ todo[b] \in Seq(SendsTo) /\ todo[b] # <<>>
    BY <1>5 DEF TypeOK, Return, At
  <2>2. Head(todo[b]) \in SendsTo /\ Tail(todo[b]) \in Seq(SendsTo)
    BY <2>1, HeadTailProperties
  <2>3. [to |-> Head(todo[b]).peer, msg |-> Message(b, sent[b], Head(todo[b]).topic)]
          \in [to: Agents, msg: Messages]
    BY <1>a, <2>2 DEF TypeOK, SendsTo, Message, Messages
  <2> QED BY <1>5, <1>a, <2>2, <2>3 DEF TypeOK, Return, Put
<1>6. ASSUME NEW b \in Agents, Finalize(b) PROVE TypeOK'
  BY SMTT(40), <1>6 DEF TypeOK, Finalize, Put
<1>7. ASSUME NEW b \in Agents, Exit(b) PROVE TypeOK'
  BY <1>7, GoneType DEF TypeOK, Exit
<1>8. ASSUME NEW b \in Agents, Serve(b) PROVE TypeOK'
  <2>1. PICK r \in transit[b] :
          LET enqueued == r.kind = "message" /\ MailboxOpen(b)
              stopped == r.kind = "shutdown" /\ r.token
              m == Message(r.caller, r.n, r.topic)
          IN  /\ transit' = Put(transit, b, transit[b] \ {r})
              /\ mailbox' = IF enqueued THEN Put(mailbox, b, Append(mailbox[b], m)) ELSE mailbox
              /\ accepted' = IF enqueued THEN Put(accepted, b, Append(accepted[b], m)) ELSE accepted
              /\ flag' = IF stopped THEN Put(flag, b, TRUE) ELSE flag
              /\ serving' = Put(serving, b, {[request |-> r, ok |-> enqueued \/ stopped]})
    BY <1>8 DEF Serve
  <2>2. r \in Requests
    BY DEF TypeOK
  <2>3. transit' \in [Agents -> SUBSET Requests] /\ flag' \in [Agents -> BOOLEAN]
    BY <2>1 DEF TypeOK, Put
  <2>4. serving' \in [Agents -> SUBSET [request: Requests, ok: BOOLEAN]]
    <3>1. [request |-> r, ok |-> \/ r.kind = "message" /\ MailboxOpen(b)
                                 \/ r.kind = "shutdown" /\ r.token]
            \in [request: Requests, ok: BOOLEAN]
      BY <2>2
    <3>2. serving' = [serving EXCEPT ![b] =
            {[request |-> r, ok |-> \/ r.kind = "message" /\ MailboxOpen(b)
                                    \/ r.kind = "shutdown" /\ r.token]}]
      BY <2>1 DEF Put
    <3> QED BY <3>1, <3>2 DEF TypeOK
  <2>5. /\ mailbox' \in [Agents -> Seq(Messages)]
        /\ accepted' \in [Agents -> Seq(Messages)]
    <3>1. CASE r.kind = "message" /\ MailboxOpen(b)
      <4>1. Message(r.caller, r.n, r.topic) \in Messages
        BY <2>2, <3>1, MessageType
      <4>2. /\ Append(mailbox[b], Message(r.caller, r.n, r.topic)) \in Seq(Messages)
            /\ Append(accepted[b], Message(r.caller, r.n, r.topic)) \in Seq(Messages)
        BY <4>1, AppendProperties DEF TypeOK
      <4> QED BY <2>1, <3>1, <4>2 DEF TypeOK, Put
    <3>2. CASE ~(r.kind = "message" /\ MailboxOpen(b))
      BY <2>1, <3>2 DEF TypeOK
    <3> QED BY <3>1, <3>2
  <2> QED BY <1>8, <2>3, <2>4, <2>5 DEF TypeOK, Serve
<1>9. ASSUME NEW b \in Agents, Reply(b) PROVE TypeOK'
  BY <1>9 DEF TypeOK, Reply, Put
<1>10. ASSUME NEW b \in Agents, Crash(b) PROVE TypeOK'
  <2>1. faults' \in 0..MaxFaults
    BY <1>10, <1>a DEF TypeOK, Crash, Fault
  <2> QED BY <1>10, <2>1, GoneType DEF Crash
<1>11. ASSUME NEW b \in Agents, Signal(b) PROVE TypeOK'
  BY <1>11, <1>a DEF TypeOK, Signal, Fault, Put
<1>12. ASSUME NEW b \in Agents, Restart(b) PROVE TypeOK'
  <2>1. Len(accepted[b]) \in Nat
    BY LenProperties DEF TypeOK
  <2> QED BY <1>12, <2>1 DEF TypeOK, Restart, Put
<1>13. ASSUME NEW c \in Clients, ClientReturn(c) PROVE TypeOK'
  BY <1>13, <1>a DEF TypeOK, ClientReturn, Put
<1>14. ASSUME NEW c \in Clients, NEW b \in Agents, ClientPost(c, b) PROVE TypeOK'
  <2>1. sent[c] + 1 \in Nat
    BY <1>a DEF TypeOK
  <2>2. PICK r \in Requests : Post(c, b, r)
    <3>1. CASE \E k \in ClientKinds \ {"shutdown"}, t \in Topics :
                 Post(c, b, [kind |-> k, caller |-> c, n |-> sent[c] + 1, topic |-> t])
      BY <1>a, <2>1, <3>1, DeliveryAssumption DEF Requests
    <3>2. CASE \E good \in BOOLEAN :
                 Post(c, b, [kind |-> "shutdown", caller |-> c, n |-> sent[c] + 1,
                             token |-> good])
      BY <1>a, <2>1, <3>2 DEF Requests
    <3> QED BY <1>14, <3>1, <3>2 DEF ClientPost
  <2>3. /\ transit' \in [Agents -> SUBSET Requests]
        /\ answer' \in [Callers -> {"idle", "waiting", "ok", "error"}]
        /\ sent' \in [Callers -> Nat]
    BY <1>a, <2>2, PostType
  <2> QED BY <1>14, <2>3 DEF TypeOK, ClientPost
<1>15. ASSUME NEW c \in Callers, LoseConnection(c) PROVE TypeOK'
  BY SMTT(40), <1>15, <1>a DEF TypeOK, LoseConnection, Fault, Put
<1>16. CASE UNCHANGED vars
  BY <1>16 DEF TypeOK, vars
<1> QED
  BY <1>1, <1>2, <1>3, <1>4, <1>5, <1>6, <1>7, <1>8, <1>9, <1>10, <1>11, <1>12,
     <1>13, <1>14, <1>15, <1>16
  DEF Next, RunnerThread, ServerThread, Respond, EndBody

\* Every reachable state of the processes is well typed, and a runner is in the
\* middle of a step exactly as long as sends of it are left (main.rs:390-403).
THEOREM TypeCorrect == Spec => []TypeOK
BY TypeInit, TypeStep, PTL DEF Spec

-----------------------------------------------------------------------------
(* The invariant behind the promise of Channel: requests are numbered per    *)
(* caller, so that none is taken for an earlier one; a request under way has  *)
(* not been accepted; what a server will answer Ok, or has answered Ok, or a  *)
(* sender has recorded, was accepted; a mailbox holds the end of what it      *)
(* accepted.                                                                 *)

Letter(r) == Message(r.caller, r.n, r.topic)
Has(b, m) == \E i \in 1..Len(accepted[b]) : accepted[b][i] = m
UnderWay(b) == transit[b] \cup {s.request : s \in serving[b]}

NumberedInv ==
  \A b \in Agents :
    /\ \A m \in Messages : Has(b, m) => m.n <= sent[m.from]
    /\ \A r \in UnderWay(b) : r.n <= sent[r.caller]

NewInv ==
  \A b \in Agents : \A r \in transit[b] : r.kind = "message" => ~Has(b, Letter(r))

ServedInv ==
  \A b \in Agents : \A s \in serving[b] :
    s.ok /\ s.request.kind = "message" => Has(b, Letter(s.request))

\* The request a runner waits for is that of the send it is at.
CurrentSend(a, b, r) ==
  /\ r.kind = "message"
  /\ r.topic = Head(todo[a]).topic
  /\ b = Head(todo[a]).peer

CallOf(a) ==
  /\ pc[a] # "send" => answer[a] = "idle"
  /\ answer[a] = "waiting" =>
       \A b \in Agents : \A r \in UnderWay(b) :
         r.caller = a /\ r.n = sent[a] => CurrentSend(a, b, r)
  /\ answer[a] = "ok" =>
       Has(Head(todo[a]).peer, Message(a, sent[a], Head(todo[a]).topic))

CallInv == \A a \in Agents : CallOf(a)

ConfirmedInv ==
  \A a \in Agents : \A d \in confirmed[a] : d.msg.from = a /\ Has(d.to, d.msg)

QueueOf(b) ==
  /\ MailboxOpen(b) =>
       /\ Len(accepted[b]) = base[b] + Len(received[b]) + Len(mailbox[b])
       /\ \A i \in 1..Len(mailbox[b]) :
            mailbox[b][i] = accepted[b][base[b] + Len(received[b]) + i]
  /\ ~MailboxOpen(b) => mailbox[b] = <<>>

QueueInv == \A b \in Agents : QueueOf(b)

DeliveryInv ==
  TypeOK /\ NumberedInv /\ NewInv /\ ServedInv /\ CallInv /\ ConfirmedInv /\ QueueInv

-----------------------------------------------------------------------------
(* What the larger steps do to what the invariant reads.                     *)

\* A server accepts a message whose mailbox is open, and changes no mailbox
\* otherwise.
Accepts(b, r) ==
  /\ r.kind = "message" /\ MailboxOpen(b)
  /\ mailbox' = Put(mailbox, b, Append(mailbox[b], Letter(r)))
  /\ accepted' = Put(accepted, b, Append(accepted[b], Letter(r)))
  /\ serving' = Put(serving, b, {[request |-> r, ok |-> TRUE]})

Refuses(b, r, ok) ==
  /\ r.kind = "message" => ~ok
  /\ serving' = Put(serving, b, {[request |-> r, ok |-> ok]})
  /\ UNCHANGED <<mailbox, accepted>>

LEMMA ServeCases ==
  ASSUME TypeOK, NEW b \in Agents, Serve(b)
  PROVE  \E r \in transit[b] :
           /\ transit' = Put(transit, b, transit[b] \ {r})
           /\ Accepts(b, r) \/ \E ok \in BOOLEAN : Refuses(b, r, ok)
<1>1. PICK r \in transit[b] :
        LET enqueued == r.kind = "message" /\ MailboxOpen(b)
            stopped == r.kind = "shutdown" /\ r.token
            m == Message(r.caller, r.n, r.topic)
        IN  /\ transit' = Put(transit, b, transit[b] \ {r})
            /\ mailbox' = IF enqueued THEN Put(mailbox, b, Append(mailbox[b], m)) ELSE mailbox
            /\ accepted' = IF enqueued THEN Put(accepted, b, Append(accepted[b], m)) ELSE accepted
            /\ flag' = IF stopped THEN Put(flag, b, TRUE) ELSE flag
            /\ serving' = Put(serving, b, {[request |-> r, ok |-> enqueued \/ stopped]})
  BY DEF Serve
<1> DEFINE enqueued == r.kind = "message" /\ MailboxOpen(b)
           stopped == r.kind = "shutdown" /\ r.token
<1>2. CASE enqueued
  <2>1. (enqueued \/ stopped) = TRUE
    BY <1>2
  <2>2. serving' = Put(serving, b, {[request |-> r, ok |-> TRUE]})
    BY <1>1, <2>1
  <2>3. Accepts(b, r)
    BY <1>1, <1>2, <2>2 DEF Accepts, Letter
  <2> QED BY <1>1, <2>3
<1>3. CASE ~enqueued
  <2>1. (enqueued \/ stopped) \in BOOLEAN /\ (r.kind = "message" => ~(enqueued \/ stopped))
    BY <1>3
  <2>2. serving' = Put(serving, b, {[request |-> r, ok |-> (enqueued \/ stopped)]})
    BY <1>1
  <2>3. UNCHANGED <<mailbox, accepted>>
    BY <1>1, <1>3
  <2>4. Refuses(b, r, enqueued \/ stopped)
    BY <2>1, <2>2, <2>3 DEF Refuses
  <2> QED BY <1>1, <2>1, <2>4
<1> QED BY <1>2, <1>3

LEMMA HasGrows ==
  ASSUME TypeOK, NEW b \in Agents, NEW r \in Requests, Accepts(b, r)
  PROVE  /\ Letter(r) \in Messages
         /\ \A d \in Agents : \A m :
              Has(d, m)' <=> (Has(d, m) \/ (d = b /\ m = Letter(r)))
<1>1. Letter(r) \in Messages
  BY MessageType DEF Accepts, Letter
<1>2. accepted[b] \in Seq(Messages) /\ Len(accepted[b]) \in Nat
  BY LenProperties DEF TypeOK
<1>3. /\ accepted'[b] = Append(accepted[b], Letter(r))
      /\ \A d \in Agents \ {b} : accepted'[d] = accepted[d]
  BY DEF TypeOK, Accepts, Put
<1>4. /\ Len(accepted'[b]) = Len(accepted[b]) + 1
      /\ \A i \in 1..Len(accepted[b]) : accepted'[b][i] = accepted[b][i]
      /\ accepted'[b][Len(accepted[b]) + 1] = Letter(r)
  BY <1>1, <1>2, <1>3, AppendProperties
<1>5. ASSUME NEW m PROVE Has(b, m)' <=> (Has(b, m) \/ m = Letter(r))
  <2>1. ASSUME Has(b, m)' PROVE Has(b, m) \/ m = Letter(r)
    <3>1. PICK i \in 1..(Len(accepted[b]) + 1) : accepted'[b][i] = m
      BY <1>4, <2>1 DEF Has
    <3>2. CASE i \in 1..Len(accepted[b])
      BY <1>4, <3>1, <3>2 DEF Has
    <3>3. CASE i = Len(accepted[b]) + 1
      BY <1>4, <3>1, <3>3
    <3> QED BY <1>2, <3>2, <3>3
  <2>2. ASSUME Has(b, m) PROVE Has(b, m)'
    <3>1. PICK i \in 1..Len(accepted[b]) : accepted[b][i] = m
      BY <2>2 DEF Has
    <3>2. i \in 1..Len(accepted'[b]) /\ accepted'[b][i] = m
      BY <1>2, <1>4, <3>1
    <3> QED BY <3>2 DEF Has
  <2>3. ASSUME m = Letter(r) PROVE Has(b, m)'
    <3>1. Len(accepted[b]) + 1 \in 1..Len(accepted'[b])
      BY <1>2, <1>4
    <3> QED BY <1>4, <2>3, <3>1 DEF Has
  <2> QED BY <2>1, <2>2, <2>3
<1>6. ASSUME NEW d \in Agents \ {b}, NEW m PROVE Has(d, m)' <=> Has(d, m)
  BY <1>3 DEF Has
<1> QED BY <1>1, <1>5, <1>6

\* A request that is posted is new.
Posts(c, b, r) == r.caller = c /\ r.n = sent[c] + 1 /\ Post(c, b, r)

LEMMA PostCases ==
  ASSUME TypeOK, NEW c \in Callers, NEW b \in Agents, NEW r \in Requests, Posts(c, b, r)
  PROVE  /\ sent' = Put(sent, c, sent[c] + 1)
         /\ answer[c] = "idle"
         /\ \/ /\ transit' = Put(transit, b, transit[b] \cup {r})
               /\ answer' = Put(answer, c, "waiting")
            \/ answer' = Put(answer, c, "error") /\ UNCHANGED transit
BY DEF Posts, Post

LEMMA ClientPostCases ==
  ASSUME TypeOK, NEW c \in Clients, NEW b \in Agents, ClientPost(c, b)
  PROVE  /\ c \in Callers
         /\ \E r \in Requests : Posts(c, b, r)
         /\ UNCHANGED <<phase, pc, mailbox, todo, serving, accepted, received, base, confirmed>>
<1>1. c \in Callers /\ sent[c] + 1 \in Nat
  BY DEF TypeOK, Callers
<1>2. ASSUME \E k \in ClientKinds \ {"shutdown"}, t \in Topics :
               Post(c, b, [kind |-> k, caller |-> c, n |-> sent[c] + 1, topic |-> t])
      PROVE  \E r \in Requests : Posts(c, b, r)
  BY <1>1, <1>2, DeliveryAssumption DEF Requests, Posts
<1>3. ASSUME \E good \in BOOLEAN :
               Post(c, b, [kind |-> "shutdown", caller |-> c, n |-> sent[c] + 1,
                           token |-> good])
      PROVE  \E r \in Requests : Posts(c, b, r)
  BY <1>1, <1>3 DEF Requests, Posts
<1> QED BY <1>1, <1>2, <1>3 DEF ClientPost

LEMMA SendCases ==
  ASSUME TypeOK, NEW a \in Agents, Send(a)
  PROVE  /\ a \in Callers /\ Head(todo[a]) \in SendsTo /\ pc[a] = "send"
         /\ \/ \E r \in Requests :
                 /\ Posts(a, Head(todo[a]).peer, r)
                 /\ r.kind = "message" /\ r.topic = Head(todo[a]).topic
            \/ /\ answer[a] = "idle" /\ answer' = Put(answer, a, "error")
               /\ sent' = Put(sent, a, sent[a] + 1)
               /\ UNCHANGED transit
         /\ UNCHANGED <<phase, pc, mailbox, todo, serving, accepted, received, base, confirmed>>
<1>1. a \in Callers /\ sent[a] + 1 \in Nat
  BY DEF TypeOK, Callers
<1>2. Head(todo[a]) \in SendsTo /\ pc[a] = "send"
  BY HeadTailProperties DEF TypeOK, Send, At
<1>5. UNCHANGED <<phase, pc, mailbox, todo, serving, accepted, received, base, confirmed>>
  BY DEF Send
<1> DEFINE q == [kind |-> "message", caller |-> a, n |-> sent[a] + 1,
                 topic |-> Head(todo[a]).topic]
<1>3. CASE Head(todo[a]).peer \in Urls[a]
  <2>1. Head(todo[a]).topic \in Topics
    BY <1>2 DEF SendsTo
  <2>2. q \in [kind: {"message", "garbled"}, caller: Callers, n: Nat, topic: Topics]
    BY <1>1, <2>1
  <2>3. q \in Requests
    BY <2>2 DEF Requests
  <2>4. Posts(a, Head(todo[a]).peer, q)
    BY <1>3 DEF Send, Posts
  <2>5. q.kind = "message" /\ q.topic = Head(todo[a]).topic
    OBVIOUS
  <2> HIDE DEF q
  <2> QED BY <1>1, <1>2, <1>5, <2>3, <2>4, <2>5
<1>4. CASE Head(todo[a]).peer \notin Urls[a]
  <2>1. /\ answer[a] = "idle" /\ answer' = Put(answer, a, "error")
        /\ sent' = Put(sent, a, sent[a] + 1)
        /\ UNCHANGED transit
    BY <1>4 DEF Send
  <2> HIDE DEF q
  <2> QED BY <1>1, <1>2, <1>5, <2>1
<1> QED BY <1>3, <1>4

\* Every other step takes requests away, if it touches them.
NoUrl(a) ==
  /\ pc[a] = "send" /\ answer[a] = "idle"
  /\ answer' = Put(answer, a, "error")
  /\ sent' = Put(sent, a, sent[a] + 1)
  /\ UNCHANGED <<phase, pc, mailbox, todo, transit, serving, accepted, received, base,
                 confirmed>>

Posted(c, b, r) ==
  /\ Posts(c, b, r)
  /\ c \in Agents => pc[c] = "send" /\ CurrentSend(c, b, r)
  /\ UNCHANGED <<phase, pc, mailbox, todo, serving, accepted, received, base, confirmed>>

Quiet ==
  /\ UNCHANGED <<accepted, sent>>
  /\ \A d \in Agents : transit'[d] \subseteq transit[d] /\ serving'[d] \subseteq serving[d]

LEMMA QuietSteps ==
  ASSUME TypeOK
  PROVE  /\ \A b \in Agents :
              CheckFlag(b) \/ Idle(b) \/ Take(b) \/ Return(b) \/ Finalize(b)
                \/ Signal(b) \/ Restart(b) => Quiet
         /\ \A b \in Agents : Reply(b) => Quiet
         /\ \A b \in Agents : Exit(b) \/ Crash(b) => Quiet
         /\ \A c \in Clients : ClientReturn(c) => Quiet
         /\ \A c \in Callers : LoseConnection(c) => Quiet
<1>1. ASSUME UNCHANGED <<accepted, sent, transit, serving>> PROVE Quiet
  BY <1>1 DEF Quiet
<1>2. ASSUME NEW b \in Agents,
             CheckFlag(b) \/ Idle(b) \/ Take(b) \/ Return(b) \/ Finalize(b)
               \/ Signal(b) \/ Restart(b)
      PROVE  Quiet
  BY <1>1, <1>2 DEF CheckFlag, Idle, Take, Return, Finalize, Signal, Restart
<1>3. ASSUME NEW b \in Agents, Reply(b) PROVE Quiet
  BY <1>3 DEF Reply, Quiet, TypeOK, Put
<1>4. ASSUME NEW b \in Agents, Exit(b) \/ Crash(b) PROVE Quiet
  BY ZenonT(40), <1>4 DEF Exit, Crash, Gone, Quiet, TypeOK, Put
<1>5. ASSUME NEW c \in Clients, ClientReturn(c) PROVE Quiet
  BY <1>1, <1>5 DEF ClientReturn
<1>6. ASSUME NEW c \in Callers, LoseConnection(c) PROVE Quiet
  BY <1>6 DEF LoseConnection, Quiet, TypeOK
<1> QED BY <1>2, <1>3, <1>4, <1>5, <1>6

LEMMA StepCases ==
  ASSUME TypeOK, [Next]_vars
  PROVE  \/ \E b \in Agents : Serve(b)
         \/ \E c \in Callers, b \in Agents, r \in Requests : Posted(c, b, r)
         \/ \E a \in Agents : NoUrl(a)
         \/ Quiet
<1> DEFINE Goal == \/ \E b \in Agents : Serve(b)
                   \/ \E c \in Callers, b \in Agents, r \in Requests : Posted(c, b, r)
                   \/ \E a \in Agents : NoUrl(a)
                   \/ Quiet
<1>1. ASSUME NEW c \in Clients, NEW b \in Agents, ClientPost(c, b) PROVE Goal
  <2>1. c \in Callers /\ c \notin Agents
    BY DeliveryAssumption DEF Callers
  <2>2. PICK r \in Requests : Posts(c, b, r)
    BY <1>1, ClientPostCases
  <2>3. Posted(c, b, r)
    BY <1>1, <2>1, <2>2, ClientPostCases DEF Posted
  <2> QED BY <2>1, <2>3
<1>2. ASSUME NEW a \in Agents, Send(a) PROVE Goal
  <2>1. a \in Callers /\ Head(todo[a]) \in SendsTo /\ pc[a] = "send"
    BY <1>2, SendCases
  <2>2. UNCHANGED <<phase, pc, mailbox, todo, serving, accepted, received, base, confirmed>>
    BY <1>2, SendCases
  <2>3. ASSUME NEW r \in Requests, Posts(a, Head(todo[a]).peer, r),
               r.kind = "message" /\ r.topic = Head(todo[a]).topic
        PROVE  Goal
    <3>1. Head(todo[a]).peer \in Agents
      BY <2>1 DEF SendsTo
    <3>2. Posted(a, Head(todo[a]).peer, r)
      BY <2>1, <2>2, <2>3 DEF Posted, CurrentSend
    <3> QED BY <2>1, <3>1, <3>2
  <2>4. ASSUME answer[a] = "idle", answer' = Put(answer, a, "error"),
               sent' = Put(sent, a, sent[a] + 1), UNCHANGED transit
        PROVE  Goal
    BY <2>1, <2>2, <2>4 DEF NoUrl
  <2> QED BY <1>2, <2>3, <2>4, SendCases
<1>3. ASSUME UNCHANGED vars PROVE Goal
  BY <1>3 DEF vars, Quiet
<1> HIDE DEF Goal
<1>4. ASSUME Quiet PROVE Goal
  BY <1>4 DEF Goal
<1>5. ASSUME NEW b \in Agents, Serve(b) PROVE Goal
  BY <1>5 DEF Goal
<1>6. ASSUME NEW b \in Agents, RunnerThread(b) PROVE Goal
  BY <1>2, <1>4, <1>6, QuietSteps DEF RunnerThread
<1>7. ASSUME NEW b \in Agents,
             ServerThread(b) \/ EndBody(b) \/ Crash(b) \/ Signal(b) \/ Restart(b)
      PROVE  Goal
  BY <1>4, <1>5, <1>7, QuietSteps DEF ServerThread, Respond, EndBody
<1>8. ASSUME NEW c \in Clients, ClientReturn(c) PROVE Goal
  BY <1>4, <1>8, QuietSteps
<1>9. ASSUME NEW c \in Callers, LoseConnection(c) PROVE Goal
  BY <1>4, <1>9, QuietSteps
<1>10. Goal
  BY <1>1, <1>3, <1>6, <1>7, <1>8, <1>9 DEF Next
<1> QED BY <1>10 DEF Goal

-----------------------------------------------------------------------------
(* Numbers, new requests, answers of the servers.                            *)

LEMMA RequestFacts ==
  ASSUME TypeOK, NEW b \in Agents, NEW r \in UnderWay(b)
  PROVE  r \in Requests /\ r.n \in Nat /\ r.caller \in Callers
<1>1. r \in Requests
  BY DEF TypeOK, UnderWay
<1> QED BY <1>1 DEF Requests

LEMMA ServeUnderWay ==
  ASSUME TypeOK, NEW b \in Agents, Serve(b)
  PROVE  \A d \in Agents : UnderWay(d)' \subseteq UnderWay(d)
<1>1. PICK r \in transit[b], ok \in BOOLEAN :
        /\ transit' = Put(transit, b, transit[b] \ {r})
        /\ serving' = Put(serving, b, {[request |-> r, ok |-> ok]})
  BY ServeCases DEF Accepts, Refuses
<1>2. /\ transit'[b] \subseteq transit[b]
      /\ serving'[b] = {[request |-> r, ok |-> ok]}
      /\ \A d \in Agents \ {b} : transit'[d] = transit[d] /\ serving'[d] = serving[d]
  BY <1>1 DEF TypeOK, Put
<1>3. UnderWay(b)' \subseteq UnderWay(b)
  <2>1. {s.request : s \in serving'[b]} = {r}
    BY <1>2
  <2> QED BY <1>2, <2>1 DEF UnderWay
<1>4. \A d \in Agents \ {b} : UnderWay(d)' = UnderWay(d)
  BY <1>2 DEF UnderWay
<1> QED BY <1>3, <1>4

LEMMA PostUnderWay ==
  ASSUME TypeOK, NEW c \in Callers, NEW b \in Agents, NEW r \in Requests, Posted(c, b, r)
  PROVE  \A d \in Agents : \A q \in UnderWay(d)' :
           q \in UnderWay(d) \/ (d = b /\ q = r)
<1>1. transit' = Put(transit, b, transit[b] \cup {r}) \/ UNCHANGED transit
  BY PostCases DEF Posted
<1>2. \A d \in Agents : \A q \in transit'[d] : q \in transit[d] \/ (d = b /\ q = r)
  BY SMTT(40), <1>1 DEF TypeOK, Put
<1> QED BY <1>2 DEF UnderWay, Posted

LEMMA NumberedStep ==
  ASSUME TypeOK, NumberedInv, [Next]_vars
  PROVE  NumberedInv'
<1>1. ASSUME NEW b \in Agents, Serve(b) PROVE NumberedInv'
  <2>1. UNCHANGED sent
    BY <1>1 DEF Serve
  <2>2. \A d \in Agents : \A r \in UnderWay(d)' : r.n <= sent'[r.caller]
    BY <1>1, <2>1, ServeUnderWay DEF NumberedInv
  <2>3. ASSUME NEW r \in transit[b], Accepts(b, r)
        PROVE  \A d \in Agents : \A m \in Messages : Has(d, m)' => m.n <= sent'[m.from]
    <3>1. r \in Requests /\ r \in UnderWay(b)
      BY DEF TypeOK, UnderWay
    <3>2. Letter(r).n = r.n /\ Letter(r).from = r.caller
      BY DEF Letter, Message
    <3> QED BY <2>1, <2>3, <3>1, <3>2, HasGrows DEF NumberedInv
  <2>4. ASSUME UNCHANGED accepted
        PROVE  \A d \in Agents : \A m \in Messages : Has(d, m)' => m.n <= sent'[m.from]
    BY <2>1, <2>4 DEF NumberedInv, Has
  <2>5. \A d \in Agents : \A m \in Messages : Has(d, m)' => m.n <= sent'[m.from]
    BY <1>1, <2>3, <2>4, ServeCases DEF Refuses
  <2> QED BY <2>2, <2>5 DEF NumberedInv
<1>2. ASSUME NEW c \in Callers, UNCHANGED accepted,
             sent' = Put(sent, c, sent[c] + 1)
      PROVE  /\ \A d \in Agents : \A m \in Messages : Has(d, m)' => m.n <= sent'[m.from]
             /\ \A d \in Agents : \A r \in UnderWay(d) : r.n <= sent'[r.caller]
             /\ sent'[c] = sent[c] + 1
  <2>1. \A e \in Callers : sent[e] \in Nat /\ sent'[e] \in Nat /\ sent[e] <= sent'[e]
    BY <1>2 DEF TypeOK, Put
  <2>2. \A m \in Messages : m.n \in Nat /\ m.from \in Callers
    BY DEF Messages
  <2>3. \A d \in Agents : \A m \in Messages : Has(d, m)' => m.n <= sent'[m.from]
    BY <1>2, <2>1, <2>2 DEF NumberedInv, Has
  <2>4. \A d \in Agents : \A r \in UnderWay(d) : r.n <= sent'[r.caller]
    BY <2>1, RequestFacts DEF NumberedInv
  <2>5. sent'[c] = sent[c] + 1
    BY <1>2 DEF TypeOK, Put
  <2> QED BY <2>3, <2>4, <2>5
<1>3. ASSUME NEW c \in Callers, NEW b \in Agents, NEW r \in Requests, Posted(c, b, r)
      PROVE  NumberedInv'
  <2>1. sent' = Put(sent, c, sent[c] + 1) /\ UNCHANGED accepted
    BY <1>3, PostCases DEF Posted
  <2>2. r.n = sent[c] + 1 /\ r.caller = c /\ sent[c] \in Nat
    BY <1>3 DEF Posted, Posts, TypeOK
  <2>3. \A d \in Agents : \A q \in UnderWay(d)' : q.n <= sent'[q.caller]
    <3>1. r.n <= sent'[r.caller]
      BY <1>2, <2>1, <2>2
    <3> QED BY <1>2, <1>3, <2>1, <3>1, PostUnderWay
  <2> QED BY <1>2, <2>1, <2>3 DEF NumberedInv
<1>4. ASSUME NEW a \in Agents, NoUrl(a) PROVE NumberedInv'
  <2>1. a \in Callers
    BY DEF Callers
  <2>2. \A d \in Agents : UnderWay(d)' = UnderWay(d)
    BY <1>4 DEF NoUrl, UnderWay
  <2> QED BY <1>2, <1>4, <2>1, <2>2 DEF NumberedInv, NoUrl
<1>5. CASE Quiet
  <2>1. \A d \in Agents : UnderWay(d)' \subseteq UnderWay(d)
    BY <1>5 DEF Quiet, UnderWay
  <2> QED BY <1>5, <2>1 DEF NumberedInv, Quiet, Has
<1> QED BY <1>1, <1>3, <1>4, <1>5, StepCases

LEMMA SameRequest ==
  ASSUME NEW q \in Requests, NEW r \in Requests, q.kind = "message", r.kind = "message",
         Letter(q) = Letter(r)
  PROVE  q = r
<1>1. q.caller = r.caller /\ q.n = r.n /\ q.topic = r.topic
  BY DEF Letter, Message
<1>2. /\ q \in [kind: {"message", "garbled"}, caller: Callers, n: Nat, topic: Topics]
      /\ r \in [kind: {"message", "garbled"}, caller: Callers, n: Nat, topic: Topics]
  BY DEF Requests
<1> QED BY <1>1, <1>2

LEMMA NewStep ==
  ASSUME TypeOK, NumberedInv, NewInv, [Next]_vars
  PROVE  NewInv'
<1>1. ASSUME NEW b \in Agents, Serve(b) PROVE NewInv'
  <2>1. PICK r \in transit[b] :
          /\ transit' = Put(transit, b, transit[b] \ {r})
          /\ Accepts(b, r) \/ \E ok \in BOOLEAN : Refuses(b, r, ok)
    BY <1>1, ServeCases
  <2>2. /\ \A d \in Agents : transit'[d] \subseteq transit[d]
        /\ r \notin transit'[b]
    BY <2>1 DEF TypeOK, Put
  <2>3. CASE Accepts(b, r)
    <3>1. r \in Requests /\ r.kind = "message"
      BY <2>3 DEF TypeOK, Accepts
    <3>2. ASSUME NEW d \in Agents, NEW q \in transit'[d], q.kind = "message"
          PROVE  ~Has(d, Letter(q))'
      <4>1. q \in transit[d] /\ q \in Requests /\ ~Has(d, Letter(q))
        BY <2>2, <3>2 DEF TypeOK, NewInv
      <4>2. d = b => Letter(q) # Letter(r)
        BY <2>2, <3>1, <3>2, <4>1, SameRequest
      <4> QED BY <2>3, <3>1, <4>1, <4>2, HasGrows
    <3> QED BY <3>2 DEF NewInv, Letter
  <2>4. CASE UNCHANGED accepted
    BY <2>2, <2>4 DEF NewInv, Has, Letter
  <2> QED BY <2>1, <2>3, <2>4 DEF Refuses
<1>2. ASSUME NEW c \in Callers, NEW b \in Agents, NEW r \in Requests, Posted(c, b, r)
      PROVE  NewInv'
  <2>1. /\ transit' = Put(transit, b, transit[b] \cup {r}) \/ UNCHANGED transit
        /\ UNCHANGED accepted
    BY <1>2, PostCases DEF Posted
  <2>2. \A d \in Agents : \A q \in transit'[d] : q \in transit[d] \/ q = r
    <3>1. transit \in [Agents -> SUBSET Requests]
      BY DEF TypeOK
    <3>2. \A d \in Agents : Put(transit, b, transit[b] \cup {r})[d] \subseteq transit[d] \cup {r}
      BY <3>1 DEF Put
    <3> QED BY <2>1, <3>2
  <2>3. r.kind = "message" => \A d \in Agents : ~Has(d, Letter(r))
    <3>1. ASSUME r.kind = "message", NEW d \in Agents, Has(d, Letter(r)) PROVE FALSE
      <4>1. Letter(r) \in Messages /\ Letter(r).n = r.n /\ Letter(r).from = r.caller
        BY <3>1, MessageType DEF Letter, Message
      <4>2. r.n <= sent[r.caller]
        BY <3>1, <4>1 DEF NumberedInv
      <4>3. r.n = sent[c] + 1 /\ r.caller = c /\ sent[c] \in Nat
        BY <1>2 DEF Posted, Posts, TypeOK
      <4> QED BY <4>2, <4>3
    <3> QED BY <3>1
  <2>4. \A d \in Agents : \A m : Has(d, m)' <=> Has(d, m)
    BY <2>1 DEF Has
  <2> QED BY <2>2, <2>3, <2>4 DEF NewInv, Letter
<1>3. ASSUME NEW a \in Agents, NoUrl(a) PROVE NewInv'
  BY <1>3 DEF NoUrl, NewInv, Has, Letter
<1>4. CASE Quiet
  BY <1>4 DEF Quiet, NewInv, Has, Letter
<1> QED BY <1>1, <1>2, <1>3, <1>4, StepCases

LEMMA ServedStep ==
  ASSUME TypeOK, ServedInv, [Next]_vars
  PROVE  ServedInv'
<1>1. ASSUME NEW b \in Agents, Serve(b) PROVE ServedInv'
  <2>1. PICK r \in transit[b] : Accepts(b, r) \/ \E ok \in BOOLEAN : Refuses(b, r, ok)
    BY <1>1, ServeCases
  <2>2. r \in Requests
    BY DEF TypeOK
  <2>3. CASE Accepts(b, r)
    <3>1. \A d \in Agents : \A m : Has(d, m) => Has(d, m)'
      BY <2>2, <2>3, HasGrows
    <3>2. Has(b, Letter(r))'
      BY <2>2, <2>3, HasGrows
    <3>3. /\ serving'[b] = {[request |-> r, ok |-> TRUE]}
          /\ \A d \in Agents \ {b} : serving'[d] = serving[d]
      BY <2>3 DEF Accepts, TypeOK, Put
    <3>4. ASSUME NEW d \in Agents, NEW s \in serving'[d], s.ok, s.request.kind = "message"
          PROVE  Has(d, Letter(s.request))'
      <4>1. CASE d = b
        BY <3>2, <3>3, <4>1
      <4>2. CASE d # b
        BY <3>1, <3>3, <3>4, <4>2 DEF ServedInv
      <4> QED BY <4>1, <4>2
    <3> QED BY <3>4 DEF ServedInv, Letter
  <2>4. ASSUME NEW ok \in BOOLEAN, Refuses(b, r, ok) PROVE ServedInv'
    <3>1. /\ serving'[b] = {[request |-> r, ok |-> ok]}
          /\ \A d \in Agents \ {b} : serving'[d] = serving[d]
      <4>1. serving \in [Agents -> SUBSET [request: Requests, ok: BOOLEAN]]
        BY DEF TypeOK
      <4>2. serving' = Put(serving, b, {[request |-> r, ok |-> ok]})
        BY <2>4 DEF Refuses
      <4> QED BY <4>1, <4>2 DEF Put
    <3>2. \A d \in Agents : \A m : Has(d, m)' <=> Has(d, m)
      BY <2>4 DEF Refuses, Has
    <3>3. ASSUME NEW d \in Agents, NEW s \in serving'[d], s.ok, s.request.kind = "message"
          PROVE  Has(d, Letter(s.request))'
      <4>1. d # b
        <5>1. ASSUME d = b PROVE FALSE
          <6>1. s.ok = ok /\ s.request = r
            BY <3>1, <5>1
          <6> QED BY <2>4, <3>3, <6>1 DEF Refuses
        <5> QED BY <5>1
      <4> QED BY <3>1, <3>2, <3>3, <4>1 DEF ServedInv
    <3> QED BY <3>3 DEF ServedInv, Letter
  <2> QED BY <2>1, <2>3, <2>4
<1>2. ASSUME UNCHANGED accepted, \A d \in Agents : serving'[d] \subseteq serving[d]
      PROVE  ServedInv'
  BY <1>2 DEF ServedInv, Has, Letter
<1>3. ASSUME NEW c \in Callers, NEW b \in Agents, NEW r \in Requests, Posted(c, b, r)
      PROVE  ServedInv'
  BY <1>2, <1>3 DEF Posted
<1>4. ASSUME NEW a \in Agents, NoUrl(a) PROVE ServedInv'
  BY <1>2, <1>4 DEF NoUrl
<1>5. CASE Quiet
  BY <1>2, <1>5 DEF Quiet
<1> QED BY <1>1, <1>3, <1>4, <1>5, StepCases

LEMMA HasStays ==
  ASSUME TypeOK, [Next]_vars, NEW d \in Agents, NEW m, Has(d, m)
  PROVE  Has(d, m)'
<1>1. ASSUME NEW b \in Agents, Serve(b) PROVE Has(d, m)'
  <2>1. PICK r \in transit[b] : Accepts(b, r) \/ \E ok \in BOOLEAN : Refuses(b, r, ok)
    BY <1>1, ServeCases
  <2>2. r \in Requests
    BY DEF TypeOK
  <2>3. CASE Accepts(b, r)
    BY <2>2, <2>3, HasGrows
  <2>4. CASE UNCHANGED accepted
    BY <2>4 DEF Has
  <2> QED BY <2>1, <2>3, <2>4 DEF Refuses
<1>2. ASSUME UNCHANGED accepted PROVE Has(d, m)'
  BY <1>2 DEF Has
<1> QED BY <1>1, <1>2, StepCases DEF Posted, NoUrl, Quiet

-----------------------------------------------------------------------------
(* The call a runner waits for.                                              *)

LEMMA CallKept ==
  ASSUME TypeOK, [Next]_vars, NEW a \in Agents, CallOf(a),
         pc'[a] = pc[a], answer'[a] = answer[a], todo'[a] = todo[a], sent'[a] = sent[a],
         \A d \in Agents : \A q \in UnderWay(d)' : q \in UnderWay(d) \/ q.caller # a
  PROVE  CallOf(a)'
<1>1. pc'[a] # "send" => answer'[a] = "idle"
  BY DEF CallOf
<1>2. ASSUME answer'[a] = "waiting", NEW b \in Agents, NEW r \in UnderWay(b)',
             r.caller = a, r.n = sent'[a]
      PROVE  CurrentSend(a, b, r)'
  <2>1. CurrentSend(a, b, r)
    BY <1>2 DEF CallOf
  <2> QED BY <2>1 DEF CurrentSend
<1>3. ASSUME answer'[a] = "ok"
      PROVE  Has(Head(todo[a]).peer, Message(a, sent[a], Head(todo[a]).topic))'
  <2>1. Head(todo[a]).peer \in Agents
    <3>1. todo[a] # <<>> /\ todo[a] \in Seq(SendsTo)
      BY <1>3 DEF CallOf, TypeOK
    <3>2. Head(todo[a]) \in SendsTo
      BY <3>1, HeadTailProperties
    <3> QED BY <3>2 DEF SendsTo
  <2>2. PICK d \in Agents, m \in {Message(a, sent[a], Head(todo[a]).topic)} :
          d = Head(todo[a]).peer /\ m = Message(a, sent[a], Head(todo[a]).topic)
    BY <2>1
  <2>3. Has(d, m)
    BY <1>3, <2>2 DEF CallOf
  <2>4. \E i \in 1..Len(accepted'[d]) : accepted'[d][i] = m
    BY <2>3, HasStays DEF Has
  <2>5. d = Head(todo'[a]).peer /\ m = Message(a, sent'[a], Head(todo'[a]).topic)
    BY <2>2
  <2> QED BY <2>4, <2>5 DEF Has, Message
<1> QED BY <1>1, <1>2, <1>3 DEF CallOf

LEMMA CallSettled ==
  ASSUME NEW a \in Agents,
         answer'[a] = "idle" \/ (answer'[a] = "error" /\ pc'[a] = "send")
  PROVE  CallOf(a)'
BY DEF CallOf

LEMMA CallStep ==
  ASSUME TypeOK, NumberedInv, ServedInv, CallInv, [Next]_vars
  PROVE  CallInv'
<1> SUFFICES ASSUME NEW a \in Agents PROVE CallOf(a)'
  BY DEF CallInv
<1>a. CallOf(a) /\ a \in Callers /\ a \notin Clients
  BY DeliveryAssumption DEF CallInv, Callers
<1>1. ASSUME UNCHANGED <<pc, answer, todo, sent>>,
             \A d \in Agents : UnderWay(d)' \subseteq UnderWay(d)
      PROVE  CallOf(a)'
  BY <1>1, <1>a, CallKept
<1>2. ASSUME NEW b \in Agents, CheckFlag(b) \/ Idle(b) \/ Take(b) PROVE CallOf(a)'
  <2>1. UNCHANGED <<answer, sent, transit, serving>> /\ pc[b] # "send"
    BY <1>2 DEF CheckFlag, Idle, Take, At
  <2>2. CASE a = b
    <3>1. answer'[a] = "idle"
      BY <1>a, <2>1, <2>2 DEF CallOf
    <3> QED BY <3>1, CallSettled
  <2>3. CASE a # b
    <3>1. pc'[a] = pc[a] /\ todo'[a] = todo[a]
      BY <1>2, <2>3 DEF CheckFlag, Idle, Take, TypeOK, Put
    <3>2. \A d \in Agents : UnderWay(d)' = UnderWay(d)
      BY <2>1 DEF UnderWay
    <3> QED BY <1>a, <2>1, <3>1, <3>2, CallKept
  <2> QED BY <2>2, <2>3
<1>3. ASSUME NEW c \in Callers, NEW b \in Agents, NEW r \in Requests, Posted(c, b, r)
      PROVE  CallOf(a)'
  <2>1. /\ sent' = Put(sent, c, sent[c] + 1)
        /\ answer' \in {Put(answer, c, "waiting"), Put(answer, c, "error")}
    BY <1>3, PostCases DEF Posted
  <2>2. UNCHANGED <<pc, todo>> /\ r.caller = c /\ r.n = sent[c] + 1
    BY <1>3 DEF Posted, Posts
  <2>3. \A d \in Agents : \A q \in UnderWay(d)' : q \in UnderWay(d) \/ (d = b /\ q = r)
    BY <1>3, PostUnderWay
  <2>4. CASE a = c
    <3>1. CurrentSend(a, b, r) /\ pc[a] = "send"
      BY <1>3, <2>4 DEF Posted
    <3>2. sent'[a] = sent[a] + 1 /\ sent[a] \in Nat
      BY <1>a, <2>1, <2>4 DEF TypeOK, Put
    <3>3. answer'[a] \in {"waiting", "error"}
      BY <1>a, <2>1, <2>4 DEF TypeOK, Put
    <3>4. ASSUME NEW d \in Agents, NEW q \in UnderWay(d)', q.caller = a, q.n = sent'[a]
          PROVE  CurrentSend(a, d, q)'
      <4>1. CASE q \in UnderWay(d)
        <5>1. q.n <= sent[a] /\ q.n \in Nat
          BY <3>4, <4>1, RequestFacts DEF NumberedInv
        <5> QED BY <3>2, <3>4, <5>1
      <4>2. CASE d = b /\ q = r
        BY <2>2, <3>1, <4>2 DEF CurrentSend
      <4> QED BY <2>3, <4>1, <4>2
    <3> QED BY <2>2, <3>1, <3>3, <3>4 DEF CallOf
  <2>5. CASE a # c
    <3>1. answer'[a] = answer[a] /\ sent'[a] = sent[a]
      BY <1>a, <2>1, <2>5 DEF TypeOK, Put
    <3> QED BY <1>a, <2>2, <2>3, <2>5, <3>1, CallKept
  <2> QED BY <2>4, <2>5
<1>4. ASSUME NEW b \in Agents, NoUrl(b) PROVE CallOf(a)'
  <2>1. UNCHANGED <<pc, todo, transit, serving>>
    BY <1>4 DEF NoUrl
  <2>2. CASE a = b
    <3>1. answer'[a] = "error" /\ pc'[a] = "send"
      BY <1>4, <1>a, <2>2 DEF NoUrl, TypeOK, Put
    <3> QED BY <3>1, CallSettled
  <2>3. CASE a # b
    <3>1. answer'[a] = answer[a] /\ sent'[a] = sent[a]
      BY <1>4, <1>a, <2>3 DEF NoUrl, TypeOK, Put
    <3>2. \A d \in Agents : UnderWay(d)' = UnderWay(d)
      BY <2>1 DEF UnderWay
    <3> QED BY <1>a, <2>1, <3>1, <3>2, CallKept
  <2> QED BY <2>2, <2>3
<1>5. ASSUME NEW b \in Agents, Return(b) PROVE CallOf(a)'
  <2>1. CASE a = b
    <3>1. answer'[a] = "idle"
      BY <1>5, <1>a, <2>1 DEF Return, TypeOK, Put
    <3> QED BY <3>1, CallSettled
  <2>2. CASE a # b
    <3>1. pc'[a] = pc[a] /\ todo'[a] = todo[a] /\ answer'[a] = answer[a]
      BY <1>5, <1>a, <2>2 DEF Return, TypeOK, Put
    <3>2. UNCHANGED <<sent, transit, serving>>
      BY <1>5 DEF Return
    <3>3. \A d \in Agents : UnderWay(d)' = UnderWay(d)
      BY <3>2 DEF UnderWay
    <3> QED BY <1>a, <3>1, <3>2, <3>3, CallKept
  <2> QED BY <2>1, <2>2
<1>6. ASSUME NEW b \in Agents, Serve(b) PROVE CallOf(a)'
  <2>1. UNCHANGED <<pc, answer, todo, sent>>
    BY <1>6 DEF Serve
  <2> QED BY <1>1, <1>6, <2>1, ServeUnderWay
<1>7. ASSUME NEW b \in Agents, Reply(b) PROVE CallOf(a)'
  <2>1. PICK s \in serving[b] :
          answer' = [c \in Callers |->
                       IF c \in WaitingFor({s.request})
                       THEN IF s.ok THEN "ok" ELSE "error"
                       ELSE answer[c]]
    BY <1>7 DEF Reply
  <2>2. UNCHANGED <<pc, todo, sent, accepted>>
    BY <1>7 DEF Reply
  <2>3. \A d \in Agents : UnderWay(d)' \subseteq UnderWay(d)
    BY <1>7, QuietSteps DEF Quiet, UnderWay
  <2>4. CASE a \notin WaitingFor({s.request})
    <3>1. answer'[a] = answer[a]
      BY <1>a, <2>1, <2>4
    <3> QED BY <1>a, <2>2, <2>3, <3>1, CallKept
  <2>5. CASE a \in WaitingFor({s.request})
    <3>1. answer[a] = "waiting" /\ s.request.caller = a /\ s.request.n = sent[a]
      BY <2>5 DEF WaitingFor
    <3>2. CurrentSend(a, b, s.request) /\ pc[a] = "send"
      <4>1. s.request \in UnderWay(b)
        BY DEF UnderWay
      <4> QED BY <1>a, <3>1, <4>1 DEF CallOf
    <3>3. CASE s.ok
      <4>1. Has(b, Letter(s.request))
        BY <3>2, <3>3 DEF ServedInv, CurrentSend
      <4>2. Letter(s.request) = Message(a, sent[a], Head(todo[a]).topic)
        BY <3>1, <3>2 DEF Letter, CurrentSend
      <4>3. Has(Head(todo[a]).peer, Message(a, sent[a], Head(todo[a]).topic))
        BY <3>2, <4>1, <4>2 DEF CurrentSend
      <4>4. Has(Head(todo[a]).peer, Message(a, sent[a], Head(todo[a]).topic))'
        BY <2>2, <4>3 DEF Has, Message
      <4>5. answer'[a] = "ok"
        BY <1>a, <2>1, <2>5, <3>3
      <4> QED BY <2>2, <3>2, <4>4, <4>5 DEF CallOf
    <3>4. CASE ~s.ok
      <4>1. answer'[a] = "error" /\ pc'[a] = "send"
        BY <1>a, <2>1, <2>2, <2>5, <3>2, <3>4
      <4> QED BY <4>1, CallSettled
    <3> QED BY <3>3, <3>4
  <2> QED BY <2>4, <2>5
<1>8. ASSUME NEW b \in Agents, Exit(b) \/ Crash(b) PROVE CallOf(a)'
  <2>1. \E how \in {"exited", "crashed"} : Gone(b, how)
    BY <1>8 DEF Exit, Crash
  <2>2. UNCHANGED sent /\ \A d \in Agents : UnderWay(d)' \subseteq UnderWay(d)
    BY <1>8, QuietSteps DEF Quiet, UnderWay
  <2>3. CASE a = b
    <3>1. answer'[a] = "idle"
      BY <1>a, <2>1, <2>3 DEF Gone
    <3> QED BY <3>1, CallSettled
  <2>4. CASE a # b
    <3>1. pc'[a] = pc[a] /\ todo'[a] = todo[a]
      BY <2>1, <2>4 DEF Gone, TypeOK, Put
    <3>2. CASE answer'[a] = answer[a]
      BY <1>a, <2>2, <3>1, <3>2, CallKept
    <3>3. CASE answer'[a] # answer[a]
      <4>1. answer'[a] = "error" /\ answer[a] = "waiting"
        BY <1>a, <2>1, <2>4, <3>3 DEF Gone, WaitingFor
      <4>2. pc'[a] = "send"
        BY <1>a, <3>1, <4>1 DEF CallOf
      <4> QED BY <4>1, <4>2, CallSettled
    <3> QED BY <3>2, <3>3
  <2> QED BY <2>3, <2>4
<1>9. ASSUME NEW c \in Callers, LoseConnection(c) PROVE CallOf(a)'
  <2>1. UNCHANGED <<pc, todo, sent>> /\ answer[c] = "waiting"
        /\ answer' = Put(answer, c, "error")
    BY <1>9 DEF LoseConnection
  <2>2. \A d \in Agents : UnderWay(d)' \subseteq UnderWay(d)
    BY <1>9, QuietSteps DEF Quiet, UnderWay
  <2>3. CASE a = c
    <3>1. answer'[a] = "error" /\ pc'[a] = "send"
      BY <1>a, <2>1, <2>3 DEF CallOf, TypeOK, Put
    <3> QED BY <3>1, CallSettled
  <2>4. CASE a # c
    <3>1. answer'[a] = answer[a]
      BY <1>a, <2>1, <2>4 DEF TypeOK, Put
    <3> QED BY <1>a, <2>1, <2>2, <3>1, CallKept
  <2> QED BY <2>3, <2>4
<1>10. ASSUME NEW c \in Clients, ClientReturn(c) PROVE CallOf(a)'
  <2>1. UNCHANGED <<pc, todo, sent, transit, serving>> /\ answer'[a] = answer[a]
    BY <1>10, <1>a DEF ClientReturn, TypeOK, Put
  <2>2. \A d \in Agents : UnderWay(d)' = UnderWay(d)
    BY <2>1 DEF UnderWay
  <2> QED BY <1>a, <2>1, <2>2, CallKept
<1>11. ASSUME UNCHANGED <<pc, answer, todo, sent, transit, serving>> PROVE CallOf(a)'
  BY <1>1, <1>11 DEF UnderWay
<1>12. ASSUME NEW b \in Agents, Finalize(b) \/ Signal(b) \/ Restart(b) PROVE CallOf(a)'
  BY <1>11, <1>12 DEF Finalize, Signal, Restart
<1>13. CASE UNCHANGED vars
  BY <1>11, <1>13 DEF vars
<1>14. ASSUME NEW b \in Agents, RunnerThread(b), ~Send(b) PROVE CallOf(a)'
  BY <1>2, <1>5, <1>8, <1>12, <1>14 DEF RunnerThread
<1>15. ASSUME NEW b \in Agents,
              ServerThread(b) \/ EndBody(b) \/ Crash(b) \/ Signal(b) \/ Restart(b)
       PROVE  CallOf(a)'
  BY <1>6, <1>7, <1>8, <1>12, <1>15 DEF ServerThread, Respond, EndBody
<1>16. ASSUME NEW b \in Agents, Send(b) PROVE CallOf(a)'
  <2>1. Head(todo[b]) \in SendsTo /\ pc[b] = "send" /\ b \in Callers
    BY <1>16, SendCases
  <2>2. ASSUME NEW r \in Requests, Posts(b, Head(todo[b]).peer, r),
               r.kind = "message" /\ r.topic = Head(todo[b]).topic
        PROVE  CallOf(a)'
    <3>1. Posted(b, Head(todo[b]).peer, r) /\ Head(todo[b]).peer \in Agents
      BY <1>16, <2>1, <2>2, SendCases DEF Posted, CurrentSend, SendsTo
    <3> QED BY <1>3, <2>1, <3>1
  <2>3. ASSUME answer[b] = "idle", answer' = Put(answer, b, "error"),
               sent' = Put(sent, b, sent[b] + 1), UNCHANGED transit
        PROVE  CallOf(a)'
    <3>1. NoUrl(b)
      BY <1>16, <2>1, <2>3, SendCases DEF NoUrl
    <3> QED BY <1>4, <3>1
  <2> QED BY <1>16, <2>2, <2>3, SendCases
<1>17. ASSUME NEW c \in Clients, NEW b \in Agents, ClientPost(c, b) PROVE CallOf(a)'
  <2>1. c \in Callers /\ c \notin Agents
    BY DeliveryAssumption DEF Callers
  <2>2. PICK r \in Requests : Posts(c, b, r)
    BY <1>17, ClientPostCases
  <2>3. Posted(c, b, r)
    BY <1>17, <2>1, <2>2, ClientPostCases DEF Posted
  <2> QED BY <1>3, <2>1, <2>3
<1> QED
  BY <1>9, <1>10, <1>13, <1>14, <1>15, <1>16, <1>17 DEF Next

-----------------------------------------------------------------------------
(* What was recorded as delivered, and the mailboxes.                        *)

LEMMA ReturnCases ==
  ASSUME TypeOK, CallInv, NEW b \in Agents, Return(b)
  PROVE  /\ UNCHANGED <<accepted, received, base, sent>>
         /\ \/ UNCHANGED confirmed
            \/ \E d \in [to: Agents, msg: Messages] :
                 /\ confirmed' = Put(confirmed, b, confirmed[b] \cup {d})
                 /\ d.msg.from = b /\ d.msg.n = sent[b]
                 /\ Has(d.to, d.msg)
<1>1. UNCHANGED <<accepted, received, base, sent>>
  BY DEF Return
<1>2. CASE answer[b] # "ok"
  BY <1>1, <1>2 DEF Return
<1>3. CASE answer[b] = "ok"
  <2>1. todo[b] # <<>> /\ todo[b] \in Seq(SendsTo)
    BY DEF Return, At, TypeOK
  <2>2. Head(todo[b]) \in SendsTo
    BY <2>1, HeadTailProperties
  <2>3. PICK d : d = [to |-> Head(todo[b]).peer,
                      msg |-> Message(b, sent[b], Head(todo[b]).topic)]
    OBVIOUS
  <2>4. b \in Callers /\ sent[b] \in Nat
    BY DEF TypeOK, Callers
  <2>5. d \in [to: Agents, msg: Messages]
    BY <2>2, <2>3, <2>4 DEF SendsTo, Message, Messages
  <2>6. confirmed' = Put(confirmed, b, confirmed[b] \cup {d})
    BY <1>3, <2>3 DEF Return
  <2>7. d.msg.from = b /\ d.msg.n = sent[b]
    BY <2>3 DEF Message
  <2>8. Has(d.to, d.msg)
    BY <1>3, <2>3 DEF CallInv, CallOf
  <2> QED BY <1>1, <2>5, <2>6, <2>7, <2>8
<1> QED BY <1>2, <1>3

\* Only four actions touch the histories.
LEMMA HistoryCases ==
  ASSUME TypeOK, [Next]_vars
  PROVE  \/ \E b \in Agents : Serve(b) \/ Take(b) \/ Return(b) \/ Restart(b)
         \/ UNCHANGED <<accepted, received, base, confirmed>>
<1> DEFINE Kept == UNCHANGED <<accepted, received, base, confirmed>>
<1>1. ASSUME NEW b \in Agents,
             CheckFlag(b) \/ Idle(b) \/ Send(b) \/ Finalize(b) \/ Exit(b) \/ Crash(b)
               \/ Signal(b) \/ Reply(b)
      PROVE  Kept
  BY <1>1 DEF CheckFlag, Idle, Send, Finalize, Exit, Crash, Gone, Signal, Reply
<1>2. ASSUME NEW c \in Clients,
             ClientReturn(c) \/ \E b \in Agents : ClientPost(c, b)
      PROVE  Kept
  BY <1>2 DEF ClientReturn, ClientPost
<1>3. ASSUME NEW c \in Callers, LoseConnection(c) PROVE Kept
  BY <1>3 DEF LoseConnection
<1>4. ASSUME UNCHANGED vars PROVE Kept
  BY <1>4 DEF vars
<1> HIDE DEF Kept
<1>5. \/ \E b \in Agents : Serve(b) \/ Take(b) \/ Return(b) \/ Restart(b)
      \/ Kept
  BY <1>1, <1>2, <1>3, <1>4 DEF Next, RunnerThread, ServerThread, Respond, EndBody
<1> QED BY <1>5 DEF Kept

LEMMA ConfirmedStep ==
  ASSUME TypeOK, CallInv, ConfirmedInv, [Next]_vars
  PROVE  ConfirmedInv'
<1>1. ASSUME NEW a \in Agents, NEW d \in confirmed[a]
      PROVE  d.msg.from = a /\ Has(d.to, d.msg)'
  <2>1. d \in [to: Agents, msg: Messages] /\ d.msg.from = a /\ Has(d.to, d.msg)
    BY DEF TypeOK, ConfirmedInv
  <2> QED BY <2>1, HasStays
<1>2. ASSUME UNCHANGED confirmed PROVE ConfirmedInv'
  BY <1>1, <1>2 DEF ConfirmedInv
<1>3. ASSUME NEW b \in Agents, Return(b) PROVE ConfirmedInv'
  <2>1. ASSUME NEW d \in [to: Agents, msg: Messages],
               confirmed' = Put(confirmed, b, confirmed[b] \cup {d}),
               d.msg.from = b, Has(d.to, d.msg)
        PROVE  ConfirmedInv'
    <3>1. Has(d.to, d.msg)'
      BY <2>1, HasStays
    <3>2. \A a \in Agents : \A e \in confirmed'[a] : e \in confirmed[a] \/ (e = d /\ a = b)
      BY <2>1 DEF TypeOK, Put
    <3> QED BY <1>1, <2>1, <3>1, <3>2 DEF ConfirmedInv
  <2> QED BY <1>2, <1>3, <2>1, ReturnCases
<1>4. ASSUME NEW b \in Agents, Serve(b) \/ Take(b) \/ Restart(b) PROVE ConfirmedInv'
  BY <1>2, <1>4 DEF Serve, Take, Restart
<1> QED BY <1>2, <1>3, <1>4, HistoryCases

LEMMA QueueKept ==
  ASSUME NEW b \in Agents, QueueOf(b), mailbox'[b] = mailbox[b], accepted'[b] = accepted[b],
         received'[b] = received[b], base'[b] = base[b], MailboxOpen(b)' = MailboxOpen(b)
  PROVE  QueueOf(b)'
BY DEF QueueOf

LEMMA QueueStep ==
  ASSUME TypeOK, TypeOK', QueueInv, [Next]_vars
  PROVE  QueueInv'
<1> SUFFICES ASSUME NEW b \in Agents PROVE QueueOf(b)'
  BY DEF QueueInv
<1>a. QueueOf(b)
  BY DEF QueueInv
<1>b. /\ Len(accepted[b]) \in Nat /\ Len(received[b]) \in Nat
      /\ Len(mailbox[b]) \in Nat /\ base[b] \in Nat
  BY LenProperties DEF TypeOK
<1>1. ASSUME UNCHANGED <<phase, mailbox, accepted, received, base>> PROVE QueueOf(b)'
  BY <1>1, <1>a, QueueKept DEF MailboxOpen
<1>2. ASSUME NEW a \in Agents, Serve(a) PROVE QueueOf(b)'
  <2>1. UNCHANGED <<phase, received, base>>
    BY <1>2 DEF Serve
  <2>2. PICK r \in transit[a] : Accepts(a, r) \/ \E ok \in BOOLEAN : Refuses(a, r, ok)
    BY <1>2, ServeCases
  <2>3. CASE Accepts(a, r) /\ a = b
    <3>1. Letter(r) \in Messages
      BY <2>3, HasGrows DEF TypeOK
    <3>2. /\ mailbox'[b] = Append(mailbox[b], Letter(r))
          /\ accepted'[b] = Append(accepted[b], Letter(r))
      BY SMTT(40), <2>3 DEF Accepts, TypeOK, Put
    <3>3. mailbox[b] \in Seq(Messages) /\ accepted[b] \in Seq(Messages)
      BY DEF TypeOK
    <3>a. /\ Len(mailbox'[b]) = Len(mailbox[b]) + 1
          /\ Len(accepted'[b]) = Len(accepted[b]) + 1
      BY <3>1, <3>2, <3>3, AppendProperties
    <3>4. /\ \A i \in 1..Len(mailbox[b]) : mailbox'[b][i] = mailbox[b][i]
          /\ \A i \in 1..Len(accepted[b]) : accepted'[b][i] = accepted[b][i]
          /\ mailbox'[b][Len(mailbox[b]) + 1] = Letter(r)
          /\ accepted'[b][Len(accepted[b]) + 1] = Letter(r)
      BY <3>1, <3>2, <3>3, AppendProperties
    <3>b. Len(accepted[b]) = base[b] + Len(received[b]) + Len(mailbox[b])
      BY <1>a, <2>3 DEF QueueOf, Accepts
    <3>5. \A i \in 1..Len(mailbox[b]) :
            mailbox[b][i] = accepted[b][base[b] + Len(received[b]) + i]
      BY <1>a, <2>3 DEF QueueOf, Accepts
    <3>6. ASSUME NEW i \in 1..Len(mailbox'[b])
          PROVE  mailbox'[b][i] = accepted'[b][base[b] + Len(received[b]) + i]
      <4>1. CASE i \in 1..Len(mailbox[b])
        <5>1. base[b] + Len(received[b]) + i \in 1..Len(accepted[b])
          BY SMTT(40), <1>b, <3>b, <4>1
        <5> QED BY <3>4, <3>5, <4>1, <5>1
      <4>2. CASE i = Len(mailbox[b]) + 1
        <5>1. base[b] + Len(received[b]) + i = Len(accepted[b]) + 1
          BY SMTT(40), <1>b, <3>b, <4>2
        <5> QED BY <3>4, <4>2, <5>1
      <4> QED BY <1>b, <3>a, <4>1, <4>2
    <3>7. Len(accepted'[b]) = base[b] + Len(received[b]) + Len(mailbox'[b])
      BY SMTT(40), <1>b, <3>a, <3>b
    <3>8. MailboxOpen(b)'
      BY <2>1, <2>3 DEF MailboxOpen, Accepts
    <3> QED BY <2>1, <3>6, <3>7, <3>8 DEF QueueOf
  <2>4. CASE Accepts(a, r) /\ a # b
    <3>1. mailbox'[b] = mailbox[b] /\ accepted'[b] = accepted[b]
      BY <2>4 DEF Accepts, TypeOK, Put
    <3> QED BY <1>a, <2>1, <3>1, QueueKept DEF MailboxOpen
  <2>5. ASSUME NEW ok \in BOOLEAN, Refuses(a, r, ok) PROVE QueueOf(b)'
    BY <1>1, <2>1, <2>5 DEF Refuses
  <2> QED BY <2>2, <2>3, <2>4, <2>5
<1>3. ASSUME NEW a \in Agents, Take(a) PROVE QueueOf(b)'
  <2>1. UNCHANGED <<phase, accepted, base>>
    BY <1>3 DEF Take
  <2>2. CASE a # b
    <3>1. mailbox'[b] = mailbox[b] /\ received'[b] = received[b]
      BY <1>3, <2>2 DEF Take, TypeOK, Put
    <3> QED BY <1>a, <2>1, <3>1, QueueKept DEF MailboxOpen
  <2>3. CASE a = b
    <3>1. /\ mailbox[b] \in Seq(Messages) /\ mailbox[b] # <<>> /\ MailboxOpen(b)
          /\ received[b] \in Seq(Messages)
      BY <1>3, <2>3 DEF Take, At, MailboxOpen, TypeOK
    <3>2. /\ mailbox'[b] = Tail(mailbox[b])
          /\ received'[b] = Append(received[b], Head(mailbox[b]))
      BY <1>3, <2>3 DEF Take, TypeOK, Put
    <3>a. Len(mailbox'[b]) = Len(mailbox[b]) - 1
      BY <3>1, <3>2, HeadTailProperties
    <3>3. /\ \A i \in 1..Len(mailbox'[b]) : mailbox'[b][i] = mailbox[b][i + 1]
      BY <3>1, <3>2, HeadTailProperties
    <3>4. Len(received'[b]) = Len(received[b]) + 1
      BY <3>1, <3>2, HeadTailProperties, AppendProperties
    <3>b. Len(accepted[b]) = base[b] + Len(received[b]) + Len(mailbox[b])
      BY <1>a, <3>1 DEF QueueOf
    <3>5. \A i \in 1..Len(mailbox[b]) :
            mailbox[b][i] = accepted[b][base[b] + Len(received[b]) + i]
      BY <1>a, <3>1 DEF QueueOf
    <3>c. base'[b] = base[b]
      BY <2>1
    <3>e. accepted'[b] = accepted[b]
      BY <2>1
    <3>d. Len(received'[b]) \in Nat /\ Len(mailbox'[b]) \in Nat
      BY LenProperties DEF TypeOK
    <3>6. ASSUME NEW i \in 1..Len(mailbox'[b])
          PROVE  mailbox'[b][i] = accepted'[b][base'[b] + Len(received'[b]) + i]
      <4>1. i + 1 \in 1..Len(mailbox[b])
        BY <1>b, <3>a
      <4>a. i \in Nat
        BY <3>d
      <4>2. mailbox'[b][i] = accepted[b][base[b] + Len(received[b]) + (i + 1)]
        BY <3>3, <3>5, <4>1
      <4>3. base[b] + Len(received[b]) + (i + 1) = base'[b] + Len(received'[b]) + i
        <5> DEFINE x == base[b]
                   y == Len(received[b])
        <5>1. x \in Nat /\ y \in Nat
          BY <1>b
        <5>2. base'[b] = x /\ Len(received'[b]) = y + 1
          BY <3>c, <3>4
        <5> HIDE DEF x, y
        <5>3. x + y + (i + 1) = x + (y + 1) + i
          BY <4>a, <5>1
        <5> QED BY <5>2, <5>3 DEF x, y
      <4> QED BY <3>e, <4>2, <4>3
    <3>7. Len(accepted'[b]) = base'[b] + Len(received'[b]) + Len(mailbox'[b])
      <4>1. Len(mailbox[b]) = Len(mailbox'[b]) + 1
        BY <1>b, <3>a, <3>d
      <4>2. Len(accepted[b]) = base[b] + Len(received'[b]) + Len(mailbox'[b])
        <5> DEFINE x == base[b]
                   y == Len(received[b])
                   z == Len(mailbox'[b])
        <5>1. x \in Nat /\ y \in Nat /\ z \in Nat
          BY <1>b, <3>d
        <5>2. Len(accepted[b]) = x + y + (z + 1) /\ Len(received'[b]) = y + 1
          BY <3>b, <3>4, <4>1
        <5> HIDE DEF x, y, z
        <5>3. x + y + (z + 1) = x + (y + 1) + z
          BY <5>1
        <5>4. Len(accepted[b]) = x + Len(received'[b]) + z
          BY <5>2, <5>3
        <5> QED BY <5>4 DEF x, z
      <4> QED BY <3>c, <3>e, <4>2
    <3> QED BY <2>1, <3>1, <3>6, <3>7 DEF QueueOf, MailboxOpen
  <2> QED BY <2>2, <2>3
<1>4. ASSUME NEW a \in Agents, CheckFlag(a) PROVE QueueOf(b)'
  <2>1. UNCHANGED <<mailbox, accepted, received, base>>
    BY <1>4 DEF CheckFlag
  <2>2. MailboxOpen(b)' = MailboxOpen(b)
    BY SMTT(40), <1>4 DEF CheckFlag, At, MailboxOpen, TypeOK, Put
  <2> QED BY <1>a, <2>1, <2>2, QueueKept
<1>5. ASSUME NEW a \in Agents, Finalize(a) \/ Exit(a) \/ Crash(a) PROVE QueueOf(b)'
  <2>1. UNCHANGED <<accepted, received, base>>
    BY <1>5 DEF Finalize, Exit, Crash, Gone
  <2>2. PICK how \in {"closed", "exited", "crashed"} :
          phase' = Put(phase, a, how) /\ mailbox' = Put(mailbox, a, <<>>)
    BY <1>5 DEF Finalize, Exit, Crash, Gone
  <2>3. CASE a = b
    <3>1. mailbox'[b] = <<>> /\ phase'[b] = how
      BY <2>2, <2>3 DEF TypeOK, Put
    <3> QED BY <3>1 DEF QueueOf, MailboxOpen
  <2>4. CASE a # b
    <3>1. mailbox'[b] = mailbox[b] /\ phase'[b] = phase[b]
      BY <2>2, <2>4 DEF TypeOK, Put
    <3> QED BY <1>a, <2>1, <3>1, QueueKept DEF MailboxOpen
  <2> QED BY <2>3, <2>4
<1>6. ASSUME NEW a \in Agents, Restart(a) PROVE QueueOf(b)'
  <2>1. UNCHANGED <<mailbox, accepted>> /\ ~MailboxOpen(a)
    BY <1>6 DEF Restart, Alive, MailboxOpen
  <2>2. CASE a = b
    <3>1. /\ phase'[b] = "serving" /\ received'[b] = <<>> /\ base'[b] = Len(accepted[b])
          /\ mailbox[b] = <<>>
      BY <1>6, <1>a, <2>1, <2>2 DEF Restart, TypeOK, Put, QueueOf
    <3> QED BY <1>b, <2>1, <3>1 DEF QueueOf, MailboxOpen
  <2>3. CASE a # b
    <3>1. phase'[b] = phase[b] /\ received'[b] = received[b] /\ base'[b] = base[b]
      BY <1>6, <2>3 DEF Restart, TypeOK, Put
    <3> QED BY <1>a, <2>1, <3>1, QueueKept DEF MailboxOpen
  <2> QED BY <2>2, <2>3
<1>7. ASSUME NEW a \in Agents,
             Idle(a) \/ Send(a) \/ Return(a) \/ Signal(a) \/ Reply(a)
      PROVE  QueueOf(b)'
  BY <1>1, <1>7 DEF Idle, Send, Return, Signal, Reply
<1>8. ASSUME NEW c \in Clients,
             ClientReturn(c) \/ \E a \in Agents : ClientPost(c, a)
      PROVE  QueueOf(b)'
  BY <1>1, <1>8 DEF ClientReturn, ClientPost
<1>9. ASSUME NEW c \in Callers, LoseConnection(c) PROVE QueueOf(b)'
  BY <1>1, <1>9 DEF LoseConnection
<1>10. CASE UNCHANGED vars
  BY <1>1, <1>10 DEF vars
<1>11. ASSUME NEW a \in Agents, RunnerThread(a) PROVE QueueOf(b)'
  BY <1>3, <1>4, <1>5, <1>7, <1>11 DEF RunnerThread
<1>12. ASSUME NEW a \in Agents,
              ServerThread(a) \/ EndBody(a) \/ Crash(a) \/ Signal(a) \/ Restart(a)
       PROVE  QueueOf(b)'
  BY <1>2, <1>5, <1>6, <1>7, <1>12 DEF ServerThread, Respond, EndBody
<1> QED BY <1>8, <1>9, <1>10, <1>11, <1>12 DEF Next

LEMMA InvInit == Init => DeliveryInv
<1> SUFFICES ASSUME Init PROVE DeliveryInv
  OBVIOUS
<1>1. TypeOK
  BY TypeInit
<1>2. \A b \in Agents : /\ UnderWay(b) = {} /\ transit[b] = {} /\ serving[b] = {}
                        /\ confirmed[b] = {} /\ answer[b] = "idle"
  BY DEF Init, UnderWay, Callers
<1>3. \A b \in Agents : /\ Len(accepted[b]) = 0 /\ mailbox[b] = <<>>
                        /\ Len(received[b]) = 0 /\ Len(mailbox[b]) = 0 /\ base[b] = 0
  BY DEF Init
<1>4. \A b \in Agents : \A m : ~Has(b, m)
  BY <1>3 DEF Has
<1>5. NumberedInv /\ NewInv /\ ServedInv /\ ConfirmedInv
  BY <1>2, <1>4 DEF NumberedInv, NewInv, ServedInv, ConfirmedInv
<1>6. CallInv
  BY <1>2 DEF CallInv, CallOf
<1>7. ASSUME NEW b \in Agents PROVE QueueOf(b)
  <2>1. Len(accepted[b]) = base[b] + Len(received[b]) + Len(mailbox[b])
    <3>1. Len(accepted[b]) = 0 /\ Len(received[b]) = 0 /\ Len(mailbox[b]) = 0 /\ base[b] = 0
      BY <1>3
    <3>2. 0 = 0 + 0 + 0
      OBVIOUS
    <3> QED BY ONLY <3>1, <3>2
  <2>2. \A i \in 1..Len(mailbox[b]) : FALSE
    BY <1>3
  <2>3. mailbox[b] = <<>>
    BY <1>3
  <2> QED BY <2>1, <2>2, <2>3 DEF QueueOf
<1> QED BY <1>1, <1>5, <1>6, <1>7 DEF DeliveryInv, QueueInv

LEMMA InvStep == DeliveryInv /\ [Next]_vars => DeliveryInv'
<1> SUFFICES ASSUME DeliveryInv, [Next]_vars PROVE DeliveryInv'
  OBVIOUS
<1>1. TypeOK'
  BY TypeStep DEF DeliveryInv
<1>2. NumberedInv'
  BY NumberedStep DEF DeliveryInv
<1>3. NewInv'
  BY NewStep DEF DeliveryInv
<1>4. ServedInv'
  BY ServedStep DEF DeliveryInv
<1>5. CallInv'
  BY CallStep DEF DeliveryInv
<1>6. ConfirmedInv'
  BY ConfirmedStep DEF DeliveryInv
<1>7. QueueInv'
  BY <1>1, QueueStep DEF DeliveryInv
<1> QED BY <1>1, <1>2, <1>3, <1>4, <1>5, <1>6, <1>7 DEF DeliveryInv

\* The invariant behind the theorems on delivery.
THEOREM InvariantHolds == Spec => []DeliveryInv
BY InvInit, InvStep, PTL DEF Spec

-----------------------------------------------------------------------------
(* The promise of Channel.                                                   *)

Confirmations == UNION {{<<d.to, d.msg>> : d \in confirmed[a]} : a \in Agents}

LEMMA HasMeans ==
  ASSUME TypeOK, NEW b \in Agents, NEW m
  PROVE  Has(b, m) <=> m \in Transport!ToSet(accepted[b])
<1>1. DOMAIN accepted[b] = 1..Len(accepted[b])
  BY LenProperties DEF TypeOK
<1> QED BY <1>1 DEF Has, Transport!ToSet

LEMMA ChannelInit == Init => Transport!Init
<1> SUFFICES ASSUME Init PROVE Transport!Init
  OBVIOUS
<1>1. \A a \in Agents : confirmed[a] = {}
  BY DEF Init
<1>2. Confirmations = {}
  <2>1. ASSUME NEW x \in Confirmations PROVE FALSE
    <3>1. PICK a \in Agents : x \in {<<d.to, d.msg>> : d \in confirmed[a]}
      BY <2>1 DEF Confirmations
    <3> QED BY <1>1, <3>1
  <2> QED BY <2>1
<1> QED BY <1>2 DEF Init, Transport!Init, Confirmations

LEMMA ChannelStep ==
  ASSUME DeliveryInv, DeliveryInv', [Next]_vars
  PROVE  [Transport!Next]_(Transport!channelVars)
<1> DEFINE Goal == Transport!Next \/ UNCHANGED Transport!channelVars
<1>a. TypeOK /\ TypeOK'
  BY DEF DeliveryInv
<1>1. ASSUME UNCHANGED <<accepted, received, base, confirmed>> PROVE Goal
  <2>1. Confirmations' = Confirmations
    BY <1>1 DEF Confirmations
  <2> QED BY <1>1, <2>1 DEF Transport!channelVars, Confirmations
<1>2. ASSUME NEW b \in Agents, Serve(b) PROVE Goal
  <2>1. UNCHANGED <<received, base, confirmed>>
    BY <1>2 DEF Serve
  <2>2. PICK r \in transit[b] : Accepts(b, r) \/ \E ok \in BOOLEAN : Refuses(b, r, ok)
    BY <1>a, <1>2, ServeCases
  <2>3. CASE Accepts(b, r)
    <3>1. Letter(r) \in Messages /\ r \in Requests
      BY <1>a, <2>3, HasGrows DEF TypeOK
    <3>2. Letter(r) \notin Transport!ToSet(accepted[b])
      BY <1>a, <2>3, <3>1, HasMeans DEF DeliveryInv, NewInv, Accepts
    <3>3. accepted' = [accepted EXCEPT ![b] = Append(accepted[b], Letter(r))]
      BY <2>3 DEF Accepts, Put
    <3>4. accepted'[b] = Append(accepted[b], Letter(r)) /\ accepted[b] \in Seq(Messages)
      BY <1>a, <3>3 DEF TypeOK
    <3>5. accepted'[b] # <<>> /\ accepted'[b][Len(accepted'[b])] = Letter(r)
      BY <3>1, <3>4, AppendProperties
    <3>6. Transport!Last(accepted'[b]) = Letter(r)
      BY <3>5 DEF Transport!Last
    <3>7. Confirmations' = Confirmations
      BY <2>1 DEF Confirmations
    <3>8. Transport!Accept(b)
      BY <2>1, <3>1, <3>2, <3>3, <3>5, <3>6, <3>7 DEF Transport!Accept, Confirmations
    <3> QED BY <3>8 DEF Transport!Next
  <2>4. CASE UNCHANGED accepted
    BY <1>1, <2>1, <2>4
  <2> QED BY <2>2, <2>3, <2>4 DEF Refuses
<1>3. ASSUME NEW b \in Agents, Take(b) PROVE Goal
  <2>1. UNCHANGED <<accepted, base, confirmed>>
    BY <1>3 DEF Take
  <2>2. /\ mailbox[b] \in Seq(Messages) /\ mailbox[b] # <<>> /\ MailboxOpen(b)
        /\ received' = [received EXCEPT ![b] = Append(received[b], Head(mailbox[b]))]
    BY <1>a, <1>3 DEF Take, At, MailboxOpen, TypeOK, Put
  <2>3. /\ Len(accepted[b]) = base[b] + Len(received[b]) + Len(mailbox[b])
        /\ \A i \in 1..Len(mailbox[b]) :
             mailbox[b][i] = accepted[b][base[b] + Len(received[b]) + i]
    BY <2>2 DEF DeliveryInv, QueueInv, QueueOf
  <2>4. /\ base[b] \in Nat /\ Len(received[b]) \in Nat /\ Len(mailbox[b]) \in Nat
        /\ Len(mailbox[b]) >= 1 /\ Head(mailbox[b]) = mailbox[b][1]
    BY <1>a, <2>2, LenProperties, HeadTailProperties, EmptySeq DEF TypeOK
  <2>5. base[b] + Len(received[b]) + 1 <= Len(accepted[b])
    BY <2>3, <2>4
  <2>6. Head(mailbox[b]) = accepted[b][base[b] + Len(received[b]) + 1]
    BY <2>3, <2>4
  <2>7. Confirmations' = Confirmations
    BY <2>1 DEF Confirmations
  <2>8. Transport!Receive(b)
    BY <2>1, <2>2, <2>5, <2>6, <2>7 DEF Transport!Receive, Confirmations
  <2> QED BY <2>8 DEF Transport!Next
<1>4. ASSUME NEW b \in Agents, Return(b) PROVE Goal
  <2>1. UNCHANGED <<accepted, received, base>>
    BY <1>4 DEF Return
  <2>2. ASSUME NEW d \in [to: Agents, msg: Messages],
               confirmed' = Put(confirmed, b, confirmed[b] \cup {d}), Has(d.to, d.msg)
        PROVE  Goal
    <3>1. Confirmations' = Confirmations \cup {<<d.to, d.msg>>}
      <4>1. /\ confirmed'[b] = confirmed[b] \cup {d}
            /\ \A a \in Agents \ {b} : confirmed'[a] = confirmed[a]
        BY <1>a, <2>2 DEF TypeOK, Put
      <4>2. ASSUME NEW x \in Confirmations' PROVE x \in Confirmations \cup {<<d.to, d.msg>>}
        <5>1. PICK a \in Agents : \E e \in confirmed'[a] : x = <<e.to, e.msg>>
          BY <4>2 DEF Confirmations
        <5>2. PICK e \in confirmed'[a] : x = <<e.to, e.msg>>
          BY <5>1
        <5>3. e \in confirmed[a] \/ e = d
          BY <4>1
        <5> QED BY <5>2, <5>3 DEF Confirmations
      <4>3. ASSUME NEW x \in Confirmations PROVE x \in Confirmations'
        <5>1. PICK a \in Agents : \E e \in confirmed[a] : x = <<e.to, e.msg>>
          BY <4>3 DEF Confirmations
        <5>2. PICK e \in confirmed[a] : x = <<e.to, e.msg>>
          BY <5>1
        <5>3. e \in confirmed'[a]
          BY <4>1
        <5> QED BY <5>2, <5>3 DEF Confirmations
      <4>4. <<d.to, d.msg>> \in Confirmations'
        BY <4>1 DEF Confirmations
      <4> QED BY <4>2, <4>3, <4>4
    <3>2. d.to \in Agents /\ d.msg \in Transport!ToSet(accepted[d.to])
      BY <1>a, <2>2, HasMeans
    <3>3. Transport!Confirm(d.to)
      BY <2>1, <3>1, <3>2 DEF Transport!Confirm, Confirmations
    <3> QED BY <3>2, <3>3 DEF Transport!Next
  <2>3. CASE UNCHANGED confirmed
    BY <1>1, <2>1, <2>3
  <2> QED BY <1>a, <1>4, <2>2, <2>3, ReturnCases DEF DeliveryInv
<1>5. ASSUME NEW b \in Agents, Restart(b) PROVE Goal
  <2>1. /\ UNCHANGED <<accepted, confirmed>>
        /\ received' = [received EXCEPT ![b] = <<>>]
        /\ base' = [base EXCEPT ![b] = Len(accepted[b])]
    BY <1>5 DEF Restart, Put
  <2>2. Confirmations' = Confirmations
    BY <2>1 DEF Confirmations
  <2>3. Transport!Lose(b)
    BY <2>1, <2>2 DEF Transport!Lose, Confirmations
  <2> QED BY <2>3 DEF Transport!Next
<1> HIDE DEF Goal
<1>6. Goal
  BY <1>a, <1>1, <1>2, <1>3, <1>4, <1>5, HistoryCases
<1> QED BY <1>6 DEF Goal

\* The processes implement Channel, whatever agents there are and whatever
\* their handlers send, over broken connections, crashes and restarts: what a
\* sender records as delivered was accepted, nothing is accepted twice, what
\* was accepted is taken in that order and lost only with the process
\* (client.rs:17-37, executor.rs:43-78, server.rs:191-209, main.rs:384-424).
THEOREM DeliveryImplementsChannel == Spec => ImplementsChannel
<1>1. Init => Transport!Init
  BY ChannelInit
<1>2. DeliveryInv /\ DeliveryInv' /\ [Next]_vars => [Transport!Next]_(Transport!channelVars)
  BY ChannelStep
<1> QED
  BY <1>1, <1>2, InvariantHolds, PTL DEF Spec, ImplementsChannel, Transport!Spec

-----------------------------------------------------------------------------
(* The order of confirmed messages.                                          *)

LEMMA OrderStep ==
  ASSUME DeliveryInv, ConfirmedInOrder, [Next]_vars
  PROVE  ConfirmedInOrder'
<1> SUFFICES ASSUME NEW b \in Agents, NEW i \in DOMAIN accepted'[b],
                    NEW j \in DOMAIN accepted'[b], i < j,
                    accepted'[b][i].from = accepted'[b][j].from,
                    accepted'[b][j].n < accepted'[b][i].n,
                    accepted'[b][i].from \in Agents,
                    [to |-> b, msg |-> accepted'[b][j]] \in confirmed'[accepted'[b][i].from]
             PROVE  FALSE
  BY DEF ConfirmedInOrder
<1>a. TypeOK /\ accepted[b] \in Seq(Messages) /\ Len(accepted[b]) \in Nat
  BY LenProperties DEF DeliveryInv, TypeOK
<1>b. DOMAIN accepted[b] = 1..Len(accepted[b])
  BY <1>a, LenProperties
<1>c. ASSUME UNCHANGED <<accepted, confirmed>> PROVE FALSE
  BY <1>c DEF ConfirmedInOrder
<1>1. ASSUME NEW a \in Agents, Serve(a) PROVE FALSE
  <2>1. UNCHANGED confirmed
    BY <1>1 DEF Serve
  <2>2. PICK r \in transit[a] : Accepts(a, r) \/ \E ok \in BOOLEAN : Refuses(a, r, ok)
    BY <1>a, <1>1, ServeCases
  <2>3. CASE Accepts(a, r) /\ a = b
    <3>1. r \in Requests /\ Letter(r) \in Messages /\ ~Has(b, Letter(r))
      BY <1>a, <2>3, HasGrows DEF TypeOK, DeliveryInv, NewInv, Accepts
    <3>2. accepted'[b] = Append(accepted[b], Letter(r))
      BY <1>a, <2>3 DEF Accepts, TypeOK, Put
    <3>3. /\ DOMAIN accepted'[b] = 1..(Len(accepted[b]) + 1)
          /\ \A k \in 1..Len(accepted[b]) : accepted'[b][k] = accepted[b][k]
          /\ accepted'[b][Len(accepted[b]) + 1] = Letter(r)
      BY <1>a, <3>1, <3>2, AppendProperties
    <3>4. i \in 1..Len(accepted[b])
      BY <1>a, <3>3
    <3>5. CASE j = Len(accepted[b]) + 1
      <4>1. [to |-> b, msg |-> Letter(r)] \in confirmed[accepted'[b][i].from]
        BY <2>1, <3>3, <3>5
      <4>2. PICK d : d = [to |-> b, msg |-> Letter(r)]
        OBVIOUS
      <4>3. Has(d.to, d.msg)
        BY <4>1, <4>2 DEF DeliveryInv, ConfirmedInv
      <4> QED BY <3>1, <4>2, <4>3
    <3>6. CASE j \in 1..Len(accepted[b])
      BY <1>b, <2>1, <3>3, <3>4, <3>6 DEF ConfirmedInOrder
    <3> QED BY <1>a, <3>3, <3>5, <3>6
  <2>4. CASE Accepts(a, r) /\ a # b
    <3>1. accepted'[b] = accepted[b]
      BY <1>a, <2>4 DEF Accepts, TypeOK, Put
    <3> QED BY <2>1, <3>1 DEF ConfirmedInOrder
  <2>5. CASE UNCHANGED accepted
    BY <1>c, <2>1, <2>5
  <2> QED BY <2>2, <2>3, <2>4, <2>5 DEF Refuses
<1>2. ASSUME NEW a \in Agents, Return(a) PROVE FALSE
  <2>1. UNCHANGED accepted
    BY <1>2 DEF Return
  <2>2. ASSUME NEW d \in [to: Agents, msg: Messages],
               confirmed' = Put(confirmed, a, confirmed[a] \cup {d}),
               d.msg.from = a, d.msg.n = sent[a]
        PROVE  FALSE
    <3>1. accepted[b][i] \in Messages /\ Has(b, accepted[b][i])
      BY <1>a, <1>b, <2>1, ElementOfSeq DEF Has
    <3>2. accepted[b][i].n <= sent[accepted[b][i].from]
      BY <3>1 DEF DeliveryInv, NumberedInv
    <3>3. [to |-> b, msg |-> accepted[b][j]] \notin confirmed[accepted[b][i].from]
      BY <2>1 DEF ConfirmedInOrder
    <3>4. /\ accepted[b][i].from = a
          /\ d = [to |-> b, msg |-> accepted[b][j]]
      BY <1>a, <2>1, <2>2, <3>3 DEF TypeOK, Put
    <3>5. accepted[b][j].n = sent[a] /\ accepted[b][i].n <= sent[a]
      BY <2>2, <3>2, <3>4
    <3>6. accepted[b][i].n \in Nat /\ sent[a] \in Nat
      BY <1>a, <3>1 DEF TypeOK, Messages, Callers
    <3> QED BY <2>1, <3>5, <3>6
  <2>3. CASE UNCHANGED confirmed
    BY <1>c, <2>1, <2>3
  <2> QED BY <1>a, <1>2, <2>2, <2>3, ReturnCases DEF DeliveryInv
<1>3. ASSUME NEW a \in Agents, Take(a) \/ Restart(a) PROVE FALSE
  BY <1>3, <1>c DEF Take, Restart
<1> QED BY <1>a, <1>c, <1>1, <1>2, <1>3, HistoryCases

\* No message that its sender saw accepted is overtaken by a later one, for any
\* number of faults and messages (executor.rs:66-69, client.rs:17-37).
THEOREM ConfirmedInOrderHolds == Spec => []ConfirmedInOrder
<1>1. Init => ConfirmedInOrder
  <2> SUFFICES ASSUME Init, NEW b \in Agents PROVE DOMAIN accepted[b] = {}
    BY DEF ConfirmedInOrder
  <2> QED BY DEF Init
<1>2. DeliveryInv /\ ConfirmedInOrder /\ [Next]_vars => ConfirmedInOrder'
  BY OrderStep
<1> QED BY <1>1, <1>2, InvariantHolds, PTL DEF Spec

-----------------------------------------------------------------------------
(* The prompt stop.                                                          *)

\* A runner that has taken a message since it was told to stop is on its way to
\* look at the flag.
LateOf(b) ==
  /\ late[b] \in {0, 1}
  /\ late[b] = 1 /\ phase[b] = "serving" => flag[b] /\ pc[b] # "step"

LateInv == \A b \in Agents : LateOf(b)

LEMMA LateKept ==
  ASSUME NEW b \in Agents, LateOf(b), late'[b] = late[b], phase'[b] = phase[b],
         flag'[b] = flag[b] \/ flag'[b] = TRUE, pc'[b] = pc[b] \/ pc'[b] # "step"
  PROVE  LateOf(b)'
BY DEF LateOf

LEMMA LateStep ==
  ASSUME TypeOK, LateInv, [Next]_vars
  PROVE  LateInv'
<1> SUFFICES ASSUME NEW b \in Agents PROVE LateOf(b)'
  BY DEF LateInv
<1>a. LateOf(b)
  BY DEF LateInv
<1>1. ASSUME UNCHANGED <<phase, flag, pc, late>> PROVE LateOf(b)'
  BY <1>1, <1>a, LateKept
<1>2. ASSUME NEW a \in Agents, CheckFlag(a) PROVE LateOf(b)'
  <2>1. CASE a = b
    BY <1>2, <1>a, <2>1 DEF CheckFlag, At, LateOf, TypeOK, Put
  <2>2. CASE a # b
    <3>1. phase'[b] = phase[b] /\ pc'[b] = pc[b] /\ UNCHANGED <<flag, late>>
      BY <1>2, <2>2 DEF CheckFlag, TypeOK, Put
    <3> QED BY <1>a, <3>1, LateKept
  <2> QED BY <2>1, <2>2
<1>3. ASSUME NEW a \in Agents, Take(a) PROVE LateOf(b)'
  <2>1. UNCHANGED <<phase, flag>>
    BY <1>3 DEF Take
  <2>2. CASE a = b
    <3>1. /\ phase[b] = "serving" /\ pc[b] = "step" /\ flag[b] \in BOOLEAN
          /\ late'[b] = IF flag[b] THEN late[b] + 1 ELSE 0
          /\ pc'[b] # "step"
      BY <1>3, <2>2 DEF Take, At, TypeOK, Put
    <3>2. late[b] = 0
      BY <1>a, <3>1 DEF LateOf
    <3> QED BY <2>1, <3>1, <3>2 DEF LateOf
  <2>3. CASE a # b
    <3>1. late'[b] = late[b] /\ pc'[b] = pc[b]
      BY <1>3, <2>3 DEF Take, TypeOK, Put
    <3> QED BY <1>a, <2>1, <3>1, LateKept
  <2> QED BY <2>2, <2>3
<1>4. ASSUME NEW a \in Agents, Idle(a) \/ Return(a) PROVE LateOf(b)'
  <2>1. UNCHANGED <<phase, flag, late>>
    BY <1>4 DEF Idle, Return
  <2>2. pc'[b] = pc[b] \/ pc'[b] # "step"
    BY <1>4 DEF Idle, Return, TypeOK, Put
  <2> QED BY <1>a, <2>1, <2>2, LateKept
<1>5. ASSUME NEW a \in Agents, Finalize(a) \/ Exit(a) \/ Crash(a) PROVE LateOf(b)'
  <2>1. UNCHANGED late
    BY <1>5 DEF Finalize, Exit, Crash, Gone
  <2>2. CASE a = b
    <3>1. phase'[b] # "serving"
      BY <1>5, <2>2 DEF Finalize, Exit, Crash, Gone, TypeOK, Put
    <3> QED BY <1>a, <2>1, <3>1 DEF LateOf
  <2>3. CASE a # b
    <3>1. phase'[b] = phase[b] /\ flag'[b] = flag[b] /\ pc'[b] = pc[b]
      BY <1>5, <2>3 DEF Finalize, Exit, Crash, Gone, TypeOK, Put
    <3> QED BY <1>a, <2>1, <3>1, LateKept
  <2> QED BY <2>2, <2>3
<1>6. ASSUME NEW a \in Agents, Serve(a) \/ Signal(a) PROVE LateOf(b)'
  <2>1. UNCHANGED <<phase, pc, late>>
    BY <1>6 DEF Serve, Signal
  <2>2. flag'[b] = flag[b] \/ flag'[b] = TRUE
    BY <1>6 DEF Serve, Signal, TypeOK, Put
  <2> QED BY <1>a, <2>1, <2>2, LateKept
<1>7. ASSUME NEW a \in Agents, Restart(a) PROVE LateOf(b)'
  <2>1. CASE a = b
    BY <1>7, <2>1 DEF Restart, LateOf, TypeOK, Put
  <2>2. CASE a # b
    <3>1. phase'[b] = phase[b] /\ late'[b] = late[b] /\ UNCHANGED <<flag, pc>>
      BY <1>7, <2>2 DEF Restart, TypeOK, Put
    <3> QED BY <1>a, <3>1, LateKept
  <2> QED BY <2>1, <2>2
<1>8. ASSUME NEW a \in Agents, Send(a) \/ Reply(a) PROVE LateOf(b)'
  BY <1>1, <1>8 DEF Send, Reply
<1>9. ASSUME NEW c \in Clients,
             ClientReturn(c) \/ \E a \in Agents : ClientPost(c, a)
      PROVE  LateOf(b)'
  BY <1>1, <1>9 DEF ClientReturn, ClientPost
<1>10. ASSUME NEW c \in Callers, LoseConnection(c) PROVE LateOf(b)'
  BY <1>1, <1>10 DEF LoseConnection
<1>11. CASE UNCHANGED vars
  BY <1>1, <1>11 DEF vars
<1>12. ASSUME NEW a \in Agents, RunnerThread(a) PROVE LateOf(b)'
  BY <1>2, <1>3, <1>4, <1>5, <1>8, <1>12 DEF RunnerThread
<1>13. ASSUME NEW a \in Agents,
              ServerThread(a) \/ EndBody(a) \/ Crash(a) \/ Signal(a) \/ Restart(a)
       PROVE  LateOf(b)'
  BY <1>5, <1>6, <1>7, <1>8, <1>13 DEF ServerThread, Respond, EndBody
<1> QED BY <1>9, <1>10, <1>11, <1>12, <1>13 DEF Next

\* However many messages wait and whatever breaks, a process that was told to
\* stop takes at most one more (main.rs:384-403).
THEOREM StopsSoonHolds == Spec => []StopsSoon
<1>1. Init => LateInv
  <2> SUFFICES ASSUME Init, NEW b \in Agents PROVE LateOf(b)
    BY DEF LateInv
  <2>1. late[b] = 0
    BY DEF Init
  <2> QED BY <2>1 DEF LateOf
<1>2. TypeOK /\ LateInv /\ [Next]_vars => LateInv'
  BY LateStep
<1>3. LateInv => StopsSoon
  <2> SUFFICES ASSUME LateInv, NEW b \in Agents PROVE late[b] <= 1
    BY DEF StopsSoon
  <2> QED BY DEF LateInv, LateOf
<1> QED BY <1>1, <1>2, <1>3, TypeCorrect, PTL DEF Spec

-----------------------------------------------------------------------------
(* No call is forgotten.                                                     *)

Carries(b, c) == \E r \in UnderWay(b) : r.caller = c /\ r.n = sent[c]

\* Whoever waits for an answer waits for a process that lives and has the
\* request, in its server's hands or before them: a reply, a refusal, a broken
\* connection and the end of a process each tell every caller they concern, and
\* a server answers the request it took (client.rs:17-37, server.rs:88-107).
NobodyForgotten ==
  \A c \in Callers : answer[c] = "waiting" => \E b \in Agents : Alive(b) /\ Carries(b, c)

\* A server deals with one request at a time (server.rs:88-107).
OneRequest == \A b \in Agents : \A s, u \in serving[b] : s = u

LEMMA OneRequestStep == TypeOK /\ OneRequest /\ [Next]_vars => OneRequest'
<1> SUFFICES ASSUME TypeOK, OneRequest, [Next]_vars PROVE OneRequest'
  OBVIOUS
<1>1. ASSUME NEW b \in Agents, Serve(b) PROVE OneRequest'
  <2>1. PICK r, ok : serving' = Put(serving, b, {[request |-> r, ok |-> ok]})
    BY <1>1, ServeCases DEF Accepts, Refuses
  <2>2. /\ serving'[b] = {[request |-> r, ok |-> ok]}
        /\ \A d \in Agents \ {b} : serving'[d] = serving[d]
    BY <2>1 DEF TypeOK, Put
  <2> QED BY <2>2 DEF OneRequest
<1>2. CASE Quiet
  BY <1>2 DEF Quiet, OneRequest
<1>3. CASE UNCHANGED serving
  BY <1>3 DEF OneRequest
<1> QED BY <1>1, <1>2, <1>3, StepCases DEF Posted, NoUrl

\* Somebody who waits and whose request is where it was.
StillCarried(c) ==
  answer[c] = "waiting" /\ \A b \in Agents : Carries(b, c) /\ Alive(b) => (Carries(b, c) /\ Alive(b))'

LEMMA StillHeld ==
  ASSUME NobodyForgotten, \A c \in Callers : answer'[c] = "waiting" => StillCarried(c)
  PROVE  NobodyForgotten'
BY DEF NobodyForgotten, StillCarried

LEMMA CarriedOn ==
  ASSUME UNCHANGED <<transit, serving, sent>>, NEW b \in Agents, NEW c \in Callers
  PROVE  Carries(b, c)' = Carries(b, c)
BY DEF Carries, UnderWay

LEMMA HeldStep ==
  ASSUME TypeOK, OneRequest, NobodyForgotten, [Next]_vars
  PROVE  NobodyForgotten'
\* A server takes a request in hand.
<1>1. ASSUME NEW b \in Agents, Serve(b) PROVE NobodyForgotten'
  <2>1. PICK r \in transit[b], ok \in BOOLEAN :
          /\ transit' = Put(transit, b, transit[b] \ {r})
          /\ serving' = Put(serving, b, {[request |-> r, ok |-> ok]})
    BY <1>1, ServeCases DEF Accepts, Refuses
  <2>2. /\ transit'[b] = transit[b] \ {r} /\ serving'[b] = {[request |-> r, ok |-> ok]}
        /\ \A d \in Agents \ {b} : transit'[d] = transit[d] /\ serving'[d] = serving[d]
    BY <2>1 DEF TypeOK, Put
  <2>3. \A d \in Agents : UnderWay(d) \subseteq UnderWay(d)'
    <3>1. serving[b] = {}
      BY <1>1 DEF Serve
    <3>2. {s.request : s \in serving'[b]} = {r}
      BY <2>2
    <3>3. UnderWay(b) \subseteq UnderWay(b)'
      BY <2>2, <3>1, <3>2 DEF UnderWay
    <3>4. \A d \in Agents \ {b} : UnderWay(d) = UnderWay(d)'
      BY <2>2 DEF UnderWay
    <3> QED BY <3>3, <3>4
  <2>4. UNCHANGED <<sent, answer, phase>>
    BY <1>1 DEF Serve
  <2>5. \A c \in Callers : answer'[c] = "waiting" => StillCarried(c)
    BY <2>3, <2>4 DEF StillCarried, Carries, Alive
  <2> QED BY <2>5, StillHeld
\* A request is posted; the caller waits only if it was put before a server.
<1>2. ASSUME NEW c \in Callers, NEW b \in Agents, NEW r \in Requests, Posted(c, b, r)
      PROVE  NobodyForgotten'
  <2>1. /\ sent' = Put(sent, c, r.n) /\ r.caller = c
        /\ UNCHANGED <<phase, serving>>
        /\ \/ /\ Alive(b) /\ transit' = Put(transit, b, transit[b] \cup {r})
              /\ answer' = Put(answer, c, "waiting")
           \/ answer' = Put(answer, c, "error") /\ UNCHANGED transit
    BY <1>2 DEF Posted, Posts, Post
  <2>2. /\ sent'[c] = r.n
        /\ \A e \in Callers \ {c} : sent'[e] = sent[e] /\ answer'[e] = answer[e]
    BY <2>1 DEF TypeOK, Put
  <2>3. \A d \in Agents : UnderWay(d) \subseteq UnderWay(d)'
    <3>1. ASSUME transit' = Put(transit, b, transit[b] \cup {r}), NEW d \in Agents
          PROVE  transit[d] \subseteq transit'[d]
      BY <3>1 DEF TypeOK, Put
    <3>2. \A d \in Agents : transit[d] \subseteq transit'[d]
      BY <2>1, <3>1
    <3> QED BY <2>1, <3>2 DEF UnderWay
  <2>4. ASSUME NEW e \in Callers \ {c}, answer'[e] = "waiting"
        PROVE  \E d \in Agents : (Alive(d) /\ Carries(d, e))'
    <3>1. PICK d \in Agents : Alive(d) /\ Carries(d, e)
      BY <2>2, <2>4 DEF NobodyForgotten
    <3> QED BY <2>1, <2>2, <2>3, <3>1 DEF Alive, Carries
  <2>5. ASSUME answer'[c] = "waiting" PROVE \E d \in Agents : (Alive(d) /\ Carries(d, c))'
    <3>1. Alive(b) /\ transit'[b] = transit[b] \cup {r}
      BY <2>1, <2>5 DEF TypeOK, Put
    <3>2. r \in UnderWay(b)'
      BY <3>1 DEF UnderWay
    <3> QED BY <2>1, <2>2, <3>1, <3>2 DEF Alive, Carries
  <2> QED BY <2>4, <2>5 DEF NobodyForgotten
\* A server answers everybody whose current request it holds.
<1>3. ASSUME NEW b \in Agents, Reply(b) PROVE NobodyForgotten'
  <2>1. PICK s \in serving[b] :
          answer' = [c \in Callers |->
                       IF c \in WaitingFor({s.request})
                       THEN IF s.ok THEN "ok" ELSE "error"
                       ELSE answer[c]]
    BY <1>3 DEF Reply
  <2>2. UNCHANGED <<phase, transit, sent>> /\ \A d \in Agents \ {b} : serving'[d] = serving[d]
    BY <1>3 DEF Reply, TypeOK, Put
  <2>3. {u.request : u \in serving[b]} = {s.request}
    BY <2>1 DEF OneRequest
  <2>4. ASSUME NEW c \in Callers, answer'[c] = "waiting" PROVE StillCarried(c)
    <3>1. answer[c] = "waiting" /\ c \notin WaitingFor({s.request})
      BY <2>1, <2>4
    <3>2. ~(s.request.caller = c /\ s.request.n = sent[c])
      BY <3>1 DEF WaitingFor
    <3>3. ASSUME NEW d \in Agents, Carries(d, c), Alive(d) PROVE (Carries(d, c) /\ Alive(d))'
      <4>1. PICK r \in UnderWay(d) : r.caller = c /\ r.n = sent[c]
        BY <3>3 DEF Carries
      <4>2. r \in UnderWay(d)'
        BY <2>2, <2>3, <3>2, <4>1 DEF UnderWay
      <4> QED BY <2>2, <3>3, <4>1, <4>2 DEF Carries, Alive
    <3> QED BY <3>1, <3>3 DEF StillCarried
  <2> QED BY <2>4, StillHeld
\* The end of a process is an error for everybody whose request it had.
<1>4. ASSUME NEW b \in Agents, NEW how, Gone(b, how) PROVE NobodyForgotten'
  <2>1. /\ UNCHANGED sent
        /\ \A d \in Agents \ {b} : UnderWay(d)' = UnderWay(d) /\ phase'[d] = phase[d]
    BY <1>4 DEF Gone, TypeOK, Put, UnderWay
  <2>2. answer' = [c \in Callers |->
                     IF c = b THEN "idle"
                     ELSE IF c \in WaitingFor(UnderWay(b)) THEN "error" ELSE answer[c]]
    BY <1>4 DEF Gone, UnderWay
  <2>3. ASSUME NEW c \in Callers, answer'[c] = "waiting" PROVE StillCarried(c)
    <3>1. answer[c] = "waiting" /\ c \notin WaitingFor(UnderWay(b))
      BY <2>2, <2>3
    <3>2. ~Carries(b, c)
      BY <3>1 DEF WaitingFor, Carries
    <3> QED BY <2>1, <3>1, <3>2 DEF StillCarried, Carries, Alive
  <2> QED BY <2>3, StillHeld
\* A broken connection takes away requests of one caller, who is told.
<1>5. ASSUME NEW c \in Callers, LoseConnection(c) PROVE NobodyForgotten'
  <2>1. answer' = Put(answer, c, "error") /\ UNCHANGED <<phase, serving, sent>>
    BY <1>5 DEF LoseConnection
  <2>2. \A d \in Agents : \A r \in UnderWay(d) : r.caller # c => r \in UnderWay(d)'
    <3>1. UNCHANGED transit \/ transit' = [b \in Agents |-> transit[b] \ CurrentRequest(c)]
      BY <1>5 DEF LoseConnection
    <3> QED BY <2>1, <3>1 DEF UnderWay, CurrentRequest
  <2>3. ASSUME NEW e \in Callers, answer'[e] = "waiting" PROVE StillCarried(e)
    <3>1. e # c /\ answer[e] = "waiting"
      BY <2>1, <2>3 DEF TypeOK, Put
    <3> QED BY <2>1, <2>2, <3>1 DEF StillCarried, Carries, Alive
  <2> QED BY <2>3, StillHeld
\* The other steps leave requests alone, and make nobody wait.
<1>6. ASSUME UNCHANGED <<transit, serving, sent>>,
             \A c \in Callers : answer'[c] = "waiting" => answer[c] = "waiting",
             \A b \in Agents : Alive(b) => Alive(b)'
      PROVE  NobodyForgotten'
  BY <1>6, CarriedOn, StillHeld DEF StillCarried
<1>7. ASSUME NEW b \in Agents, CheckFlag(b) \/ Finalize(b) \/ Restart(b) \/ Idle(b) \/ Take(b)
               \/ Signal(b)
      PROVE  NobodyForgotten'
  <2>1. UNCHANGED <<transit, serving, sent, answer>>
    BY <1>7 DEF CheckFlag, Finalize, Restart, Idle, Take, Signal
  <2>2. \A d \in Agents : Alive(d) => Alive(d)'
    <3>1. UNCHANGED phase \/ \E to \in {"closing", "closed", "serving"} : phase' = Put(phase, b, to)
      BY <1>7 DEF CheckFlag, Finalize, Restart, Idle, Take, Signal
    <3> QED BY <3>1 DEF TypeOK, Put, Alive
  <2> QED BY <1>6, <2>1, <2>2
<1>8. ASSUME NEW c \in Callers, answer' = Put(answer, c, "idle"),
             UNCHANGED <<phase, transit, serving, sent>>
      PROVE  NobodyForgotten'
  <2>1. \A e \in Callers : answer'[e] = "waiting" => answer[e] = "waiting"
    BY <1>8 DEF TypeOK, Put
  <2> QED BY <1>6, <1>8, <2>1 DEF Alive
<1>9. ASSUME NEW b \in Agents, Send(b) \/ Return(b) PROVE NobodyForgotten'
  <2>1. b \in Callers
    BY DEF Callers
  <2>2. CASE Return(b)
    BY <1>8, <2>1, <2>2 DEF Return
  <2>3. CASE Send(b)
    <3>1. Head(todo[b]) \in SendsTo /\ pc[b] = "send"
      BY <2>3, SendCases
    <3>2. ASSUME NEW r \in Requests, Posts(b, Head(todo[b]).peer, r),
                 r.kind = "message", r.topic = Head(todo[b]).topic
          PROVE  NobodyForgotten'
      <4>1. Posted(b, Head(todo[b]).peer, r) /\ Head(todo[b]).peer \in Agents
        BY <2>3, <3>1, <3>2, SendCases DEF Posted, CurrentSend, SendsTo
      <4> QED BY <1>2, <2>1, <4>1
    <3>3. ASSUME answer' = Put(answer, b, "error"), sent' = Put(sent, b, sent[b] + 1),
                 UNCHANGED transit
          PROVE  NobodyForgotten'
      <4>1. UNCHANGED <<phase, serving>>
        BY <2>3 DEF Send
      <4>2. \A e \in Callers \ {b} : sent'[e] = sent[e] /\ answer'[e] = answer[e]
        BY <3>3 DEF TypeOK, Put
      <4>3. answer'[b] # "waiting"
        BY <2>1, <3>3 DEF TypeOK, Put
      <4>4. \A e \in Callers : answer'[e] = "waiting" => StillCarried(e)
        BY <3>3, <4>1, <4>2, <4>3 DEF StillCarried, Carries, UnderWay, Alive
      <4> QED BY <4>4, StillHeld
    <3> QED BY <2>3, <3>2, <3>3, SendCases
  <2> QED BY <1>9, <2>2, <2>3
<1>10. ASSUME NEW c \in Clients, NEW b \in Agents, ClientPost(c, b) PROVE NobodyForgotten'
  <2>1. c \in Callers /\ c \notin Agents
    BY DeliveryAssumption DEF Callers
  <2>2. PICK r \in Requests : Posts(c, b, r)
    BY <1>10, ClientPostCases
  <2>3. Posted(c, b, r)
    BY <1>10, <2>1, <2>2, ClientPostCases DEF Posted
  <2> QED BY <1>2, <2>1, <2>3
<1>11. ASSUME NEW c \in Clients, ClientReturn(c) PROVE NobodyForgotten'
  BY <1>8, <1>11 DEF ClientReturn, Callers
<1>12. CASE UNCHANGED vars
  BY <1>6, <1>12 DEF vars, Alive
<1>13. ASSUME NEW b \in Agents, RunnerThread(b) PROVE NobodyForgotten'
  BY <1>4, <1>7, <1>9, <1>13 DEF RunnerThread, Exit
<1>14. ASSUME NEW b \in Agents,
              ServerThread(b) \/ EndBody(b) \/ Crash(b) \/ Signal(b) \/ Restart(b)
       PROVE  NobodyForgotten'
  BY <1>1, <1>3, <1>4, <1>7, <1>14 DEF ServerThread, Respond, EndBody, Crash
<1> QED BY <1>5, <1>10, <1>11, <1>12, <1>13, <1>14 DEF Next

\* No step of anybody leaves a caller waiting for nothing: with servers that
\* are scheduled, and bodies that end, this is what CallsReturn rests on.
THEOREM NobodyForgottenHolds == Spec => [](NobodyForgotten /\ OneRequest)
<1>1. Init => NobodyForgotten /\ OneRequest
  BY DEF Init, NobodyForgotten, OneRequest
<1>2. TypeOK /\ NobodyForgotten /\ OneRequest /\ [Next]_vars => (NobodyForgotten /\ OneRequest)'
  BY HeldStep, OneRequestStep
<1> QED BY <1>1, <1>2, TypeCorrect, PTL DEF Spec

-----------------------------------------------------------------------------
(* The way to a stop.  Told to stop, a runner is somewhere on a course from   *)
(* the step it is in to its end, with some sends of that step left.          *)

Course(b) ==
  CASE At(b, "step")         -> 1
    [] At(b, "send")         -> 2
    [] At(b, "check")        -> 3
    [] phase[b] = "closing"  -> 4
    [] phase[b] = "closed"   -> 5
    [] OTHER                 -> 6

SendsLeft(b) == 2 * Len(todo[b]) + (IF answer[b] = "idle" THEN 1 ELSE 0)

Later(b) == Course(b)' > Course(b)
Nearer(b) ==
  /\ Course(b)' = Course(b)
  /\ SendsLeft(b) \in Nat /\ SendsLeft(b)' \in Nat /\ SendsLeft(b)' < SendsLeft(b)
NoFurther(b) == Course(b)' = Course(b) /\ SendsLeft(b)' = SendsLeft(b)

StopCourse(b) ==
  /\ RunnerThread(b) => Later(b) \/ Nearer(b)
  /\ Later(b) \/ Nearer(b) \/ NoFurther(b)

\* Every turn of a runner that was told to stop brings its end nearer, and
\* nothing that servers, peers, clients or the network do puts it off
\* (main.rs:384-423, executor.rs:66-69).
StopNears == [][\A b \in Agents : flag[b] /\ Alive(b) => StopCourse(b)]_vars

Stays(b) ==
  /\ phase'[b] = phase[b] /\ pc'[b] = pc[b] /\ todo'[b] = todo[b]
  /\ answer'[b] = "idle" <=> answer[b] = "idle"

LEMMA StaysPut == ASSUME NEW b \in Agents, Stays(b) PROVE NoFurther(b)
BY DEF Stays, NoFurther, Course, SendsLeft, At

\* A turn of the runner itself.
LEMMA RunnerNears ==
  ASSUME TypeOK, NEW b \in Agents, flag[b], RunnerThread(b)
  PROVE  Later(b) \/ Nearer(b)
<1>1. CASE CheckFlag(b)
  <2>1. At(b, "check") /\ phase'[b] = "closing"
    BY <1>1 DEF CheckFlag, TypeOK, Put
  <2> QED BY <2>1 DEF Later, Course, At
<1>2. CASE Idle(b)
  <2>1. At(b, "step") /\ phase'[b] = "serving" /\ pc'[b] = "check"
    BY <1>2 DEF Idle, At, TypeOK, Put
  <2> QED BY <2>1 DEF Later, Course, At
<1>3. CASE Take(b)
  <2>1. At(b, "step") /\ phase'[b] = "serving" /\ pc'[b] \in {"check", "send"}
    BY <1>3 DEF Take, At, TypeOK, Put
  <2> QED BY <2>1 DEF Later, Course, At
<1>4. CASE Send(b)
  <2>1. b \in Callers
    BY DEF Callers
  <2>2. At(b, "send") /\ answer[b] = "idle" /\ UNCHANGED <<phase, pc, todo>>
    BY <1>4 DEF Send, Post
  <2>3. answer'[b] \in {"waiting", "error"}
    BY <1>4, <2>1 DEF Send, Post, TypeOK, Put
  <2>4. Len(todo[b]) \in Nat
    BY LenProperties DEF TypeOK
  <2>5. SendsLeft(b) = 2 * Len(todo[b]) + 1 /\ SendsLeft(b)' = 2 * Len(todo[b]) + 0
    BY <2>2, <2>3 DEF SendsLeft
  <2>6. SendsLeft(b) \in Nat /\ SendsLeft(b)' \in Nat /\ SendsLeft(b)' < SendsLeft(b)
    BY <2>4, <2>5
  <2>7. Course(b)' = Course(b)
    BY <2>2 DEF Course, At
  <2> QED BY <2>6, <2>7 DEF Nearer
<1>5. CASE Return(b)
  <2>1. b \in Callers
    BY DEF Callers
  <2>2. /\ At(b, "send") /\ answer[b] \in {"ok", "error"} /\ UNCHANGED phase
        /\ todo[b] # <<>> /\ todo[b] \in Seq(SendsTo)
    BY <1>5 DEF Return, At, TypeOK
  <2>3. /\ answer'[b] = "idle" /\ todo'[b] = Tail(todo[b])
        /\ pc'[b] = IF Tail(todo[b]) = <<>> THEN "check" ELSE "send"
    BY <1>5, <2>1 DEF Return, TypeOK, Put
  <2>4. CASE Tail(todo[b]) = <<>>
    BY <2>2, <2>3, <2>4 DEF Later, Course, At
  <2>5. CASE Tail(todo[b]) # <<>>
    <3>1. PICK n \in Nat : n = Len(Tail(todo[b])) /\ Len(todo[b]) = n + 1
      <4>1. Tail(todo[b]) \in Seq(SendsTo) /\ Len(Tail(todo[b])) = Len(todo[b]) - 1
        BY <2>2, HeadTailProperties
      <4>2. Len(todo[b]) \in Nat /\ Len(Tail(todo[b])) \in Nat
        BY <2>2, <4>1, LenProperties
      <4>3. ASSUME NEW m \in Nat, NEW k \in Nat, k = m - 1 PROVE m = k + 1
        BY <4>3
      <4> QED BY <4>1, <4>2, <4>3
    <3>2. SendsLeft(b) = 2 * (n + 1) + 0 /\ SendsLeft(b)' = 2 * n + 1
      BY <2>2, <2>3, <3>1 DEF SendsLeft
    <3>3. SendsLeft(b) \in Nat /\ SendsLeft(b)' \in Nat /\ SendsLeft(b)' < SendsLeft(b)
      BY <3>2
    <3>4. Course(b)' = Course(b)
      BY <2>2, <2>3, <2>5 DEF Course, At
    <3> QED BY <3>3, <3>4 DEF Nearer
  <2> QED BY <2>4, <2>5
<1>6. CASE Finalize(b)
  <2>1. phase[b] = "closing" /\ phase'[b] = "closed"
    BY <1>6 DEF Finalize, TypeOK, Put
  <2> QED BY <2>1 DEF Later, Course, At
<1>7. CASE Exit(b)
  <2>1. phase[b] = "closed" /\ phase'[b] = "exited"
    BY <1>7 DEF Exit, Gone, TypeOK, Put
  <2> QED BY <2>1 DEF Later, Course, At
<1> QED BY <1>1, <1>2, <1>3, <1>4, <1>5, <1>6, <1>7 DEF RunnerThread

LEMMA Waiters ==
  ASSUME NEW requests, NEW c \in WaitingFor(requests)
  PROVE  answer[c] = "waiting"
BY DEF WaitingFor

LEMMA GoneTells ==
  ASSUME NEW b \in Agents, NEW how, Gone(b, how), NEW c \in Callers, c # b
  PROVE  answer'[c] = answer[c] \/ (answer'[c] = "error" /\ answer[c] = "waiting")
<1> DEFINE requests == transit[b] \cup {s.request : s \in serving[b]}
<1>1. answer'[c] = IF c \in WaitingFor(requests) THEN "error" ELSE answer[c]
  BY DEF Gone
<1> HIDE DEF requests
<1> QED BY <1>1, Waiters

LEMMA StopSteps ==
  ASSUME TypeOK, [Next]_vars, NEW b \in Agents, flag[b], Alive(b)
  PROVE  StopCourse(b)
<1> DEFINE Moves == RunnerThread(b) \/ Stays(b) \/ phase'[b] = "crashed"
<1>a. b \in Callers
  BY DEF Callers
<1>1. ASSUME NEW d \in Agents \ {b}, RunnerThread(d) PROVE Moves
  <2>1. phase'[b] = phase[b] /\ pc'[b] = pc[b] /\ todo'[b] = todo[b]
    BY <1>1 DEF RunnerThread, CheckFlag, Idle, Take, Send, Return, Finalize, Exit, Gone,
      TypeOK, Put
  <2>2. CASE Exit(d)
    <3>1. answer'[b] = answer[b] \/ (answer'[b] = "error" /\ answer[b] = "waiting")
      BY <1>1, <1>a, <2>2, GoneTells DEF Exit
    <3> QED BY <2>1, <3>1 DEF Stays
  <2>3. CASE ~Exit(d)
    <3>1. UNCHANGED answer \/ \E x : answer' = Put(answer, d, x)
      BY <1>1, <2>3 DEF RunnerThread, CheckFlag, Idle, Take, Send, Post, Return, Finalize
    <3>2. answer'[b] = answer[b]
      BY <1>a, <3>1 DEF TypeOK, Put
    <3> QED BY <2>1, <3>2 DEF Stays
  <2> QED BY <2>2, <2>3
<1>2. ASSUME NEW d \in Agents, Reply(d) PROVE Moves
  <2>1. answer'[b] = answer[b] \/ (answer'[b] \in {"ok", "error"} /\ answer[b] = "waiting")
    <3>1. PICK s \in serving[d] :
            answer' = [c \in Callers |->
                         IF c \in WaitingFor({s.request})
                         THEN IF s.ok THEN "ok" ELSE "error"
                         ELSE answer[c]]
      BY <1>2 DEF Reply
    <3>2. CASE b \in WaitingFor({s.request})
      BY <1>a, <3>1, <3>2, Waiters
    <3>3. CASE b \notin WaitingFor({s.request})
      BY <1>a, <3>1, <3>3
    <3> QED BY <3>2, <3>3
  <2>2. UNCHANGED <<phase, pc, todo>>
    BY <1>2 DEF Reply
  <2> QED BY <2>1, <2>2 DEF Stays
<1>3. ASSUME NEW d \in Agents, Crash(d) PROVE Moves
  <2>1. CASE d = b
    BY <1>3, <2>1 DEF Crash, Gone, TypeOK, Put
  <2>2. CASE d # b
    <3>1. phase'[b] = phase[b] /\ pc'[b] = pc[b] /\ todo'[b] = todo[b]
      BY <1>3, <2>2 DEF Crash, Gone, TypeOK, Put
    <3>2. answer'[b] = answer[b] \/ (answer'[b] = "error" /\ answer[b] = "waiting")
      BY <1>3, <1>a, <2>2, GoneTells DEF Crash
    <3> QED BY <3>1, <3>2 DEF Stays
  <2> QED BY <2>1, <2>2
<1>4. ASSUME NEW d \in Agents, Serve(d) \/ Signal(d) PROVE Moves
  BY <1>4 DEF Serve, Signal, Stays
<1>5. ASSUME NEW d \in Agents, Restart(d) PROVE Moves
  <2>1. d # b
    BY <1>5 DEF Restart
  <2>2. UNCHANGED <<pc, todo, answer>> /\ phase'[b] = phase[b]
    BY <1>5, <2>1 DEF Restart, TypeOK, Put
  <2> QED BY <2>2 DEF Stays
<1>6. ASSUME NEW c \in Clients, ClientReturn(c) \/ \E d \in Agents : ClientPost(c, d)
      PROVE  Moves
  <2>1. c # b /\ c \in Callers
    BY DeliveryAssumption DEF Callers
  <2>2. UNCHANGED <<phase, pc, todo>> /\ \E x : answer' = Put(answer, c, x)
    BY <1>6 DEF ClientReturn, ClientPost, Post
  <2>3. answer'[b] = answer[b]
    BY <1>a, <2>1, <2>2 DEF TypeOK, Put
  <2> QED BY <2>2, <2>3 DEF Stays
<1>7. ASSUME NEW c \in Callers, LoseConnection(c) PROVE Moves
  <2>1. UNCHANGED <<phase, pc, todo>> /\ answer[c] = "waiting" /\ answer' = Put(answer, c, "error")
    BY <1>7 DEF LoseConnection
  <2>2. answer'[b] = answer[b] \/ (answer'[b] = "error" /\ answer[b] = "waiting")
    <3>1. CASE c = b
      BY <1>a, <2>1, <3>1 DEF TypeOK, Put
    <3>2. CASE c # b
      BY <1>a, <2>1, <3>2 DEF TypeOK, Put
    <3> QED BY <3>1, <3>2
  <2> QED BY <2>1, <2>2 DEF Stays
<1>8. ASSUME UNCHANGED vars PROVE Moves
  <2>1. phase' = phase /\ pc' = pc /\ todo' = todo /\ answer' = answer
    BY <1>8 DEF vars
  <2> QED BY <2>1 DEF Stays
<1>9. Moves
  <2> HIDE DEF Moves
  <2>1. ASSUME NEW d \in Agents, RunnerThread(d) PROVE Moves
    <3>1. CASE d = b
      BY <2>1, <3>1 DEF Moves
    <3> QED BY <1>1, <2>1, <3>1
  <2>2. ASSUME NEW d \in Agents,
               ServerThread(d) \/ EndBody(d) \/ Crash(d) \/ Signal(d) \/ Restart(d)
        PROVE  Moves
    BY <1>2, <1>3, <1>4, <1>5, <2>2 DEF ServerThread, Respond, EndBody
  <2> QED BY <1>6, <1>7, <1>8, <2>1, <2>2 DEF Next
<1>10. CASE RunnerThread(b)
  BY <1>10, RunnerNears DEF StopCourse
<1>11. CASE ~RunnerThread(b)
  <2>1. CASE Stays(b)
    BY <1>11, <2>1, StaysPut DEF StopCourse
  <2>2. CASE phase'[b] = "crashed"
    <3>1. Later(b)
      <4>1. Course(b)' = 6
        BY <2>2 DEF Course, At
      <4>2. Course(b) \in 1..5
        BY DEF Course, At, Alive, TypeOK
      <4> QED BY <4>1, <4>2 DEF Later
    <3> QED BY <1>11, <3>1 DEF StopCourse
  <2> QED BY <1>9, <1>11, <2>1, <2>2
<1> QED BY <1>10, <1>11

\* However many messages wait, a runner that was told to stop has a bounded
\* number of turns left: with CallsReturn and the fairness of its thread this is
\* what ShutdownEnds rests on.
THEOREM StopNearsHolds == Spec => StopNears
<1>1. TypeOK /\ [Next]_vars
        => [\A b \in Agents : flag[b] /\ Alive(b) => StopCourse(b)]_vars
  BY StopSteps
<1>2. Spec => [][\A b \in Agents : flag[b] /\ Alive(b) => StopCourse(b)]_vars
  BY <1>1, TypeCorrect, PTL DEF Spec
<1> QED BY <1>2 DEF StopNears

=============================================================================

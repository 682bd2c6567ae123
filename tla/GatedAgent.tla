----------------------------- MODULE GatedAgent -----------------------------
(***************************************************************************)
(* What a soft agent promises to whoever runs it, without saying how:       *)
(* messages are taken one at a time in the order they were accepted, each   *)
(* of the actions a message leads to is decided exactly once and in order,  *)
(* and an action reaches the world if and only if the policy permits it in  *)
(* the state the agent is in at that moment.  Runner implements this with   *)
(* a gate, an allowlist, an executor, counters and a trace.                 *)
(***************************************************************************)
EXTENDS Naturals, Sequences

CONSTANTS
  Messages,   \* what the inbox holds
  States,     \* values of the agent's state
  Actions,    \* what the agent may want to do
  Lists       \* the lists of actions one message may lead to

VARIABLES
  policy,     \* the pairs <<state, action>> that are permitted
  inbox,      \* accepted messages, oldest first
  agentState,
  todo,       \* wanted actions of the current message, in order
  effects,    \* what was done to the world, with the state it was done in
  up          \* FALSE once the agent was stopped or died

agentVars == <<policy, inbox, agentState, todo, effects, up>>

AgentInit ==
  /\ policy \in SUBSET (States \X Actions)
  /\ inbox = <<>>
  /\ agentState \in States
  /\ todo = <<>>
  /\ effects = <<>>
  /\ up = TRUE

AcceptMessage ==
  /\ up
  /\ \E m \in Messages : inbox' = Append(inbox, m)
  /\ UNCHANGED <<policy, agentState, todo, effects, up>>

\* The oldest message is consumed: either it changes the state and leads to
\* actions, or it fails and does neither.
Take ==
  /\ up
  /\ todo = <<>>
  /\ inbox # <<>>
  /\ inbox' = Tail(inbox)
  /\ \/ /\ agentState' \in States
        /\ todo' \in Lists
     \/ UNCHANGED <<agentState, todo>>
  /\ UNCHANGED <<policy, effects, up>>

Reject ==
  /\ up
  /\ todo # <<>>
  /\ <<agentState, Head(todo)>> \notin policy
  /\ todo' = Tail(todo)
  /\ UNCHANGED <<policy, inbox, agentState, effects, up>>

Perform ==
  /\ up
  /\ todo # <<>>
  /\ <<agentState, Head(todo)>> \in policy
  /\ todo' = Tail(todo)
  /\ \E ok \in BOOLEAN :
       effects' = Append(effects, [action |-> Head(todo),
                                   state |-> agentState, ok |-> ok])
  /\ UNCHANGED <<policy, inbox, agentState, up>>

Stop ==
  /\ up
  /\ up' = FALSE
  /\ UNCHANGED <<policy, inbox, agentState, todo, effects>>

AgentNext == AcceptMessage \/ Take \/ Reject \/ Perform \/ Stop

AgentSpec == AgentInit /\ [][AgentNext]_agentVars

\* An agent that stays up works off its inbox and its wanted actions.
AgentFairSpec == AgentSpec /\ WF_agentVars(Take) /\ WF_agentVars(Reject \/ Perform)
=============================================================================

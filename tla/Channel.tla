------------------------------- MODULE Channel -------------------------------
(***************************************************************************)
(* What both transports promise the agents (the executors of               *)
(* crates/soft-agent/src/router.rs and crates/soft-a2a/src/executor.rs, and *)
(* the mailbox behind them): a mailbox accepts a message at most once and   *)
(* hands out what it accepted in that order; a sender is told Ok only for   *)
(* what was accepted; nothing is lost but with the mailbox.                *)
(***************************************************************************)
EXTENDS Naturals, Sequences, SequencesExt

CONSTANTS Mailboxes, Letters

VARIABLES
  accepted,    \* per mailbox, in order
  received,    \* what its runner took, since the last loss
  lost,        \* how much was taken or lost before that
  confirmed    \* <<mailbox, letter>> a sender was told Ok for

channelVars == <<accepted, received, lost, confirmed>>

Init ==
  /\ accepted = [b \in Mailboxes |-> <<>>]
  /\ received = [b \in Mailboxes |-> <<>>]
  /\ lost = [b \in Mailboxes |-> 0]
  /\ confirmed = {}

\* A letter is accepted, and confirmed with it or later.
Accept(b) ==
  /\ accepted'[b] # <<>>
  /\ LET m == Last(accepted'[b])
     IN  /\ m \in Letters \ ToSet(accepted[b])
         /\ accepted' = [accepted EXCEPT ![b] = Append(@, m)]
         /\ confirmed' \in {confirmed, confirmed \cup {<<b, m>>}}
  /\ UNCHANGED <<received, lost>>

Confirm(b) ==
  /\ \E m \in ToSet(accepted[b]) : confirmed' = confirmed \cup {<<b, m>>}
  /\ UNCHANGED <<accepted, received, lost>>

Receive(b) ==
  LET next == lost[b] + Len(received[b]) + 1
  IN  /\ next <= Len(accepted[b])
      /\ received' = [received EXCEPT ![b] = Append(@, accepted[b][next])]
      /\ UNCHANGED <<accepted, lost, confirmed>>

\* The mailbox is made anew.
Lose(b) ==
  /\ lost' = [lost EXCEPT ![b] = Len(accepted[b])]
  /\ received' = [received EXCEPT ![b] = <<>>]
  /\ UNCHANGED <<accepted, confirmed>>

Next ==
  \E b \in Mailboxes : Accept(b) \/ Confirm(b) \/ Receive(b) \/ Lose(b)

Spec == Init /\ [][Next]_channelVars
=============================================================================

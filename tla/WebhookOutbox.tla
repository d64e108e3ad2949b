----------------------------- MODULE WebhookOutbox -----------------------------
(***************************************************************************)
(* What delivery promises for each webhook message, without threads, lists *)
(* or retries: a message is in the hands of at most one sender, it is      *)
(* recorded as sent only after the customer got it, and what is sent, or   *)
(* was let go of, is never sent again.                                     *)
(***************************************************************************)
EXTENDS Naturals

CONSTANT Messages

VARIABLES
  phase,     \* where each message is
  received   \* how often the customer got it: 0, 1, or 2 for more

outboxVars == <<phase, received>>

Phases == {"new", "sending", "failed", "sent", "abandoned"}

OutboxInit ==
  /\ phase = [m \in Messages |-> "new"]
  /\ received = [m \in Messages |-> 0]

Move(S, from, to) ==
  /\ S # {}
  /\ \A m \in S : phase[m] \in from
  /\ phase' = [m \in Messages |-> IF m \in S THEN to ELSE phase[m]]
  /\ UNCHANGED received

\* A fresh message gets a sender, or is dropped at once.
Take(m) ==
  \/ Move({m}, {"new"}, "sending")
  \/ Move({m}, {"new"}, "abandoned")

\* A POST that may have reached the customer.
Deliver(m) ==
  /\ phase[m] = "sending"
  /\ received' = [received EXCEPT ![m] = IF @ = 0 THEN 1 ELSE 2]
  /\ UNCHANGED phase

\* The customer confirmed the message.
Confirm(m) == received[m] > 0 /\ Move({m}, {"sending"}, "sent")

\* The sender stopped trying for now.
GiveUp(m) == Move({m}, {"sending"}, "failed")

\* Failed messages are handed to a sender again, as a batch.
Resend(S) == Move(S, {"failed"}, "sending")

\* Senders go away and leave their messages behind for good.
Abandon(S) == Move(S, {"sending"}, "abandoned")

OutboxNext ==
  \/ \E m \in Messages : Take(m) \/ Deliver(m) \/ Confirm(m) \/ GiveUp(m)
  \/ \E S \in SUBSET Messages : Resend(S) \/ Abandon(S)

OutboxSpec == OutboxInit /\ [][OutboxNext]_outboxVars

=============================================================================

----------------------------- MODULE MCWebhookQueue -----------------------------
(* WebhookQueue with three events of one job and one of another. *)
EXTENDS WebhookQueue

CONSTANTS e1, e2, e3, e4

Job == [team |-> <<1>>, id |-> <<2>>, type |-> "job"]

OtherJob == [team |-> <<1>>, id |-> <<3>>, type |-> "job"]

MCEntityOf == [e \in Events |-> IF e = e4 THEN OtherJob ELSE Job]

MCOpOf == [e \in Events |-> CASE e = e1 -> 1 [] e = e3 -> 3 [] OTHER -> 2]

NoFaults == {}

AllFaults == FaultKinds

=============================================================================
